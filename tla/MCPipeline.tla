----------------------------- MODULE MCPipeline -----------------------------
EXTENDS HttpPipeline, TLC

CONSTANTS h1, h2, k1, k2, a1, a2

Symmetry == Permutations(Handlers) \union Permutations(Keys)
                \union Permutations(Supers) \union Permutations(Admins \ Supers)

\* No action reads `used`, and no property but its type.
WithoutUsed == <<keys, known, req, row, sessions, told>>
=============================================================================
