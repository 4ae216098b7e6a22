---------------------------- MODULE MCQueryClient ----------------------------
EXTENDS QueryClient

\* Every mutation edits the one query.
OneQuery == [m \in Mutations |-> 1]
=============================================================================
