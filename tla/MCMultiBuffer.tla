---------------------------- MODULE MCMultiBuffer ----------------------------
\* State constraint for model checking ResourceMultiBuffer.
EXTENDS ResourceMultiBuffer

\* Stop at the first write of a replaced fetcher: the properties about content
\* say nothing of what follows, and the mixed contents are very many.
UntilStale == ~stale
=============================================================================
