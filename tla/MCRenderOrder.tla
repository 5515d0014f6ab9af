--------------------------- MODULE MCRenderOrder ----------------------------
\* Scenes whose creation times begin at 0, or wrap around the hash table.
EXTENDS RenderOrder

LargeStarts == {0, 6}
=============================================================================
