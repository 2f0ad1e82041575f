------------------------ MODULE MCOperationRegistry ------------------------
EXTENDS OperationRegistry

CONSTANTS a, b

\* No manifest: not even an empty one.
None == <<Malformed, Malformed>>

MCManifests == {<<a, b>>, <<b>>, <<a, Malformed, b>>, <<Malformed>>, <<>>}
=============================================================================
