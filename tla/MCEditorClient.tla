--------------------------- MODULE MCEditorClient ---------------------------
EXTENDS EditorClient
=============================================================================
