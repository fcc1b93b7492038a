------------------------------ MODULE MCYjsWire ------------------------------
EXTENDS YjsWire

MCMagic == <<6, 1>>
==============================================================================
