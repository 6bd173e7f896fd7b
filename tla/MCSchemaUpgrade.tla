---------------------------- MODULE MCSchemaUpgrade --------------------------
EXTENDS SchemaUpgrade

MCSource == {<<7, 12, 0>>, <<7, 15, 3>>, <<7, 16, 0>>, <<7, 21, 0>>}
MCTarget == {<<7, 12, 0>>, <<7, 17, 0>>, <<7, 18, 0>>, <<7, 21, 0>>, <<8, 0, 0>>}
==============================================================================
