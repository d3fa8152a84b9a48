---------------------------- MODULE MCPlyBuffer ----------------------------
EXTENDS PlyBuffer
=============================================================================
