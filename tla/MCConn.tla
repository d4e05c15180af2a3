------------------------------- MODULE MCConn ------------------------------
EXTENDS Conn
=============================================================================
