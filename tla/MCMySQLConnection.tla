-------------------------- MODULE MCMySQLConnection --------------------------
(* Two workers, one synchronous connection, two transactions of two        *)
(* statements.                                                             *)
EXTENDS MySQLConnection
=============================================================================
