------------------------------- MODULE MCService -------------------------------
(* A small instance of Service.  An agency may have any name, "comm" too.     *)
EXTENDS Service

AnyName == {"comm"}
StoreIds == {"x1"}
================================================================================
