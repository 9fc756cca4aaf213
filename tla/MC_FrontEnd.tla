------------------------------ MODULE MC_FrontEnd ------------------------------
(* Requests for two agents, with one stream slot each                        *)
EXTENDS FrontEnd
===============================================================================
