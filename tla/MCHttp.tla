------------------------------- MODULE MCHttp --------------------------------
(***************************************************************************)
(* The two classes of server/src/http between a connection's bytes and a   *)
(* handler: HttpRequestParser and PathRouter.  They share nothing and no   *)
(* property relates them, so a behaviour that exercises one leaves the     *)
(* other as it was constructed.                                            *)
(***************************************************************************)
EXTENDS MCHttpParser, MCRouter

VARIABLE part   \* the class this behaviour exercises

HttpInit ==
    /\ ParserInit /\ RouterInit /\ part \in {"parser", "router"}
    /\ part # "parser" => stream = CHOOSE s \in Streams : TRUE
    /\ part # "router" => calls = registerApiRoutes

HttpNext ==
    \/ part = "parser" /\ ParserNext /\ UNCHANGED <<routerVars, part>>
    \/ part = "router" /\ RouterNext /\ UNCHANGED <<parserVars, part>>

HttpSpec == HttpInit /\ [][HttpNext]_<<parserVars, routerVars, part>>
=============================================================================
