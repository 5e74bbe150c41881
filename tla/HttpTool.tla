------------------------------- MODULE HttpTool -------------------------------
(***************************************************************************)
(* A tool of the graph as its author sets it up in ToolConfigPanel and as  *)
(* the worker calls it for the language model: where every argument ends   *)
(* up in the request, and what the model is told of it.  A call works with *)
(* the config it was loaded with, so edits are steps between calls.        *)
(***************************************************************************)
EXTENDS FiniteSets

CONSTANTS
  Params,   \* names of parameters
  Methods   \* HTTP methods offered by the panel

Bodyless == {"GET", "DELETE"}

ASSUME ToolAssumption == Methods \subseteq Bodyless \cup {"POST", "PUT", "PATCH"}

VARIABLES
  tool,     \* the stored config
  request,  \* the call in flight, and the request made for it
  told      \* what the model was told of the last call

toolVars == <<tool, request, told>>

Places == {"path", "query", "body"}

\* How a list declares a parameter: not, without a value, with a value.
Declarations == {"no", "bare", "value"}

\* path: the names in braces of the path; body: the keys of the static body.
\* switched is history: the method was changed since bodyParams was written.
ToolConfigs ==
  [method : Methods, baseUrl : BOOLEAN, known : BOOLEAN, path : SUBSET Params,
   params : [Places -> [Params -> Declarations]], body : SUBSET Params,
   switched : BOOLEAN]

\* Where a parameter's content in the request comes from.
Origins == {"none", "argument", "value", "empty", "static"}

HttpRequests ==
  [pc : {"idle", "sent"}, args : SUBSET Params,
   at : [Places -> [Params -> Origins]]]

NoParams == [n \in Params |-> "no"]

Unsent == [pc |-> "idle", args |-> {}, at |-> [p \in Places |-> [n \in Params |-> "none"]]]

ToolInit ==
  /\ \E m \in Methods :
       tool = [method |-> m, baseUrl |-> FALSE, known |-> FALSE, path |-> {},
               params |-> [p \in Places |-> NoParams], body |-> {}, switched |-> FALSE]
  /\ request = Unsent
  /\ told = "nothing"

-----------------------------------------------------------------------------
(* The panel.                                                               *)

Edit(config) ==
  /\ request.pc = "idle"
  /\ tool' = config
  /\ UNCHANGED <<request, told>>

SetMethod(m) == Edit([tool EXCEPT !.method = m, !.switched = @ \/ m # tool.method])

SetBaseUrl(given) == Edit([tool EXCEPT !.baseUrl = given])

\* A tool may get the name of one that has a handler of its own.
Rename(known) == Edit([tool EXCEPT !.known = known])

SetPath(names) == Edit([tool EXCEPT !.path = names])

SetBody(names) == Edit([tool EXCEPT !.body = names])

\* Slip: the list of body parameters is offered for every method.
EveryListOffered(p) == p \in Places

\* The list of body parameters is offered for methods with a body only.
Offered(p) == p = "body" => tool.method \notin Bodyless

SetParams(p, declared) ==
  /\ Offered(p)
  /\ Edit([tool EXCEPT !.params[p] = declared, !.switched = @ /\ p # "body"])

-----------------------------------------------------------------------------
(* The call.                                                                *)

Declared(p, n) == tool.params[p][n] # "no"

\* _substitute_path: a declared name in braces gives way to the argument, the
\* value, or nothing.
InPath(args) ==
  [n \in Params |->
     IF n \notin tool.path \/ ~Declared("path", n) THEN "none"
     ELSE IF n \in args THEN "argument"
     ELSE IF tool.params["path"][n] = "value" THEN "value" ELSE "empty"]

\* _collect: the argument, or else the value if there is one.
Collect(p, args) ==
  [n \in Params |->
     IF ~Declared(p, n) THEN "none"
     ELSE IF n \in args THEN "argument"
     ELSE IF tool.params[p][n] = "value" THEN "value" ELSE "none"]

\* Arguments that no list declares.
Leftover(args) == {n \in args : \A p \in Places : ~Declared(p, n)}

\* Slip: what no list declares is taken to be in the body.
QueryDeclaredOnly(args) == Collect("query", args)

InQuery(args) ==
  [n \in Params |->
     IF tool.method \in Bodyless /\ n \in Leftover(args) THEN "argument"
     ELSE Collect("query", args)[n]]

\* The static body gives way to what is collected and to what is left over.
InBody(args) ==
  [n \in Params |->
     IF tool.method \in Bodyless THEN "none"
     ELSE IF n \in Leftover(args) THEN "argument"
     ELSE IF Collect("body", args)[n] # "none" THEN Collect("body", args)[n]
     ELSE IF n \in tool.body THEN "static" ELSE "none"]

Tell(answer) ==
  /\ told' = answer
  /\ request' = Unsent
  /\ UNCHANGED tool

\* A handler of its own: no request is made, and an exception is an apology.
CallHandler ==
  request.pc = "idle" /\ tool.known /\ \E text \in {"text", "failed"} : Tell(text)

\* Without a base URL the model is told of a success nobody had.
Mock == request.pc = "idle" /\ ~tool.known /\ ~tool.baseUrl /\ Tell("mock")

\* The URL's scheme or address will not do.
Misconfigured ==
  request.pc = "idle" /\ ~tool.known /\ tool.baseUrl /\ Tell("misconfigured")

Send(args) ==
  /\ request.pc = "idle"
  /\ ~tool.known /\ tool.baseUrl
  /\ request' = [pc |-> "sent", args |-> args,
                 at |-> [p \in Places |-> CASE p = "path" -> InPath(args)
                                            [] p = "query" -> InQuery(args)
                                            [] p = "body" -> InBody(args)]]
  /\ told' = "nothing"
  /\ UNCHANGED tool

\* The endpoint answers, with an error perhaps.
Answer(text) == request.pc = "sent" /\ Tell(text)

\* Any httpx.HTTPError: no connection, no answer in ten seconds; "failed" is any
\* other exception on the way.
NoAnswer == request.pc = "sent" /\ \E text \in {"unreached", "failed"} : Tell(text)

ToolNext ==
  \/ \E m \in Methods : SetMethod(m)
  \/ \E b \in BOOLEAN : SetBaseUrl(b) \/ Rename(b)
  \/ \E S \in SUBSET Params : SetPath(S) \/ SetBody(S) \/ Send(S)
  \/ \E p \in Places, d \in [Params -> Declarations] : SetParams(p, d)
  \/ CallHandler \/ Mock \/ Misconfigured
  \/ \E text \in {"text", "error"} : Answer(text)
  \/ NoAnswer

ToolSpec == ToolInit /\ [][ToolNext]_toolVars

-----------------------------------------------------------------------------
(* Properties.                                                              *)

\* Every variable keeps its type.
ToolTypeOK ==
  /\ tool \in ToolConfigs
  /\ request \in HttpRequests
  /\ told \in {"nothing", "text", "error", "failed", "unreached", "mock", "misconfigured"}

GoesTo(n) == {p \in Places : request.at[p][n] = "argument"}

\* An argument the model gives goes to every place that declares it and that
\* the request has, in front of any value; one that nothing declares goes to
\* exactly one place, the query of a request without a body, else the body.
ArgumentsTravel ==
  request.pc = "sent" => \A n \in request.args :
    IF \E p \in Places : Declared(p, n)
    THEN GoesTo(n) = {p \in Places :
           /\ Declared(p, n)
           /\ p = "path" => n \in tool.path
           /\ p = "body" => tool.method \notin Bodyless}
    ELSE GoesTo(n) = {IF tool.method \in Bodyless THEN "query" ELSE "body"}

\* The model is asked for every declared parameter.  One it gives is lost only
\* if the path has no braces for it, or it was declared for the body before
\* the method was changed: the panel then hides the list and keeps it stored.
LostOnlyAfterSwitch ==
  request.pc = "sent" => \A n \in request.args :
    GoesTo(n) = {} =>
      \/ Declared("path", n) /\ n \notin tool.path
      \/ Declared("body", n) /\ tool.switched

=============================================================================
