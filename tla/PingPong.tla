------------------------------ MODULE PingPong ------------------------------
(***************************************************************************)
(* The io_socket_st.cpp programs: CONNECTION_COUNT clients share           *)
(* REQUEST_COUNT requests; each sends one, waits for the answer, and sends *)
(* the next.  A handler for each connection answers every request until    *)
(* the client closes, and the server adds up what the handlers counted.    *)
(*                                                                         *)
(* The server and the client run in threads of their own.  An action is    *)
(* what a coroutine does between two operations on a socket.               *)
(***************************************************************************)
EXTENDS Integers, FiniteSets, Functions

CONSTANTS
  CONNECTION_COUNT,  (* argv[1]                                            *)
  REQUEST_COUNT,     (* argv[2]                                            *)
  Programs,          (* the programs                                       *)
  Punctual,          (* those that listen when the sleep in main() is over *)
  MaxPieces,         (* a message arrives in so many pieces, at most       *)
  MaxResets          (* so many connections are reset, at most             *)

(***************************************************************************)
(* How the programs differ.                                                *)
(*   listen    the server listens "first", or while main() has "slept"     *)
(*   handlers  they start one by one as connections are accepted, "each";  *)
(*             or when all have been, in one "batch"                       *)
(*   results   of the handlers: they are "joined", or "written" to a       *)
(*             channel that the server reads                               *)
(*   error     a handler's error is "printed", ends the process ("fatal"), *)
(*             or is "thrown", and main() sees it when it joins the server *)
(*   refused   when the server does not listen the client tries its writes *)
(*             nevertheless ("lost"), ends the process ("fatal"), or is    *)
(*             "forgotten": the wait_group drops its exception             *)
(*   lost      a client whose connection fails ends the process ("fatal"), *)
(*             throws ("thrown"), or just returns ("forgotten")            *)
(*   joined    main() waits for the clients and the server ("both"), or    *)
(*             for the "server" alone                                      *)
(***************************************************************************)
Program(listen, handlers, results, error, refused, lost, joined) ==
  [listen |-> listen, handlers |-> handlers, results |-> results, error |-> error,
   refused |-> refused, lost |-> lost, joined |-> joined]

TooManyCooks == Program("slept", "each", "joined", "printed", "lost", {"fatal"}, "both")
cobalt       == Program("slept", "each", "written", "printed", "forgotten", {"fatal"}, "both")
cppcoro      == Program("first", "each", "joined", "thrown", "fatal", {"fatal", "thrown"}, "both")
folly        == Program("slept", "batch", "joined", "printed", "fatal", {"fatal"}, "both")
libcoro      == Program("first", "each", "written", "fatal", "fatal", {"forgotten"}, "server")

How == [TooManyCooks |-> TooManyCooks, cobalt |-> cobalt, cppcoro |-> cppcoro,
        folly |-> folly, libcoro |-> libcoro]

ASSUME CountsAssumption ==
  /\ CONNECTION_COUNT \in Nat \ {0}
  /\ REQUEST_COUNT \in Nat
  /\ Programs \subseteq DOMAIN How
  /\ Punctual \subseteq Programs
  /\ MaxPieces \in Nat \ {0}
  /\ MaxResets \in Nat

Connections == 0 .. CONNECTION_COUNT-1

per_task == REQUEST_COUNT \div CONNECTION_COUNT
rem      == REQUEST_COUNT % CONNECTION_COUNT

(* The requests that client c makes; a slip: one client too many gets an   *)
(* extra request.                                                          *)
CountOffByOne(c) == IF c <= rem THEN per_task + 1 ELSE per_task
Count(c) == IF c < rem THEN per_task + 1 ELSE per_task

VARIABLES
  program,    (* the name of the program                                   *)
  pieces,     (* the pieces that a request, and an answer, may arrive in   *)
  server,     (* where the server is                                       *)
  handler,    (* handler[c]: where it is, i, what it has still to send     *)
  client,     (* client[c]: where it is, i, what it has still to send      *)
  wire,       (* wire[c]: its state, and what was sent and not yet read    *)
  collected,  (* the handlers whose results the server has                 *)
  failed,     (* was a FAIL line printed?                                  *)
  process,    (* "running", "done", or "terminated"                        *)
  resets      (* history: the number of resets                             *)

serverVars == <<server, collected, failed>>
vars == <<program, pieces, serverVars, handler, client, wire, process, resets>>

how == How[program]

NewHandler == [at |-> "none", i |-> 0, left |-> 0]
NewClient  == [at |-> "new", i |-> 0, left |-> 0]
NoWire     == [state |-> "none", up |-> 0, down |-> 0]

Init ==
  /\ program \in Programs
  /\ pieces \in [request : 1 .. MaxPieces, answer : 1 .. MaxPieces]
  /\ server = IF how.listen = "first" THEN "accepting" ELSE "starting"
  /\ handler = [c \in Connections |-> NewHandler]
  /\ client = [c \in Connections |-> NewClient]
  /\ wire = [c \in Connections |-> NoWire]
  /\ collected = {}
  /\ failed = FALSE
  /\ process = "running"
  /\ resets = 0
-----------------------------------------------------------------------------
(* server(): the acceptor listens.                                         *)
Listen ==
  /\ server = "starting"
  /\ server' = "accepting"
  /\ UNCHANGED <<program, pieces, collected, failed, handler, client, wire, process, resets>>

(* server(): a connection is accepted, and a handler made for it.          *)
Accept(c) ==
  /\ server = "accepting"
  /\ wire[c].state # "none" /\ handler[c].at = "none"
  /\ handler' = [handler EXCEPT ![c].at = "recv"]
  /\ server' = IF \A d \in Connections \ {c} : handler[d].at # "none"
               THEN "counting" ELSE server
  /\ UNCHANGED <<program, pieces, collected, failed, client, wire, process, resets>>

Started(c) == how.handlers = "each" \/ server # "accepting"

HandlerEnds(c, end) == handler' = [handler EXCEPT ![c].at = end]

(* server_handler(): all that has arrived is read as one request; or there *)
(* is nothing, and there will be nothing.                                  *)
HandlerRecv(c) ==
  /\ handler[c].at = "recv" /\ Started(c)
  /\ \/ /\ wire[c].up > 0
        /\ handler' = [handler EXCEPT ![c].at = "send", ![c].left = pieces.answer]
        /\ wire' = [wire EXCEPT ![c].up = 0]
     \/ /\ wire[c].up = 0 /\ wire[c].state = "closed"
        /\ HandlerEnds(c, "eof") /\ UNCHANGED wire
     \/ /\ wire[c].up = 0 /\ wire[c].state = "reset"
        /\ HandlerEnds(c, "error") /\ UNCHANGED wire
  /\ UNCHANGED <<program, pieces, serverVars, client, process, resets>>

(* server_handler(): some of the answer is sent, and i counts it when all  *)
(* of it has been.  A client that has closed resets the connection.        *)
HandlerSend(c) ==
  /\ handler[c].at = "send"
  /\ \/ \E n \in 1 .. handler[c].left :
          /\ wire[c].state # "reset"
          /\ wire' = IF wire[c].state = "closed"
                     THEN [wire EXCEPT ![c].state = "reset"]
                     ELSE [wire EXCEPT ![c].down = @ + n]
          /\ handler' = IF n < handler[c].left
                        THEN [handler EXCEPT ![c].left = @ - n]
                        ELSE [handler EXCEPT ![c] =
                                [at |-> "recv", i |-> @.i + 1, left |-> 0]]
     \/ /\ wire[c].state = "reset"
        /\ HandlerEnds(c, "error") /\ UNCHANGED wire
  /\ UNCHANGED <<program, pieces, serverVars, client, process, resets>>
-----------------------------------------------------------------------------
(* Where a client goes when it has received i answers.                     *)
NextTurn(c, i) ==
  IF i < Count(c) THEN [at |-> "send", i |-> i, left |-> pieces.request]
                  ELSE [at |-> "close", i |-> i, left |-> 0]

(* client_handler(): the connection is made, though not yet accepted.      *)
Connect(c) ==
  /\ client[c].at = "new"
  /\ server # "starting"
  /\ wire' = [wire EXCEPT ![c].state = "open"]
  /\ client' = [client EXCEPT ![c] = NextTurn(c, 0)]
  /\ UNCHANGED <<program, pieces, serverVars, handler, process, resets>>

ClientEnds(c, end) ==
  /\ client' = [client EXCEPT ![c].at = end]
  /\ process' = IF end = "fatal" THEN "terminated" ELSE process
  /\ failed' = (failed \/ end = "fatal")

(* client_handler(): the connection has failed.  A slip: nobody is told.   *)
LostQuietly(c) == ClientEnds(c, "forgotten")
Lost(c) == \E l \in how.lost : ClientEnds(c, l)

(* client_handler(): nobody listens, because the sleep was too short.      *)
Refused(c) ==
  /\ client[c].at = "new"
  /\ server = "starting" /\ program \notin Punctual
  /\ IF how.refused = "lost" THEN Lost(c) ELSE ClientEnds(c, how.refused)
  /\ UNCHANGED <<program, pieces, server, collected, handler, wire, resets>>

(* client_handler(): some of the request is sent.                          *)
ClientSend(c) ==
  /\ client[c].at = "send"
  /\ \/ \E n \in 1 .. client[c].left :
          /\ wire[c].state = "open"
          /\ wire' = [wire EXCEPT ![c].up = @ + n]
          /\ client' = [client EXCEPT ![c].at = IF n < client[c].left THEN @ ELSE "recv",
                                      ![c].left = @ - n]
          /\ UNCHANGED <<failed, process>>
     \/ /\ wire[c].state = "reset"
        /\ Lost(c) /\ UNCHANGED wire
  /\ UNCHANGED <<program, pieces, server, collected, handler, resets>>

(* client_handler(): all that has arrived is read as one answer.           *)
ClientRecv(c) ==
  /\ client[c].at = "recv"
  /\ \/ /\ wire[c].down > 0
        /\ wire' = [wire EXCEPT ![c].down = 0]
        /\ client' = [client EXCEPT ![c] = NextTurn(c, @.i + 1)]
        /\ UNCHANGED <<failed, process>>
     \/ /\ wire[c].down = 0 /\ wire[c].state = "reset"
        /\ Lost(c) /\ UNCHANGED wire
  /\ UNCHANGED <<program, pieces, server, collected, handler, resets>>

(* client_handler(): shutdown and close; what was not read turns the close *)
(* into a reset.                                                           *)
ClientClose(c) ==
  /\ client[c].at = "close"
  /\ client' = [client EXCEPT ![c].at = "closed"]
  /\ wire' = [wire EXCEPT ![c].state =
       IF wire[c].down > 0 \/ @ = "reset" THEN "reset" ELSE "closed"]
  /\ UNCHANGED <<program, pieces, serverVars, handler, process, resets>>

(* The network: a connection is reset, and what was under way is lost.     *)
Reset(c) ==
  /\ resets < MaxResets
  /\ wire[c].state = "open"
  /\ wire' = [wire EXCEPT ![c] = [state |-> "reset", up |-> 0, down |-> 0]]
  /\ resets' = resets + 1
  /\ UNCHANGED <<program, pieces, serverVars, handler, client, process>>
-----------------------------------------------------------------------------
Over(c) == handler[c].at \in {"eof", "error"}

(* Is a result taken for a success?  A slip: any result is.                *)
AnyEnd(c) == Over(c)
GoodEnd(c) == handler[c].at = "eof"

(* server(): has the loop over the results ended?  Slips: one too early,   *)
(* or one too late.                                                        *)
AllButOne(rs) == Cardinality(rs) >= CONNECTION_COUNT - 1
OneMore(rs) == Cardinality(rs) > CONNECTION_COUNT
AllResults(rs) == rs = Connections

total == SumFunction([c \in Connections |-> handler[c].i])

(* server(): the results of handlers cs are checked and added to total,    *)
(* which is compared when they are the last.                               *)
TakeResults(cs) ==
  LET bad == \E c \in cs : ~ GoodEnd(c)
      all == AllResults(collected \cup cs)
  IN  /\ collected' = collected \cup cs
      /\ failed' = \/ failed
                   \/ bad /\ how.error # "thrown"
                   \/ all /\ total # REQUEST_COUNT
      /\ process' = IF bad /\ how.error = "fatal" THEN "terminated" ELSE process
      /\ server' = IF bad /\ how.error = "thrown" THEN "thrown"
                   ELSE IF all THEN "counted" ELSE server
      /\ UNCHANGED <<program, pieces, handler, client, wire, resets>>

JoinHandlers ==
  /\ server = "counting" /\ how.results = "joined"
  /\ \A c \in Connections : Over(c)
  /\ TakeResults(Connections)

ReadResult(c) ==
  /\ server = "counting" /\ how.results = "written"
  /\ Over(c) /\ c \notin collected
  /\ TakeResults({c})

ClientOver(c) == client[c].at \in {"closed", "forgotten", "thrown"}

(* main(): the server and, in most programs, the clients are joined.       *)
MainReturns ==
  /\ server \in {"counted", "thrown"}
  /\ how.joined = "both" => \A c \in Connections : ClientOver(c)
  /\ process' = IF server = "thrown" \/ \E c \in Connections : client[c].at = "thrown"
                THEN "terminated" ELSE "done"
  /\ UNCHANGED <<program, pieces, serverVars, handler, client, wire, resets>>

Stopped == process # "running" /\ UNCHANGED vars

Handle(c) == Accept(c) \/ HandlerRecv(c) \/ HandlerSend(c) \/ ReadResult(c)
Request(c) == Connect(c) \/ ClientSend(c) \/ ClientRecv(c) \/ ClientClose(c)

Step ==
  /\ process = "running"
  /\ \/ Listen \/ JoinHandlers \/ MainReturns
     \/ \E c \in Connections : Handle(c) \/ Request(c)

Trouble == process = "running" /\ \E c \in Connections : Refused(c) \/ Reset(c)

Next == Step \/ Trouble \/ Stopped

Spec == Init /\ [][Next]_vars

(* The threads run whatever coroutine can run.                             *)
FairSpec == Spec /\ WF_vars(Step)
-----------------------------------------------------------------------------
Handlers == [at : {"none", "recv", "send", "eof", "error"}, i : Nat,
             left : 0 .. pieces.answer]
Clients  == [at : {"new", "send", "recv", "close", "closed", "fatal", "thrown", "forgotten"},
             i : Nat, left : 0 .. pieces.request]
Wires    == [state : {"none", "open", "closed", "reset"}, up : Nat, down : Nat]

TypeOK ==
  /\ program \in Programs
  /\ pieces \in [request : 1 .. MaxPieces, answer : 1 .. MaxPieces]
  /\ server \in {"starting", "accepting", "counting", "counted", "thrown"}
  /\ handler \in [Connections -> Handlers]
  /\ client \in [Connections -> Clients]
  /\ wire \in [Connections -> Wires]
  /\ collected \subseteq Connections
  /\ failed \in BOOLEAN
  /\ process \in {"running", "done", "terminated"}
  /\ resets \in 0 .. MaxResets

(* Does every message arrive in one piece?  The programs count on it.      *)
whole == pieces.request = 1 /\ pieces.answer = 1

(* A connection was reset, or refused because the server did not listen.   *)
Troubled(c) ==
  \/ wire[c].state = "reset"
  \/ wire[c].state = "none" /\ client[c].at # "new"

(* When main() returns and no FAIL line was printed, every client has had  *)
(* its answers, and when messages arrive whole the handlers counted as     *)
(* many: also in the program that does not join its clients, and in those  *)
(* whose clients say nothing when their connections fail.  And when they   *)
(* do, a FAIL line means that a connection was in trouble: the shares of   *)
(* the clients add up to REQUEST_COUNT.                                    *)
HonestReport ==
  /\ process = "done" /\ ~ failed =>
       \A c \in Connections :
         client[c].i = Count(c) /\ (whole => handler[c].i = Count(c))
  /\ whole /\ failed => \E c \in Connections : Troubled(c)

(* The server does not return while a handler runs that is to write its    *)
(* result to the server's channel, or that main() ends with.               *)
ResultsOutlive == server = "counted" => \A c \in Connections : Over(c)

(* The two ends of a connection: what the client does shows in the state   *)
(* of the wire, and how the handler ended shows how the client did.        *)
EndsInv(c) ==
  /\ wire[c].state = "none" =>
       /\ client[c].at \in {"new", "fatal", "thrown", "forgotten"} /\ client[c].i = 0
       /\ handler[c].at = "none" /\ handler[c].i = 0
       /\ wire[c].up = 0 /\ wire[c].down = 0
  /\ wire[c].state = "open" => client[c].at \in {"send", "recv", "close"}
  /\ wire[c].state = "closed" => client[c].at = "closed"
  /\ client[c].at = "new" => wire[c].state = "none"
  /\ client[c].at \in {"send", "recv"} => client[c].i < Count(c)
  /\ client[c].at \in {"close", "closed"} => client[c].i = Count(c)
  /\ handler[c].at = "eof" => wire[c].state = "closed"
  /\ handler[c].at = "error" => wire[c].state = "reset"

(* When messages arrive whole, a client that waits for an answer has either *)
(* its request under way, or being answered, or its answer under way; and  *)
(* nothing is, when it does not wait.                                      *)
TurnInv(c) ==
  /\ client[c].at = "send" => client[c].left = 1
  /\ handler[c].at = "send" => handler[c].left = 1
  /\ IF wire[c].state = "reset"
     THEN /\ wire[c].up = 0 /\ wire[c].down = 0
          /\ handler[c].i \in {client[c].i, client[c].i + 1}
     ELSE /\ wire[c].up + wire[c].down + (IF handler[c].at = "send" THEN 1 ELSE 0)
               = IF client[c].at = "recv" THEN 1 ELSE 0
          /\ handler[c].i = client[c].i + wire[c].down

(* The server has the results of handlers that are over, and it was told   *)
(* of those that ended in an error.                                        *)
ServerInv ==
  /\ \A c \in collected : Over(c) /\ (GoodEnd(c) \/ failed \/ server = "thrown")
  /\ server = "counted" => collected = Connections
  /\ process = "done" => server = "counted"

(* The inductive invariant.                                                *)
IInv ==
  /\ TypeOK
  /\ \A c \in Connections : EndsInv(c)
  /\ whole => \A c \in Connections : TurnInv(c)
  /\ ServerInv
  /\ whole /\ failed => \E c \in Connections : Troubled(c)

(* The promise is about the programs whose messages arrive whole.          *)
answered == [c \in Connections |-> IF whole THEN handler[c].i ELSE 0]
received == [c \in Connections |-> IF whole THEN client[c].i ELSE 0]
outcome ==
  IF whole /\ process = "done" THEN IF failed THEN "failed" ELSE "passed"
  ELSE IF whole THEN process ELSE "running"

Promise == INSTANCE PingPongPromise

(* When messages arrive whole, requests and answers take turns, and a run  *)
(* that passes has made them all.                                          *)
PromiseKept == Promise!Spec

(* A run ends, whatever fails and in however many pieces messages arrive.  *)
EveryRunEnds == <>(process # "running")
=============================================================================
