--------------------------- MODULE PingPongProofs ---------------------------
(***************************************************************************)
(* Proofs about the io_socket_st.cpp programs, for every number of         *)
(* connections, requests, pieces and resets.                               *)
(***************************************************************************)
EXTENDS PingPong, FiniteSetTheorems, WellFoundedInduction, TLAPS

USE DEF Connections

LEMMA CountFacts ==
  /\ CONNECTION_COUNT \in Nat \ {0} /\ REQUEST_COUNT \in Nat
  /\ Programs \subseteq DOMAIN How
  /\ MaxPieces \in Nat \ {0} /\ MaxResets \in Nat
  /\ \A c \in Connections : Count(c) \in Nat
<1>1. /\ CONNECTION_COUNT \in Nat \ {0} /\ REQUEST_COUNT \in Nat
      /\ Programs \subseteq DOMAIN How
      /\ MaxPieces \in Nat \ {0} /\ MaxResets \in Nat
  BY CountsAssumption
<1>2. per_task \in Nat /\ rem \in Nat
  BY <1>1 DEF per_task, rem
<1> QED BY <1>1, <1>2 DEF Count

(* What a program does about errors is what the actions ask about.         *)
LEMMA HowFacts ==
  ASSUME TypeOK
  PROVE  /\ how.lost \subseteq {"fatal", "thrown", "forgotten"}
         /\ how.refused \in {"lost", "fatal", "forgotten"}
         /\ how.error \in {"printed", "fatal", "thrown"}
<1>1. program \in {"TooManyCooks", "cobalt", "cppcoro", "folly", "libcoro"}
  BY CountFacts DEF TypeOK, How
<1> QED BY <1>1 DEF how, How, Program, TooManyCooks, cobalt, cppcoro, folly, libcoro

(* A client that cannot go on ends in one of three ways.                   *)
LEMMA LostFacts ==
  ASSUME TypeOK, NEW c \in Connections,
         Lost(c) \/ \E l \in {"fatal", "thrown", "forgotten"} : ClientEnds(c, l)
  PROVE  \E l \in {"fatal", "thrown", "forgotten"} :
           /\ client' = [client EXCEPT ![c].at = l]
           /\ process' = IF l = "fatal" THEN "terminated" ELSE process
           /\ failed' = (failed \/ l = "fatal")
BY HowFacts DEF Lost, ClientEnds

LEMMA RefusedFacts ==
  ASSUME TypeOK, NEW c \in Connections, Refused(c)
  PROVE  \E l \in {"fatal", "thrown", "forgotten"} :
           /\ client' = [client EXCEPT ![c].at = l]
           /\ process' = IF l = "fatal" THEN "terminated" ELSE process
           /\ failed' = (failed \/ l = "fatal")
<1>1. Lost(c) \/ \E l \in {"fatal", "thrown", "forgotten"} : ClientEnds(c, l)
  BY HowFacts DEF Refused
<1> QED BY <1>1, LostFacts

(* The actions, one by one.                                                *)
LEMMA NextCases ==
  ASSUME [Next]_vars
  PROVE  \/ UNCHANGED vars
         \/ Listen \/ JoinHandlers \/ MainReturns
         \/ \E c \in Connections :
              \/ Accept(c) \/ HandlerRecv(c) \/ HandlerSend(c) \/ ReadResult(c)
              \/ Connect(c) \/ ClientSend(c) \/ ClientRecv(c) \/ ClientClose(c)
              \/ Refused(c) \/ Reset(c)
BY DEF Next, Step, Trouble, Stopped, Handle, Request
-----------------------------------------------------------------------------
LEMMA InitType == Init => TypeOK
<1> SUFFICES ASSUME Init PROVE TypeOK
  OBVIOUS
<1>1. pieces.answer \in Nat /\ pieces.request \in Nat
  BY CountFacts DEF Init
<1>2. NewHandler \in Handlers /\ NewClient \in Clients /\ NoWire \in Wires
  BY <1>1 DEF NewHandler, NewClient, NoWire, Handlers, Clients, Wires
<1>3. handler \in [Connections -> Handlers] /\ client \in [Connections -> Clients]
      /\ wire \in [Connections -> Wires]
  <2> HIDE DEF Connections
  <2> QED BY <1>2 DEF Init
<1>4. server \in {"accepting", "starting"}
  BY DEF Init
<1>5. resets \in 0 .. MaxResets
  BY CountFacts DEF Init
<1> HIDE DEF Connections
<1> QED BY <1>3, <1>4, <1>5 DEF Init, TypeOK

(* What the type invariant says of one connection.                         *)
LEMMA ConnectionType ==
  ASSUME TypeOK, NEW c \in Connections
  PROVE  /\ handler[c] \in Handlers /\ client[c] \in Clients /\ wire[c] \in Wires
         /\ pieces.answer \in Nat \ {0} /\ pieces.request \in Nat \ {0}
BY CountFacts DEF TypeOK

(* The handler of a connection changes, or nothing of the handlers does;   *)
(* the same for the clients and the wires.                                 *)
LEMMA OneConnection ==
  ASSUME TypeOK, NEW c \in Connections, pieces' = pieces,
         handler' = handler \/ \E h \in Handlers : handler' = [handler EXCEPT ![c] = h],
         client' = client \/ \E k \in Clients : client' = [client EXCEPT ![c] = k],
         wire' = wire \/ \E w \in Wires : wire' = [wire EXCEPT ![c] = w]
  PROVE  /\ handler' \in [Connections -> Handlers']
         /\ client' \in [Connections -> Clients']
         /\ wire' \in [Connections -> Wires']
<1>1. Handlers' = Handlers /\ Clients' = Clients /\ Wires' = Wires
  BY DEF Handlers, Clients, Wires
<1>2. /\ handler \in [Connections -> Handlers]
      /\ client \in [Connections -> Clients]
      /\ wire \in [Connections -> Wires]
  BY DEF TypeOK
<1> HIDE DEF Connections
<1> QED BY <1>1, <1>2

LEMMA NoConnection ==
  ASSUME TypeOK, UNCHANGED <<pieces, handler, client, wire>>
  PROVE  /\ handler' \in [Connections -> Handlers']
         /\ client' \in [Connections -> Clients']
         /\ wire' \in [Connections -> Wires']
<1> HIDE DEF Connections
<1> QED BY DEF TypeOK, Handlers, Clients, Wires

(* The rest of the type invariant.                                         *)
LEMMA RestOfType ==
  ASSUME TypeOK, UNCHANGED <<program, pieces>>,
         handler' \in [Connections -> Handlers'],
         client' \in [Connections -> Clients'],
         wire' \in [Connections -> Wires'],
         server' \in {"starting", "accepting", "counting", "counted", "thrown"},
         collected' \subseteq Connections, failed' \in BOOLEAN,
         process' \in {"running", "done", "terminated"}, resets' \in 0 .. MaxResets
  PROVE  TypeOK'
BY DEF TypeOK

(* A client that cannot go on is still a client.                           *)
LEMMA LostEnds ==
  ASSUME TypeOK, NEW c \in Connections, Lost(c)
  PROVE  /\ \E k \in Clients : client' = [client EXCEPT ![c] = k]
         /\ process' \in {process, "terminated"} /\ failed' \in BOOLEAN
BY LostFacts, ConnectionType DEF Clients, TypeOK

LEMMA RefusedEnds ==
  ASSUME TypeOK, NEW c \in Connections, Refused(c)
  PROVE  /\ \E k \in Clients : client' = [client EXCEPT ![c] = k]
         /\ process' \in {process, "terminated"} /\ failed' \in BOOLEAN
BY RefusedFacts, ConnectionType DEF Clients, TypeOK

LEMMA StepType == TypeOK /\ [Next]_vars => TypeOK'
<1> SUFFICES ASSUME TypeOK, [Next]_vars PROVE TypeOK'
  OBVIOUS
<1> USE ConnectionType
<1>1. CASE UNCHANGED vars
  BY <1>1, NoConnection, RestOfType DEF TypeOK, vars, serverVars
<1>2. CASE Listen
  BY <1>2, NoConnection, RestOfType DEF Listen, TypeOK
<1>3. CASE JoinHandlers
  BY <1>3, NoConnection, RestOfType DEF JoinHandlers, TakeResults, TypeOK
<1>4. CASE MainReturns
  BY <1>4, NoConnection, RestOfType DEF MainReturns, TypeOK, serverVars
<1>5. ASSUME NEW c \in Connections, Accept(c) PROVE TypeOK'
  <2>1. \E h \in Handlers : handler' = [handler EXCEPT ![c] = h]
    BY <1>5 DEF Accept, Handlers
  <2> QED BY <1>5, <2>1, OneConnection, RestOfType DEF Accept, TypeOK
<1>6. ASSUME NEW c \in Connections, HandlerRecv(c) PROVE TypeOK'
  <2>1. \/ handler' = [handler EXCEPT ![c].at = "send", ![c].left = pieces.answer]
        \/ \E e \in {"eof", "error"} : handler' = [handler EXCEPT ![c].at = e]
    BY <1>6 DEF HandlerRecv, HandlerEnds
  <2>2. \E h \in Handlers : handler' = [handler EXCEPT ![c] = h]
    BY <2>1 DEF Handlers, TypeOK
  <2>3. wire' = wire \/ \E w \in Wires : wire' = [wire EXCEPT ![c] = w]
    BY <1>6 DEF HandlerRecv, Wires, TypeOK
  <2> QED BY <1>6, <2>2, <2>3, OneConnection, RestOfType
          DEF HandlerRecv, TypeOK, serverVars
<1>7. ASSUME NEW c \in Connections, HandlerSend(c) PROVE TypeOK'
  <2>1. \E h \in Handlers : handler' = [handler EXCEPT ![c] = h]
    <3>1. CASE wire[c].state = "reset"
      BY <1>7, <3>1 DEF HandlerSend, HandlerEnds, Handlers, TypeOK
    <3>2. ASSUME NEW n \in 1 .. handler[c].left,
                 handler' = IF n < handler[c].left
                            THEN [handler EXCEPT ![c].left = @ - n]
                            ELSE [handler EXCEPT ![c] =
                                    [at |-> "recv", i |-> @.i + 1, left |-> 0]]
          PROVE  \E h \in Handlers : handler' = [handler EXCEPT ![c] = h]
      <4>1. CASE n < handler[c].left
        <5>1. [handler[c] EXCEPT !.left = @ - n] \in Handlers
          BY <4>1 DEF Handlers
        <5> QED BY <3>2, <4>1, <5>1
      <4>2. CASE ~ (n < handler[c].left)
        <5>1. [at |-> "recv", i |-> handler[c].i + 1, left |-> 0] \in Handlers
          BY DEF Handlers
        <5> QED BY <3>2, <4>2, <5>1
      <4> QED BY <4>1, <4>2
    <3> QED BY <1>7, <3>1, <3>2 DEF HandlerSend
  <2>2. wire' = wire \/ \E w \in Wires : wire' = [wire EXCEPT ![c] = w]
    <3>1. ASSUME NEW n \in 1 .. handler[c].left,
                 wire' = IF wire[c].state = "closed"
                         THEN [wire EXCEPT ![c].state = "reset"]
                         ELSE [wire EXCEPT ![c].down = @ + n]
          PROVE  \E w \in Wires : wire' = [wire EXCEPT ![c] = w]
      <4>1. CASE wire[c].state = "closed"
        <5>1. [wire[c] EXCEPT !.state = "reset"] \in Wires
          BY DEF Wires
        <5> QED BY <3>1, <4>1, <5>1
      <4>2. CASE wire[c].state # "closed"
        <5>1. [wire[c] EXCEPT !.down = @ + n] \in Wires
          BY DEF Wires, Handlers
        <5> QED BY <3>1, <4>2, <5>1
      <4> QED BY <4>1, <4>2
    <3> QED BY <1>7, <3>1 DEF HandlerSend
  <2>3. UNCHANGED <<program, pieces, serverVars, client, process, resets>>
    BY <1>7 DEF HandlerSend
  <2> QED BY <2>1, <2>2, <2>3, OneConnection, RestOfType DEF TypeOK, serverVars
<1>8. ASSUME NEW c \in Connections, ReadResult(c) PROVE TypeOK'
  BY <1>8, NoConnection, RestOfType DEF ReadResult, TakeResults, TypeOK
<1>9. ASSUME NEW c \in Connections, Connect(c) PROVE TypeOK'
  <2>1. NextTurn(c, 0) \in Clients
    BY DEF NextTurn, Clients
  <2>2. \E w \in Wires : wire' = [wire EXCEPT ![c] = w]
    BY <1>9 DEF Connect, Wires
  <2> QED BY <1>9, <2>1, <2>2, OneConnection, RestOfType DEF Connect, TypeOK, serverVars
<1>10. ASSUME NEW c \in Connections, ClientSend(c) PROVE TypeOK'
  <2>1. CASE Lost(c) /\ wire' = wire
    BY <1>10, <2>1, LostEnds, OneConnection, RestOfType DEF ClientSend, TypeOK
  <2>2. ASSUME NEW n \in 1 .. client[c].left,
               wire' = [wire EXCEPT ![c].up = @ + n],
               client' = [client EXCEPT ![c].at = IF n < client[c].left THEN @ ELSE "recv",
                                        ![c].left = @ - n],
               UNCHANGED <<failed, process>>
        PROVE  TypeOK'
    <3>1. \E k \in Clients : client' = [client EXCEPT ![c] = k]
      <4> DEFINE k == [client[c] EXCEPT !.at = IF n < client[c].left THEN @ ELSE "recv",
                                        !.left = @ - n]
      <4>1. /\ client[c].at \in {"send", "recv"} /\ client[c].i \in Nat
            /\ client[c].left \in Nat /\ client[c].left <= pieces.request
        BY <1>10 DEF ClientSend, Clients
      <4>2. k \in Clients
        <5>1. client[c].left - n \in 0 .. pieces.request
          BY <4>1
        <5> QED BY <4>1, <5>1 DEF Clients
      <4>3. client' = [client EXCEPT ![c] = k]
        BY <2>2 DEF Clients
      <4> HIDE DEF k
      <4> QED BY <4>2, <4>3
    <3>2. \E w \in Wires : wire' = [wire EXCEPT ![c] = w]
      <4> DEFINE w == [wire[c] EXCEPT !.up = @ + n]
      <4>1. n \in Nat /\ w \in Wires
        BY <2>2 DEF Wires, Clients
      <4>2. wire' = [wire EXCEPT ![c] = w]
        BY <2>2
      <4> HIDE DEF w
      <4> QED BY <4>1, <4>2
    <3> QED BY <1>10, <2>2, <3>1, <3>2, OneConnection, RestOfType DEF ClientSend, TypeOK
  <2> QED BY <1>10, <2>1, <2>2 DEF ClientSend
<1>11. ASSUME NEW c \in Connections, ClientRecv(c) PROVE TypeOK'
  <2>1. CASE Lost(c) /\ wire' = wire
    BY <1>11, <2>1, LostEnds, OneConnection, RestOfType DEF ClientRecv, TypeOK
  <2>2. CASE /\ wire' = [wire EXCEPT ![c].down = 0]
             /\ client' = [client EXCEPT ![c] = NextTurn(c, @.i + 1)]
             /\ UNCHANGED <<failed, process>>
    <3>1. NextTurn(c, client[c].i + 1) \in Clients
      BY DEF NextTurn, Clients
    <3>2. \E w \in Wires : wire' = [wire EXCEPT ![c] = w]
      BY <2>2 DEF Wires
    <3> QED BY <1>11, <2>2, <3>1, <3>2, OneConnection, RestOfType DEF ClientRecv, TypeOK
  <2> QED BY <1>11, <2>1, <2>2 DEF ClientRecv
<1>12. ASSUME NEW c \in Connections, ClientClose(c) PROVE TypeOK'
  <2>1. \E k \in Clients : client' = [client EXCEPT ![c] = k]
    BY <1>12 DEF ClientClose, Clients
  <2>2. \E w \in Wires : wire' = [wire EXCEPT ![c] = w]
    <3>1. \E e \in {"reset", "closed"} : wire' = [wire EXCEPT ![c].state = e]
      BY <1>12 DEF ClientClose, Wires, TypeOK
    <3> QED BY <3>1 DEF Wires
  <2> QED BY <1>12, <2>1, <2>2, OneConnection, RestOfType DEF ClientClose, TypeOK, serverVars
<1>13. ASSUME NEW c \in Connections, Refused(c) PROVE TypeOK'
  <2>1. UNCHANGED <<program, pieces, server, collected, handler, wire, resets>>
    BY <1>13 DEF Refused
  <2> QED BY <1>13, <2>1, RefusedEnds, OneConnection, RestOfType DEF TypeOK
<1>14. ASSUME NEW c \in Connections, Reset(c) PROVE TypeOK'
  <2>1. \E w \in Wires : wire' = [wire EXCEPT ![c] = w]
    BY <1>14 DEF Reset, Wires
  <2>2. resets' \in 0 .. MaxResets
    BY <1>14, CountFacts DEF Reset, TypeOK
  <2>3. UNCHANGED <<program, pieces, serverVars, handler, client, process>>
    BY <1>14 DEF Reset
  <2> QED BY <2>1, <2>2, <2>3, OneConnection, RestOfType DEF TypeOK, serverVars
<1> QED BY <1>1, <1>2, <1>3, <1>4, <1>5, <1>6, <1>7, <1>8, <1>9, <1>10, <1>11, <1>12,
           <1>13, <1>14, NextCases
-----------------------------------------------------------------------------
(* What happens on one connection leaves the others alone.                 *)
On(c) ==
  \/ Accept(c) \/ HandlerRecv(c) \/ HandlerSend(c)
  \/ Connect(c) \/ ClientSend(c) \/ ClientRecv(c) \/ ClientClose(c)
  \/ Refused(c) \/ Reset(c)

LEMMA Elsewhere ==
  ASSUME TypeOK, NEW c \in Connections, On(c), NEW d \in Connections, d # c
  PROVE  handler'[d] = handler[d] /\ client'[d] = client[d] /\ wire'[d] = wire[d]
<1> USE DEF TypeOK
<1> HIDE DEF Connections
<1>1. CASE Accept(c) \/ HandlerRecv(c) \/ HandlerSend(c) \/ Connect(c) \/ ClientClose(c)
           \/ Reset(c)
  BY <1>1 DEF Accept, HandlerRecv, HandlerSend, HandlerEnds, Connect, ClientClose, Reset
<1>2. CASE ClientSend(c) \/ ClientRecv(c)
  BY <1>2, LostFacts DEF ClientSend, ClientRecv
<1>3. CASE Refused(c)
  BY <1>3, RefusedFacts DEF Refused
<1> QED BY <1>1, <1>2, <1>3 DEF On

(* Every other step leaves all connections alone.                          *)
LEMMA Nowhere ==
  ASSUME TypeOK, [Next]_vars
  PROVE  \/ UNCHANGED <<handler, client, wire>>
         \/ \E c \in Connections : On(c)
BY NextCases DEF On, vars, serverVars, Listen, JoinHandlers, MainReturns, ReadResult, TakeResults

LEMMA Untouched ==
  ASSUME NEW d, handler'[d] = handler[d], client'[d] = client[d], wire'[d] = wire[d]
  PROVE  /\ EndsInv(d) => EndsInv(d)'
         /\ TurnInv(d) => TurnInv(d)'
BY DEF EndsInv, TurnInv, Count, per_task, rem

(* The steps that change a connection, field by field.                     *)
LEMMA AcceptStep ==
  ASSUME TypeOK, NEW c \in Connections, Accept(c)
  PROVE  /\ wire[c].state # "none" /\ handler[c].at = "none"
         /\ handler'[c].at = "recv"
         /\ handler'[c].i = handler[c].i /\ handler'[c].left = handler[c].left
         /\ UNCHANGED <<client, wire>>
BY ConnectionType DEF Accept, TypeOK, Handlers

LEMMA HandlerEndsStep ==
  ASSUME TypeOK, NEW c \in Connections, NEW e, HandlerEnds(c, e)
  PROVE  /\ handler'[c].at = e
         /\ handler'[c].i = handler[c].i /\ handler'[c].left = handler[c].left
BY ConnectionType DEF HandlerEnds, TypeOK, Handlers

LEMMA HandlerRecvStep ==
  ASSUME TypeOK, NEW c \in Connections, HandlerRecv(c)
  PROVE  /\ handler[c].at = "recv" /\ client' = client
         /\ handler'[c].i = handler[c].i
         /\ \/ /\ wire[c].up > 0
               /\ handler'[c].at = "send" /\ handler'[c].left = pieces.answer
               /\ wire'[c].state = wire[c].state
               /\ wire'[c].up = 0 /\ wire'[c].down = wire[c].down
            \/ /\ wire[c].up = 0 /\ wire[c].state = "closed"
               /\ handler'[c].at = "eof" /\ wire' = wire
            \/ /\ wire[c].up = 0 /\ wire[c].state = "reset"
               /\ handler'[c].at = "error" /\ wire' = wire
<1>1. handler[c].at = "recv" /\ client' = client
  BY DEF HandlerRecv
<1>2. CASE wire[c].up > 0
  <2>1. /\ handler' = [handler EXCEPT ![c].at = "send", ![c].left = pieces.answer]
        /\ wire' = [wire EXCEPT ![c].up = 0]
    BY <1>2, ConnectionType DEF HandlerRecv, Wires
  <2> QED BY <1>1, <1>2, <2>1, ConnectionType DEF TypeOK, Handlers, Wires
<1>3. CASE ~ (wire[c].up > 0)
  <2>1. \/ /\ wire[c].up = 0 /\ wire[c].state = "closed"
           /\ HandlerEnds(c, "eof") /\ wire' = wire
        \/ /\ wire[c].up = 0 /\ wire[c].state = "reset"
           /\ HandlerEnds(c, "error") /\ wire' = wire
    BY <1>3 DEF HandlerRecv
  <2>2. CASE HandlerEnds(c, "eof")
    BY <1>1, <2>1, <2>2, HandlerEndsStep
  <2>3. CASE HandlerEnds(c, "error")
    BY <1>1, <2>1, <2>3, HandlerEndsStep
  <2> QED BY <2>1, <2>2, <2>3
<1> QED BY <1>2, <1>3

LEMMA HandlerSendStep ==
  ASSUME TypeOK, NEW c \in Connections, HandlerSend(c)
  PROVE  /\ handler[c].at = "send" /\ client' = client
         /\ \/ \E n \in 1 .. handler[c].left :
                 /\ wire[c].state # "reset"
                 /\ wire'[c].up = wire[c].up
                 /\ IF wire[c].state = "closed"
                    THEN wire'[c].state = "reset" /\ wire'[c].down = wire[c].down
                    ELSE wire'[c].state = wire[c].state /\ wire'[c].down = wire[c].down + n
                 /\ IF n < handler[c].left
                    THEN /\ handler'[c].at = "send" /\ handler'[c].i = handler[c].i
                         /\ handler'[c].left = handler[c].left - n
                    ELSE handler'[c].at = "recv" /\ handler'[c].i = handler[c].i + 1
            \/ /\ wire[c].state = "reset"
               /\ handler'[c].at = "error" /\ handler'[c].i = handler[c].i
               /\ wire' = wire
<1>0. handler[c].at = "send" /\ client' = client
  BY DEF HandlerSend
<1>1. CASE wire[c].state = "reset"
  BY <1>0, <1>1, HandlerEndsStep DEF HandlerSend
<1>2. CASE wire[c].state # "reset"
  <2>1. PICK n \in 1 .. handler[c].left :
          /\ wire' = IF wire[c].state = "closed"
                     THEN [wire EXCEPT ![c].state = "reset"]
                     ELSE [wire EXCEPT ![c].down = @ + n]
          /\ handler' = IF n < handler[c].left
                        THEN [handler EXCEPT ![c].left = @ - n]
                        ELSE [handler EXCEPT ![c] =
                                [at |-> "recv", i |-> @.i + 1, left |-> 0]]
    BY <1>2 DEF HandlerSend
  <2>2. /\ wire'[c].up = wire[c].up
        /\ IF wire[c].state = "closed"
           THEN wire'[c].state = "reset" /\ wire'[c].down = wire[c].down
           ELSE wire'[c].state = wire[c].state /\ wire'[c].down = wire[c].down + n
    BY <2>1, ConnectionType DEF TypeOK, Wires
  <2>3. IF n < handler[c].left
        THEN /\ handler'[c].at = handler[c].at /\ handler'[c].i = handler[c].i
             /\ handler'[c].left = handler[c].left - n
        ELSE handler'[c].at = "recv" /\ handler'[c].i = handler[c].i + 1
    BY <2>1, ConnectionType DEF TypeOK, Handlers
  <2> QED BY <1>0, <1>2, <2>2, <2>3
<1> QED BY <1>1, <1>2

(* A client that cannot go on.                                             *)
LEMMA LostStep ==
  ASSUME TypeOK, NEW c \in Connections, Lost(c) \/ Refused(c)
  PROVE  /\ client'[c].at \in {"fatal", "thrown", "forgotten"}
         /\ client'[c].i = client[c].i /\ client'[c].left = client[c].left
<1>1. PICK l \in {"fatal", "thrown", "forgotten"} : client' = [client EXCEPT ![c].at = l]
  BY LostFacts, RefusedFacts
<1> QED BY <1>1, ConnectionType DEF TypeOK, Clients

LEMMA ConnectStep ==
  ASSUME TypeOK, NEW c \in Connections, Connect(c)
  PROVE  /\ client[c].at = "new" /\ handler' = handler
         /\ wire'[c].state = "open"
         /\ wire'[c].up = wire[c].up /\ wire'[c].down = wire[c].down
         /\ client'[c] = NextTurn(c, 0)
BY ConnectionType DEF Connect, TypeOK, Wires

LEMMA ClientSendStep ==
  ASSUME TypeOK, NEW c \in Connections, ClientSend(c)
  PROVE  /\ client[c].at = "send" /\ handler' = handler
         /\ client'[c].i = client[c].i
         /\ \/ \E n \in 1 .. client[c].left :
                 /\ wire[c].state = "open" /\ wire'[c].state = "open"
                 /\ wire'[c].up = wire[c].up + n /\ wire'[c].down = wire[c].down
                 /\ client'[c].at = IF n < client[c].left THEN "send" ELSE "recv"
                 /\ client'[c].left = client[c].left - n
            \/ /\ wire[c].state = "reset" /\ wire' = wire
               /\ client'[c].at \in {"fatal", "thrown", "forgotten"}
<1>0. client[c].at = "send" /\ handler' = handler
  BY DEF ClientSend
<1>1. CASE Lost(c) /\ wire[c].state = "reset" /\ wire' = wire
  BY <1>0, <1>1, LostStep
<1>2. ASSUME NEW n \in 1 .. client[c].left, wire[c].state = "open",
             wire' = [wire EXCEPT ![c].up = @ + n],
             client' = [client EXCEPT ![c].at = IF n < client[c].left THEN @ ELSE "recv",
                                      ![c].left = @ - n]
      PROVE  /\ wire'[c].state = "open"
             /\ wire'[c].up = wire[c].up + n /\ wire'[c].down = wire[c].down
             /\ client'[c].at = IF n < client[c].left THEN "send" ELSE "recv"
             /\ client'[c].left = client[c].left - n
             /\ client'[c].i = client[c].i
  BY <1>0, <1>2, ConnectionType DEF TypeOK, Clients, Wires
<1> QED BY <1>0, <1>1, <1>2 DEF ClientSend

LEMMA ClientRecvStep ==
  ASSUME TypeOK, NEW c \in Connections, ClientRecv(c)
  PROVE  /\ client[c].at = "recv" /\ handler' = handler
         /\ \/ /\ wire[c].down > 0
               /\ wire'[c].state = wire[c].state
               /\ wire'[c].up = wire[c].up /\ wire'[c].down = 0
               /\ client'[c] = NextTurn(c, client[c].i + 1)
            \/ /\ wire[c].state = "reset" /\ wire' = wire
               /\ client'[c].at \in {"fatal", "thrown", "forgotten"}
               /\ client'[c].i = client[c].i
<1>1. CASE Lost(c) /\ wire[c].state = "reset" /\ wire' = wire
  BY <1>1, LostStep DEF ClientRecv
<1>2. CASE /\ wire[c].down > 0
           /\ wire' = [wire EXCEPT ![c].down = 0]
           /\ client' = [client EXCEPT ![c] = NextTurn(c, @.i + 1)]
  BY <1>2, ConnectionType DEF ClientRecv, TypeOK, Wires
<1> QED BY <1>1, <1>2 DEF ClientRecv

LEMMA ClientCloseStep ==
  ASSUME TypeOK, NEW c \in Connections, ClientClose(c)
  PROVE  /\ client[c].at = "close" /\ handler' = handler
         /\ client'[c].at = "closed" /\ client'[c].i = client[c].i
         /\ wire'[c].state = IF wire[c].down > 0 \/ wire[c].state = "reset"
                             THEN "reset" ELSE "closed"
         /\ wire'[c].up = wire[c].up /\ wire'[c].down = wire[c].down
BY ConnectionType DEF ClientClose, TypeOK, Clients, Wires

LEMMA RefusedStep ==
  ASSUME TypeOK, NEW c \in Connections, Refused(c)
  PROVE  /\ client[c].at = "new" /\ UNCHANGED <<handler, wire>>
         /\ client'[c].at \in {"fatal", "thrown", "forgotten"}
         /\ client'[c].i = client[c].i
BY LostStep DEF Refused

LEMMA ResetStep ==
  ASSUME TypeOK, NEW c \in Connections, Reset(c)
  PROVE  /\ wire[c].state = "open" /\ UNCHANGED <<handler, client>>
         /\ wire'[c].state = "reset" /\ wire'[c].up = 0 /\ wire'[c].down = 0
BY DEF Reset, TypeOK
-----------------------------------------------------------------------------
(* What a client has received never exceeds its share.                     *)
LEMMA NextTurnFacts ==
  ASSUME TypeOK, NEW c \in Connections, NEW i \in Nat, i <= Count(c)
  PROVE  /\ NextTurn(c, i).i = i
         /\ NextTurn(c, i).at = IF i < Count(c) THEN "send" ELSE "close"
         /\ NextTurn(c, i).at = "send" => NextTurn(c, i).left = pieces.request
         /\ i >= Count(c) => i = Count(c)
BY CountFacts DEF NextTurn

LEMMA CountSame == UNCHANGED <<program, pieces>> => \A c : Count(c)' = Count(c)
BY DEF Count, per_task, rem

LEMMA EndsStep ==
  ASSUME TypeOK, NEW c \in Connections, On(c), EndsInv(c)
  PROVE  EndsInv(c)'
<1> USE ConnectionType DEF Handlers, Clients, Wires
<1>0. Count(c)' = Count(c) /\ Count(c) \in Nat
  BY CountFacts DEF Count, per_task, rem
<1>1. CASE Accept(c)
  BY <1>0, <1>1, AcceptStep DEF EndsInv
<1>2. CASE HandlerRecv(c)
  BY <1>0, <1>2, HandlerRecvStep DEF EndsInv
<1>3. CASE HandlerSend(c)
  BY <1>0, <1>3, HandlerSendStep DEF EndsInv
<1>4. CASE Connect(c)
  BY <1>0, <1>4, ConnectStep, NextTurnFacts DEF EndsInv
<1>5. CASE ClientSend(c)
  BY <1>0, <1>5, ClientSendStep DEF EndsInv
<1>6. CASE ClientRecv(c)
  BY <1>0, <1>6, ClientRecvStep, NextTurnFacts DEF EndsInv
<1>7. CASE ClientClose(c)
  BY <1>0, <1>7, ClientCloseStep DEF EndsInv
<1>8. CASE Refused(c)
  BY <1>0, <1>8, RefusedStep DEF EndsInv
<1>9. CASE Reset(c)
  BY <1>0, <1>9, ResetStep DEF EndsInv
<1> QED BY <1>1, <1>2, <1>3, <1>4, <1>5, <1>6, <1>7, <1>8, <1>9 DEF On

LEMMA TurnStep ==
  ASSUME TypeOK, NEW c \in Connections, On(c), EndsInv(c), whole, TurnInv(c)
  PROVE  TurnInv(c)'
<1> USE ConnectionType DEF Handlers, Clients, Wires
<1>0. pieces.request = 1 /\ pieces.answer = 1 /\ Count(c) \in Nat
  BY CountFacts DEF whole
<1>1. CASE Accept(c)
  BY <1>0, <1>1, AcceptStep DEF TurnInv
<1>2. CASE HandlerRecv(c)
  BY <1>0, <1>2, HandlerRecvStep DEF TurnInv, EndsInv
<1>3. CASE HandlerSend(c)
  BY <1>0, <1>3, HandlerSendStep DEF TurnInv, EndsInv
<1>4. CASE Connect(c)
  BY <1>0, <1>4, ConnectStep, NextTurnFacts DEF TurnInv, EndsInv
<1>5. CASE ClientSend(c)
  <2>1. CASE wire[c].state = "reset"
    BY <1>0, <1>5, <2>1, ClientSendStep DEF TurnInv, EndsInv
  <2>2. CASE wire[c].state # "reset"
    <3>1. /\ wire[c].up = 0 /\ wire[c].down = 0 /\ handler[c].at # "send"
          /\ client[c].left = 1 /\ handler[c].i = client[c].i
      BY <1>5, <2>2, ClientSendStep DEF TurnInv
    <3>2. /\ wire'[c].state = "open" /\ wire'[c].up = 1 /\ wire'[c].down = 0
          /\ client'[c].at = "recv" /\ client'[c].i = client[c].i /\ handler' = handler
      BY <1>5, <2>2, <3>1, ClientSendStep
    <3> QED BY <3>1, <3>2 DEF TurnInv
  <2> QED BY <2>1, <2>2
<1>6. CASE ClientRecv(c)
  BY <1>0, <1>6, ClientRecvStep, NextTurnFacts DEF TurnInv, EndsInv
<1>7. CASE ClientClose(c)
  BY <1>0, <1>7, ClientCloseStep DEF TurnInv, EndsInv
<1>8. CASE Refused(c)
  BY <1>0, <1>8, RefusedStep DEF TurnInv, EndsInv
<1>9. CASE Reset(c)
  BY <1>0, <1>9, ResetStep DEF TurnInv, EndsInv
<1> QED BY <1>1, <1>2, <1>3, <1>4, <1>5, <1>6, <1>7, <1>8, <1>9 DEF On
-----------------------------------------------------------------------------
LEMMA StepServer ==
  ASSUME TypeOK, ServerInv, [Next]_vars
  PROVE  ServerInv'
<1>0. \/ server = "starting" \/ server = "accepting" \/ server = "counting"
      \/ server = "counted" \/ server = "thrown"
  BY DEF TypeOK
<1>1. CASE UNCHANGED vars
  BY <1>1 DEF ServerInv, vars, serverVars, Over, GoodEnd
<1>2. CASE Listen
  BY <1>2 DEF ServerInv, Listen, Over, GoodEnd
<1>3. CASE MainReturns
  BY <1>3 DEF ServerInv, MainReturns, serverVars, Over, GoodEnd
<1>4. ASSUME server = "counting",
             NEW cs \in SUBSET Connections, \A c \in cs : Over(c), TakeResults(cs)
      PROVE  ServerInv'
  <2> DEFINE bad == \E c \in cs : ~ GoodEnd(c)
             all == AllResults(collected \cup cs)
  <2>1. /\ collected' = collected \cup cs /\ handler' = handler
        /\ failed' = (failed \/ (bad /\ how.error # "thrown") \/ (all /\ total # REQUEST_COUNT))
        /\ process' = IF bad /\ how.error = "fatal" THEN "terminated" ELSE process
        /\ server' = IF bad /\ how.error = "thrown" THEN "thrown"
                     ELSE IF all THEN "counted" ELSE server
    BY <1>4 DEF TakeResults
  <2>2. \A c \in collected \cup cs : GoodEnd(c) \/ failed' \/ server' = "thrown"
    <3>1. \A c \in collected : GoodEnd(c) \/ failed
      BY <1>4 DEF ServerInv
    <3>2. bad => failed' \/ server' = "thrown"
      <4> HIDE DEF bad, all
      <4>1. ASSUME bad, how.error = "thrown" PROVE server' = "thrown"
        BY <2>1, <4>1
      <4>2. bad /\ how.error # "thrown" => failed'
        BY <2>1, Zenon
      <4> QED BY <4>1, <4>2
    <3> QED BY <2>1, <3>1, <3>2
  <2>3. \A c \in collected \cup cs : Over(c)
    BY <1>4 DEF ServerInv
  <2>4. server' = "counted" => collected' = Connections
    <3> HIDE DEF bad
    <3> QED BY <1>4, <2>1 DEF AllResults
  <2>5. process' # "done"
    BY <1>4, <2>1 DEF ServerInv
  <2>6. \A c \in Connections : (Over(c)' <=> Over(c)) /\ (GoodEnd(c)' <=> GoodEnd(c))
    BY <2>1 DEF Over, GoodEnd
  <2> HIDE DEF bad, all
  <2>7. collected' \subseteq Connections
    BY <2>1 DEF TypeOK
  <2> QED BY <2>1, <2>2, <2>3, <2>4, <2>5, <2>6, <2>7 DEF ServerInv
<1>5. CASE JoinHandlers
  BY <1>4, <1>5 DEF JoinHandlers
<1>6. ASSUME NEW c \in Connections, ReadResult(c) PROVE ServerInv'
  BY <1>4, <1>6 DEF ReadResult
<1>7. ASSUME NEW c \in Connections, On(c) PROVE ServerInv'
  <2>1. /\ collected' = collected /\ (failed => failed')
        /\ server' = server \/ (server = "accepting" /\ server' = "counting")
        /\ process' = process \/ process' = "terminated"
    <3>1. CASE Accept(c)
      BY <3>1 DEF Accept
    <3>2. CASE HandlerRecv(c) \/ HandlerSend(c) \/ Connect(c) \/ ClientClose(c) \/ Reset(c)
      BY <3>2 DEF HandlerRecv, HandlerSend, Connect, ClientClose, Reset, serverVars
    <3>3. CASE ClientSend(c) \/ ClientRecv(c)
      <4>1. collected' = collected /\ server' = server
        BY <3>3 DEF ClientSend, ClientRecv
      <4>2. CASE Lost(c)
        BY <4>1, <4>2, LostFacts
      <4>3. CASE UNCHANGED <<failed, process>>
        BY <4>1, <4>3
      <4> QED BY <3>3, <4>2, <4>3 DEF ClientSend, ClientRecv
    <3>4. CASE Refused(c)
      BY <3>4, RefusedFacts DEF Refused
    <3> QED BY <1>7, <3>1, <3>2, <3>3, <3>4 DEF On
  <2>2. \A d \in Connections : Over(d) => handler'[d] = handler[d]
    <3>1. Over(c) => handler'[c] = handler[c]
      BY <1>7, AcceptStep, HandlerRecvStep, HandlerSendStep, ConnectStep, ClientSendStep,
         ClientRecvStep, ClientCloseStep, RefusedStep, ResetStep DEF On, Over
    <3> QED BY <1>7, <3>1, Elsewhere
  <2>3. collected \subseteq Connections
    BY DEF TypeOK
  <2> QED BY <2>1, <2>2, <2>3 DEF ServerInv, Over, GoodEnd
<1> QED BY <1>1, <1>2, <1>3, <1>5, <1>6, <1>7, NextCases DEF On
-----------------------------------------------------------------------------
(* The requests are shared among the clients as the elements of a channel  *)
(* benchmark are among its producers: the shares are disjoint slices.      *)
Share == INSTANCE ChannelBenchProofs WITH
  ElementCount <- REQUEST_COUNT, ProducerCount <- CONNECTION_COUNT,
  ConsumerCount <- 1, SizeMax <- REQUEST_COUNT

LEMMA ShareFacts ==
  /\ Share!CountsAssumption
  /\ Share!Producers = Connections /\ Share!Elements = 0 .. REQUEST_COUNT-1
  /\ \A c \in Connections :
       IsFiniteSet(Share!Slice(c)) /\ Cardinality(Share!Slice(c)) = Count(c)
  /\ UNION {Share!Slice(c) : c \in Connections} = 0 .. REQUEST_COUNT-1
<1>1. Share!CountsAssumption
  BY CountFacts DEF Share!CountsAssumption
<1>2. Share!Producers = Connections /\ Share!Elements = 0 .. REQUEST_COUNT-1
  BY DEF Share!Producers, Share!Elements
<1>3. ASSUME NEW c \in Connections
      PROVE  IsFiniteSet(Share!Slice(c)) /\ Cardinality(Share!Slice(c)) = Count(c)
  <2>1. Count(c) = Share!TaskCount(c) /\ Count(c) \in Nat
    BY CountFacts DEF Count, per_task, rem, Share!TaskCount, Share!PerTask, Share!Rem
  <2>2. Share!First(c) \in Nat
    BY <1>1, CountFacts, Share!FirstType
  <2> DEFINE first == Share!First(c)
  <2>3. Share!Slice(c) = first .. first + Count(c) - 1
    BY <2>1 DEF Share!Slice
  <2> HIDE DEF first
  <2>4. first \in Int /\ first + Count(c) - 1 \in Int
    BY <2>1, <2>2 DEF first
  <2>5. /\ IsFiniteSet(first .. first + Count(c) - 1)
        /\ Cardinality(first .. first + Count(c) - 1) =
             IF first > first + Count(c) - 1 THEN 0
             ELSE (first + Count(c) - 1) - first + 1
    BY <2>4, FS_Interval
  <2> QED BY <2>1, <2>3, <2>4, <2>5
<1>4. UNION {Share!Slice(c) : c \in Connections} = 0 .. REQUEST_COUNT-1
  BY <1>1, <1>2, Share!SlicesWithin, Share!SlicesCover
<1> QED BY <1>1, <1>2, <1>3, <1>4

(* SumFunction is the value that its recursion gives the whole domain.     *)
Unfold(f, S, h) ==
  [s \in SUBSET S |-> IF s = {} THEN 0
     ELSE f[CHOOSE x \in s : TRUE] + h[s \ {CHOOSE x \in s : TRUE}]]

LEMMA SumUnfolds ==
  ASSUME NEW S, NEW f \in [S -> Int], NEW g, g = Unfold(f, S, g)
  PROVE  \E h : h = Unfold(f, S, h) /\ SumFunction(f) = h[S]
<1>1. \E h : h = Unfold(f, S, h) /\ SumFunctionOnSet(f, S) = h[S]
  BY DEF Unfold, SumFunctionOnSet, FoldFunctionOnSet, MapThenFoldSet
<1>2. DOMAIN f = S
  OBVIOUS
<1>3. SumFunction(f) = SumFunctionOnSet(f, S)
  BY <1>2 DEF SumFunction
<1> QED BY <1>1, <1>3

(* The shares of all clients add up to REQUEST_COUNT.                      *)
LEMMA SumOfShares == SumFunction([c \in Connections |-> Count(c)]) = REQUEST_COUNT
<1> DEFINE f       == [c \in Connections |-> Count(c)]
           All(s)  == UNION {Share!Slice(c) : c \in s}
           Pick(s) == CHOOSE c \in s : TRUE
           g       == [s \in SUBSET Connections |-> Cardinality(All(s))]
<1>1. IsFiniteSet(Connections) /\ IsFiniteSet(0 .. REQUEST_COUNT-1)
      /\ Cardinality(0 .. REQUEST_COUNT-1) = REQUEST_COUNT
  BY CountFacts, FS_Interval
<1> HIDE DEF Connections
<1>2. g[{}] = 0
  <2>1. All({}) = {}
    OBVIOUS
  <2> HIDE DEF All
  <2> QED BY <2>1, FS_EmptySet
<1>3. ASSUME NEW s \in SUBSET Connections
      PROVE  All(s) \subseteq 0 .. REQUEST_COUNT-1 /\ IsFiniteSet(All(s))
             /\ Cardinality(All(s)) \in Nat
  <2>1. All(s) \subseteq 0 .. REQUEST_COUNT-1
    BY ShareFacts
  <2> HIDE DEF All
  <2> QED BY <1>1, <2>1, FS_Subset, FS_CardinalityType
<1>4. ASSUME NEW s \in SUBSET Connections, s # {}
      PROVE  Pick(s) \in s /\ g[s] = f[Pick(s)] + g[s \ {Pick(s)}]
  <2> DEFINE x == Pick(s)
             r == s \ {x}
  <2>1. x \in s
    BY <1>4
  <2> HIDE DEF x
  <2>2. All(s) = Share!Slice(x) \cup All(r) /\ Share!Slice(x) \cap All(r) = {}
    <3>1. All(s) = Share!Slice(x) \cup All(r)
      BY <2>1
    <3>2. \A y \in r : Share!Slice(x) \cap Share!Slice(y) = {}
      BY <2>1, ShareFacts, Share!SlicesDisjoint
    <3> QED BY <3>1, <3>2
  <2>3. r \in SUBSET Connections /\ x \in Connections
    BY <2>1
  <2>4. IsFiniteSet(Share!Slice(x)) /\ f[x] = Cardinality(Share!Slice(x))
    BY <2>3, ShareFacts
  <2>5. IsFiniteSet(All(r)) /\ Cardinality(All(r)) \in Nat
    BY <1>3, <2>3
  <2>6. Cardinality(Share!Slice(x) \cup All(r))
          = Cardinality(Share!Slice(x)) + Cardinality(All(r))
              - Cardinality(Share!Slice(x) \cap All(r))
    <3> HIDE DEF All, r, f
    <3> QED BY <2>4, <2>5, FS_Union
  <2>7. Cardinality(Share!Slice(x) \cap All(r)) = 0 /\ Cardinality(Share!Slice(x)) \in Nat
    <3> HIDE DEF All, r, f
    <3> QED BY <2>2, <2>4, FS_EmptySet, FS_CardinalityType
  <2>8. Cardinality(All(s)) = f[x] + Cardinality(All(r))
    <3> HIDE DEF All, r, f
    <3> QED BY <2>2, <2>4, <2>5, <2>6, <2>7
  <2>9. g[s] = Cardinality(All(s)) /\ g[r] = Cardinality(All(r))
    <3> HIDE DEF All
    <3> QED BY <2>3
  <2> QED BY <2>1, <2>8, <2>9 DEF x
<1>5. g = Unfold(f, Connections, g)
  <2>1. \A s \in SUBSET Connections : g[s] = Unfold(f, Connections, g)[s]
    <3> HIDE DEF g, f
    <3> QED BY <1>2, <1>4 DEF Unfold
  <2> HIDE DEF All, f
  <2> QED BY <2>1 DEF Unfold
<1>6. f \in [Connections -> Int]
  BY CountFacts DEF Connections
<1>7. All(Connections) = 0 .. REQUEST_COUNT-1
  BY ShareFacts
<1>8. g[Connections] = REQUEST_COUNT
  <2> HIDE DEF All
  <2> QED BY <1>1, <1>7
<1> HIDE DEF g, f
<1>9. PICK h : h = Unfold(f, Connections, h) /\ SumFunction(f) = h[Connections]
  BY <1>5, <1>6, SumUnfolds
<1>10. \A s \in SUBSET Connections : h[s] = g[s]
  <2> DEFINE Bad == {s \in SUBSET Connections : h[s] # g[s]}
  <2>1. SUFFICES ASSUME Bad # {} PROVE FALSE
    OBVIOUS
  <2>2. Bad \subseteq FiniteSubsetsOf(Connections)
    BY <1>1, FS_Subset DEF FiniteSubsetsOf
  <2>3. PICK s \in Bad : \A r \in Bad : r \subseteq s => r = s
    <3>1. IsWellFoundedOn(StrictSubsetOrdering(Connections), FiniteSubsetsOf(Connections))
      BY FS_StrictSubsetOrderingWellFounded
    <3>2. PICK s \in Bad : \A r \in Bad : ~ (<<r, s>> \in StrictSubsetOrdering(Connections))
      <4> HIDE DEF Bad
      <4> QED BY <2>1, <2>2, <3>1, WFMin
    <3> QED BY <3>2 DEF StrictSubsetOrdering
  <2>4. s # {}
    BY <1>2, <1>9 DEF Unfold
  <2>5. Pick(s) \in s /\ g[s] = f[Pick(s)] + g[s \ {Pick(s)}]
    BY <1>4, <2>4
  <2>6. h[s \ {Pick(s)}] = g[s \ {Pick(s)}]
    <3>1. s \ {Pick(s)} \subseteq s /\ s \ {Pick(s)} # s
          /\ s \ {Pick(s)} \in SUBSET Connections
      BY <2>5
    <3>2. s \ {Pick(s)} \notin Bad
      <4> HIDE DEF Bad
      <4> QED BY <2>3, <3>1
    <3> QED BY <3>1, <3>2
  <2>7. h[s] = f[Pick(s)] + h[s \ {Pick(s)}]
    BY <1>9, <2>4 DEF Unfold
  <2> QED BY <2>5, <2>6, <2>7
<1> QED BY <1>8, <1>9, <1>10 DEF f
-----------------------------------------------------------------------------
LEMMA InitInv == Init => IInv
<1> SUFFICES ASSUME Init PROVE IInv
  OBVIOUS
<1>1. \A c \in Connections :
        handler[c] = NewHandler /\ client[c] = NewClient /\ wire[c] = NoWire
  BY DEF Init
<1>2. \A c \in Connections : EndsInv(c) /\ TurnInv(c)
  BY <1>1 DEF EndsInv, TurnInv, NewHandler, NewClient, NoWire
<1>3. ServerInv
  BY DEF Init, ServerInv
<1>4. ~ failed
  BY DEF Init
<1> QED BY <1>2, <1>3, <1>4, InitType DEF IInv

(* Trouble stays.                                                          *)
LEMMA TroubleStays ==
  ASSUME TypeOK, [Next]_vars, NEW d \in Connections, EndsInv(d), Troubled(d)
  PROVE  Troubled(d)'
<1>1. CASE UNCHANGED <<handler, client, wire>>
  BY <1>1 DEF Troubled
<1>2. ASSUME NEW c \in Connections, On(c) PROVE Troubled(d)'
  <2>1. CASE d # c
    BY <1>2, <2>1, Elsewhere DEF Troubled
  <2>2. CASE d = c
    <3> USE <2>2
    <3>1. \/ wire[c].state = "reset"
          \/ wire[c].state = "none" /\ client[c].at \in {"fatal", "thrown", "forgotten"}
      BY DEF Troubled, EndsInv
    <3>2. CASE Accept(c) \/ HandlerRecv(c)
      BY <3>1, <3>2, AcceptStep, HandlerRecvStep DEF EndsInv, Troubled
    <3>3. CASE HandlerSend(c)
      BY <3>1, <3>3, HandlerSendStep DEF EndsInv, Troubled
    <3>4. CASE Connect(c)
      BY <3>1, <3>4, ConnectStep DEF EndsInv
    <3>5. CASE ClientSend(c)
      BY <3>1, <3>5, ClientSendStep DEF Troubled
    <3>6. CASE ClientRecv(c)
      BY <3>1, <3>6, ClientRecvStep DEF Troubled
    <3>7. CASE ClientClose(c)
      BY <3>1, <3>7, ClientCloseStep DEF Troubled
    <3>8. CASE Refused(c)
      BY <3>8, RefusedStep DEF EndsInv, Troubled
    <3>9. CASE Reset(c)
      BY <3>9, ResetStep DEF Troubled
    <3> QED BY <1>2, <3>2, <3>3, <3>4, <3>5, <3>6, <3>7, <3>8, <3>9 DEF On
  <2> QED BY <2>1, <2>2
<1> QED BY <1>1, <1>2, Nowhere

(* A handler that read the end of the connection knows that its client has *)
(* had its answers and, when messages arrive whole, that it counted them.  *)
LEMMA GoodEndFacts ==
  ASSUME IInv, NEW c \in Connections, GoodEnd(c)
  PROVE  client[c].i = Count(c) /\ (whole => handler[c].i = Count(c))
<1>1. EndsInv(c) /\ (whole => TurnInv(c))
  BY DEF IInv
<1>2. /\ wire[c].state = "closed" /\ client[c].at = "closed"
      /\ client[c].i = Count(c) /\ handler[c].at = "eof"
  BY <1>1 DEF EndsInv, GoodEnd
<1>3. ASSUME whole PROVE handler[c].i = Count(c)
  <2>1. wire[c].up + wire[c].down = 0 /\ handler[c].i = client[c].i + wire[c].down
    BY <1>1, <1>2, <1>3, ConnectionType DEF TurnInv, IInv, Wires
  <2>2. wire[c].up \in Nat /\ wire[c].down \in Nat /\ client[c].i \in Nat
    BY ConnectionType DEF IInv, Wires, Clients
  <2> QED BY <1>2, <2>1, <2>2
<1> QED BY <1>2, <1>3

(* The server finds fault with the results only when a handler had an      *)
(* error: otherwise all ended well, and their counts are the shares.       *)
LEMMA ResultsFault ==
  ASSUME IInv, whole, ~ failed, server = "counting",
         NEW cs \in SUBSET Connections, \A c \in cs : Over(c), TakeResults(cs), failed'
  PROVE  \E c \in Connections : Troubled(c)
<1>1. CASE \E c \in cs : ~ GoodEnd(c)
  <2>1. PICK c \in cs : handler[c].at = "error"
    BY <1>1 DEF Over, GoodEnd
  <2>2. EndsInv(c)
    BY DEF IInv
  <2> QED BY <2>1, <2>2 DEF EndsInv, Troubled
<1>2. CASE \A c \in cs : GoodEnd(c)
  <2>1. AllResults(collected \cup cs) /\ total # REQUEST_COUNT
    BY <1>2 DEF TakeResults
  <2>2. \A c \in collected : GoodEnd(c)
    BY DEF IInv, ServerInv
  <2>3. \A c \in Connections : handler[c].i = Count(c)
    BY <1>2, <2>1, <2>2, GoodEndFacts DEF AllResults
  <2>4. [c \in Connections |-> handler[c].i] = [c \in Connections |-> Count(c)]
    <3> HIDE DEF Connections
    <3> QED BY <2>3
  <2> QED BY <2>1, <2>4, SumOfShares DEF total
<1> QED BY <1>1, <1>2

LEMMA FaultStep ==
  ASSUME IInv, [Next]_vars, whole, ~ failed, failed'
  PROVE  \E c \in Connections : Troubled(c) \/ Troubled(c)'
<1>0. TypeOK
  BY DEF IInv
<1>1. CASE JoinHandlers
  BY <1>1, ResultsFault DEF JoinHandlers
<1>2. ASSUME NEW c \in Connections, ReadResult(c)
      PROVE  \E d \in Connections : Troubled(d)
  BY <1>2, ResultsFault DEF ReadResult
<1>3. ASSUME NEW c \in Connections, Refused(c) PROVE Troubled(c)'
  <2>1. EndsInv(c)
    BY DEF IInv
  <2> QED BY <1>0, <1>3, <2>1, RefusedStep DEF EndsInv, Troubled
<1>4. ASSUME NEW c \in Connections, ClientSend(c) \/ ClientRecv(c) PROVE Troubled(c)
  BY <1>4 DEF ClientSend, ClientRecv, Troubled
<1>5. CASE \/ UNCHANGED vars \/ Listen \/ MainReturns
           \/ \E c \in Connections :
                 \/ Accept(c) \/ HandlerRecv(c) \/ HandlerSend(c) \/ Connect(c)
                 \/ ClientClose(c) \/ Reset(c)
  BY <1>5 DEF vars, serverVars, Listen, MainReturns, Accept, HandlerRecv, HandlerSend,
     Connect, ClientClose, Reset
<1> QED BY <1>1, <1>2, <1>3, <1>4, <1>5, NextCases

LEMMA StepInv == IInv /\ [Next]_vars => IInv'
<1> SUFFICES ASSUME IInv, [Next]_vars PROVE IInv'
  OBVIOUS
<1>1. TypeOK /\ ServerInv /\ \A c \in Connections : EndsInv(c)
  BY DEF IInv
<1>2. TypeOK' /\ ServerInv'
  BY <1>1, StepType, StepServer
<1>3. pieces' = pieces
  BY NextCases DEF vars, serverVars, Listen, JoinHandlers, MainReturns, TakeResults, ReadResult,
     Accept, HandlerRecv, HandlerSend, Connect, ClientSend, ClientRecv, ClientClose,
     Refused, Reset
<1>4. ASSUME NEW d \in Connections
      PROVE  EndsInv(d)' /\ (whole /\ TurnInv(d) => TurnInv(d)')
  <2>1. CASE UNCHANGED <<handler, client, wire>>
    BY <1>1, <2>1, Untouched
  <2>2. ASSUME NEW c \in Connections, On(c)
        PROVE  EndsInv(d)' /\ (whole /\ TurnInv(d) => TurnInv(d)')
    <3>1. CASE d = c
      BY <1>1, <2>2, <3>1, EndsStep, TurnStep
    <3>2. CASE d # c
      BY <1>1, <2>2, <3>2, Elsewhere, Untouched
    <3> QED BY <3>1, <3>2
  <2> QED BY <1>1, <2>1, <2>2, Nowhere
<1>5. whole' = whole
  BY <1>3 DEF whole
<1>6. ASSUME whole, failed' PROVE \E c \in Connections : Troubled(c)'
  <2>1. \E c \in Connections : Troubled(c) \/ Troubled(c)'
    BY <1>6, FaultStep DEF IInv
  <2> QED BY <1>1, <2>1, TroubleStays
<1> QED BY <1>2, <1>4, <1>5, <1>6 DEF IInv

(* The inductive invariant holds in every reachable state.                 *)
THEOREM Invariance == Spec => []IInv
<1> QED BY InitInv, StepInv, PTL DEF Spec

(* Every variable keeps its type.                                          *)
THEOREM TypeCorrect == Spec => []TypeOK
<1>1. IInv => TypeOK
  BY DEF IInv
<1> QED BY <1>1, Invariance, PTL

(* The server counts when it has the results of all handlers, and each of  *)
(* them is over; no handler outlives the channel it writes to.             *)
THEOREM HandlersAreOver == Spec => []ResultsOutlive
<1>1. IInv => ResultsOutlive
  BY DEF IInv, ServerInv, ResultsOutlive
<1> QED BY <1>1, Invariance, PTL

LEMMA ReportFacts ==
  ASSUME IInv, server = "counted", ~ failed, NEW c \in Connections
  PROVE  client[c].i = Count(c) /\ (whole => handler[c].i = Count(c))
<1>1. GoodEnd(c)
  BY DEF IInv, ServerInv
<1> QED BY <1>1, GoodEndFacts

(* A run that ends without a FAIL line has made every request and received *)
(* every answer, whatever the program says of the connections that fail;   *)
(* and a FAIL line means that a connection failed.                         *)
THEOREM ReportIsHonest == Spec => []HonestReport
<1>1. IInv => HonestReport
  BY ReportFacts DEF HonestReport, IInv, ServerInv
<1> QED BY <1>1, Invariance, PTL
-----------------------------------------------------------------------------
(* A step on a connection is an answer, a receipt, or neither.             *)
LEMMA PromisedOn ==
  ASSUME IInv, whole, NEW c \in Connections, On(c)
  PROVE  \/ /\ handler'[c].i = handler[c].i + 1 /\ client'[c].i = client[c].i
            /\ handler[c].i = client[c].i /\ handler[c].i < Count(c)
         \/ /\ client'[c].i = client[c].i + 1 /\ handler'[c].i = handler[c].i
            /\ client[c].i < handler[c].i
         \/ handler'[c].i = handler[c].i /\ client'[c].i = client[c].i
<1>1. TypeOK /\ EndsInv(c) /\ TurnInv(c)
  BY DEF IInv
<1> USE <1>1, ConnectionType DEF Handlers, Clients, Wires
<1>2. CASE Accept(c)
  BY <1>2, AcceptStep
<1>3. CASE HandlerRecv(c)
  BY <1>3, HandlerRecvStep
<1>4. CASE HandlerSend(c)
  <2>1. CASE wire[c].state = "reset"
    BY <1>4, <2>1, HandlerSendStep
  <2>2. CASE wire[c].state # "reset"
    <3>1. handler[c].at = "send" /\ handler[c].left = 1
      BY <1>4, HandlerSendStep DEF TurnInv
    <3>2. client[c].at = "recv" /\ handler[c].i = client[c].i
      BY <2>2, <3>1 DEF TurnInv
    <3>3. client[c].i < Count(c)
      BY <3>2 DEF EndsInv
    <3>4. handler'[c].i = handler[c].i + 1 /\ client' = client
      BY <1>4, <2>2, <3>1, HandlerSendStep
    <3> QED BY <3>2, <3>3, <3>4
  <2> QED BY <2>1, <2>2
<1>5. CASE Connect(c)
  <2>1. client[c].i = 0
    BY <1>5, ConnectStep DEF EndsInv
  <2> QED BY <1>5, <2>1, ConnectStep, NextTurnFacts, CountFacts
<1>6. CASE ClientSend(c)
  BY <1>6, ClientSendStep
<1>7. CASE ClientRecv(c)
  <2>1. CASE wire[c].state = "reset"
    BY <1>7, <2>1, ClientRecvStep DEF TurnInv
  <2>2. CASE wire[c].state # "reset"
    <3>1. wire[c].down > 0 /\ client[c].at = "recv" /\ handler' = handler
          /\ client'[c] = NextTurn(c, client[c].i + 1)
      BY <1>7, <2>2, ClientRecvStep
    <3>2. client[c].i < handler[c].i
      BY <2>2, <3>1 DEF TurnInv
    <3>3. client[c].i + 1 <= Count(c)
      BY <3>1, CountFacts DEF EndsInv
    <3> QED BY <3>1, <3>2, <3>3, NextTurnFacts
  <2> QED BY <2>1, <2>2
<1>8. CASE ClientClose(c)
  BY <1>8, ClientCloseStep
<1>9. CASE Refused(c)
  BY <1>9, RefusedStep
<1>10. CASE Reset(c)
  BY <1>10, ResetStep
<1> QED BY <1>2, <1>3, <1>4, <1>5, <1>6, <1>7, <1>8, <1>9, <1>10 DEF On

(* A step on a connection that ends the process does neither.              *)
LEMMA EndedOn ==
  ASSUME IInv, NEW c \in Connections, On(c), process = "running"
  PROVE  \/ process' = "running"
         \/ /\ process' = "terminated"
            /\ handler'[c].i = handler[c].i /\ client'[c].i = client[c].i
<1>1. TypeOK
  BY DEF IInv
<1>2. CASE Accept(c)
  BY <1>2 DEF Accept
<1>3. CASE HandlerRecv(c) \/ HandlerSend(c) \/ Connect(c) \/ ClientClose(c) \/ Reset(c)
  BY <1>3 DEF HandlerRecv, HandlerSend, Connect, ClientClose, Reset, serverVars
<1>4. CASE ClientSend(c) \/ ClientRecv(c)
  <2>1. CASE UNCHANGED <<failed, process>>
    BY <2>1
  <2>2. CASE Lost(c)
    <3>1. handler' = handler
      BY <1>4 DEF ClientSend, ClientRecv
    <3>2. client'[c].i = client[c].i
      BY <1>1, <2>2, LostStep
    <3>3. process' \in {process, "terminated"}
      BY <1>1, <2>2, LostFacts
    <3> QED BY <3>1, <3>2, <3>3
  <2> QED BY <1>4, <2>1, <2>2 DEF ClientSend, ClientRecv
<1>5. CASE Refused(c)
  <2>1. handler' = handler /\ client'[c].i = client[c].i
    BY <1>1, <1>5, RefusedStep
  <2>2. process' \in {process, "terminated"}
    BY <1>1, <1>5, RefusedFacts
  <2> QED BY <2>1, <2>2
<1> QED BY <1>2, <1>3, <1>4, <1>5 DEF On

(* The rest of a step: the server takes results, or main() returns.        *)
LEMMA EndedElsewhere ==
  ASSUME IInv, [Next]_vars, UNCHANGED <<handler, client, wire>>, process = "running"
  PROVE  process' = "done" => server = "counted" /\ failed' = failed
<1>1. CASE UNCHANGED vars
  BY <1>1 DEF vars
<1>2. CASE Listen \/ MainReturns
  BY <1>2 DEF Listen, MainReturns, serverVars
<1>3. CASE JoinHandlers \/ \E c \in Connections : ReadResult(c)
  BY <1>3 DEF JoinHandlers, ReadResult, TakeResults
<1>4. ASSUME NEW c \in Connections, On(c) PROVE process' # "done"
  BY <1>4, EndedOn
<1> QED BY <1>1, <1>2, <1>3, <1>4, NextCases DEF On

(* The programs implement their promise: on each connection requests and   *)
(* answers take turns, and a run that passes has made them all.            *)
THEOREM Refinement == Spec => PromiseKept
<1>1. Init => Promise!Init
  BY DEF Init, Promise!Init, answered, received, outcome, NewHandler, NewClient
<1>2. IInv /\ [Next]_vars => [Promise!Next]_(Promise!promiseVars)
  <2> SUFFICES ASSUME IInv, [Next]_vars
               PROVE  Promise!Next \/ UNCHANGED <<answered, received, outcome>>
    BY DEF Promise!promiseVars
  <2>1. pieces' = pieces /\ whole' = whole
    <3>1. pieces' = pieces
      BY NextCases DEF vars, serverVars, Listen, JoinHandlers, MainReturns, TakeResults,
         ReadResult, Accept, HandlerRecv, HandlerSend, Connect, ClientSend, ClientRecv,
         ClientClose, Refused, Reset
    <3> QED BY <3>1 DEF whole
  <2>2. CASE ~ whole
    BY <2>1, <2>2 DEF answered, received, outcome
  <2>3. CASE process # "running"
    BY <2>3 DEF Next, Step, Trouble, Stopped, vars, serverVars, whole, answered, received, outcome
  <2>4. ASSUME whole, process = "running", UNCHANGED <<handler, client, wire>>
        PROVE  Promise!Next \/ UNCHANGED <<answered, received, outcome>>
    <3>1. outcome = "running" /\ UNCHANGED <<answered, received>>
      BY <2>1, <2>4 DEF outcome, answered, received
    <3>2. process' \in {"running", "done", "terminated"} /\ failed \in BOOLEAN
      BY StepType DEF IInv, TypeOK
    <3>3. CASE process' = "done" /\ ~ failed
      <4>1. outcome' = "passed"
        BY <2>1, <2>4, <3>3, EndedElsewhere DEF outcome
      <4>2. \A c \in Connections : received[c] = Count(c)
        BY <2>4, <3>3, EndedElsewhere, ReportFacts DEF received
      <4> QED BY <3>1, <4>1, <4>2 DEF Promise!Next, Promise!Succeed
    <3>4. CASE process' = "done" /\ failed
      <4>1. outcome' = "failed"
        BY <2>1, <2>4, <3>4, EndedElsewhere DEF outcome
      <4> QED BY <3>1, <4>1 DEF Promise!Next, Promise!Fail
    <3>5. CASE process' = "terminated"
      <4>1. outcome' = "terminated"
        BY <2>1, <2>4, <3>5 DEF outcome
      <4> QED BY <3>1, <4>1 DEF Promise!Next, Promise!Fail
    <3>6. CASE process' = "running"
      <4>1. outcome' = "running"
        BY <2>1, <2>4, <3>6 DEF outcome
      <4> QED BY <3>1, <4>1
    <3> QED BY <3>2, <3>3, <3>4, <3>5, <3>6
  <2>5. ASSUME whole, process = "running", NEW c \in Connections, On(c)
        PROVE  Promise!Next \/ UNCHANGED <<answered, received, outcome>>
    <3>0. TypeOK
      BY DEF IInv
    <3>1. /\ answered = [d \in Connections |-> handler[d].i]
          /\ received = [d \in Connections |-> client[d].i]
          /\ answered' = [d \in Connections |-> handler'[d].i]
          /\ received' = [d \in Connections |-> client'[d].i]
          /\ outcome = "running"
      BY <2>1, <2>5 DEF answered, received, outcome
    <3>2. \A d \in Connections : d # c => handler'[d] = handler[d] /\ client'[d] = client[d]
      BY <2>5, <3>0, Elsewhere
    <3>3. /\ answered' = [answered EXCEPT ![c] = handler'[c].i]
          /\ received' = [received EXCEPT ![c] = client'[c].i]
      <4> HIDE DEF Connections
      <4> QED BY <3>1, <3>2
    <3>4. answered[c] = handler[c].i /\ received[c] = client[c].i
      BY <3>1
    <3>5. CASE process' = "terminated"
      <4>1. outcome' = "terminated"
        BY <2>1, <2>5, <3>5 DEF outcome
      <4>2. UNCHANGED <<answered, received>>
        <5> HIDE DEF Connections
        <5> QED BY <2>5, <3>1, <3>3, <3>5, EndedOn
      <4> QED BY <3>1, <4>1, <4>2 DEF Promise!Next, Promise!Fail
    <3>6. CASE process' # "terminated"
      <4>1. outcome' = "running"
        BY <2>1, <2>5, <3>6, EndedOn DEF outcome
      <4>2. CASE /\ handler'[c].i = handler[c].i + 1 /\ client'[c].i = client[c].i
                 /\ handler[c].i = client[c].i /\ handler[c].i < Count(c)
        <5>1. received' = received
          BY <3>1, <3>3, <4>2
        <5> QED BY <3>1, <3>3, <3>4, <4>1, <4>2, <5>1 DEF Promise!Next, Promise!Answer
      <4>3. CASE /\ client'[c].i = client[c].i + 1 /\ handler'[c].i = handler[c].i
                 /\ client[c].i < handler[c].i
        <5>1. answered' = answered
          BY <3>1, <3>3, <4>3
        <5> QED BY <3>1, <3>3, <3>4, <4>1, <4>3, <5>1 DEF Promise!Next, Promise!Receive
      <4>4. CASE handler'[c].i = handler[c].i /\ client'[c].i = client[c].i
        BY <3>1, <3>3, <4>1, <4>4
      <4> QED BY <2>5, <4>2, <4>3, <4>4, PromisedOn
    <3> QED BY <3>5, <3>6
  <2>6. TypeOK
    BY DEF IInv
  <2> QED BY <2>2, <2>3, <2>4, <2>5, <2>6, Nowhere
<1> QED BY <1>1, <1>2, Invariance, PTL DEF Spec, PromiseKept, Promise!Spec
=============================================================================
