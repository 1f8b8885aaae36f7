------------------------ MODULE VoiceGatewayProofs ------------------------
(***************************************************************************)
(* What is said under a join stays with that join, and a connection that   *)
(* the gateway cannot close was not waited for, for any number of joins,   *)
(* chunks and connections.                                                 *)
(***************************************************************************)
EXTENDS VoiceGateway, TLAPS

LEMMA ConnFields ==
  ASSUME TypeOK, NEW s \in Connections, conn[s] # None
  PROVE  /\ conn[s] \in Made
         /\ conn[s].join \in Join /\ conn[s].chunk \in Chunks /\ conn[s].state \in State
         /\ \A state \in State :
              /\ [conn EXCEPT ![s].state = state]
                   = [conn EXCEPT ![s] = [conn[s] EXCEPT !.state = state]]
              /\ [conn[s] EXCEPT !.state = state] \in Made
<1>1. conn[s] \in Made
  BY DEF TypeOK
<1> QED
  BY <1>1 DEF Made, TypeOK

LEMMA ChunkFields ==
  ASSUME TypeOK, NEW c \in Chunks, chunk[c] # None
  PROVE  /\ chunk[c] \in Sent /\ chunk[c].join \in Join
         /\ \A at \in Connections \cup {"waiting", "lost"} :
              /\ [chunk EXCEPT ![c].at = at]
                   = [chunk EXCEPT ![c] = [chunk[c] EXCEPT !.at = at]]
              /\ [chunk[c] EXCEPT !.at = at] \in Sent
<1>1. chunk[c] \in Sent
  BY DEF TypeOK
<1> QED
  BY <1>1 DEF Sent, TypeOK

\* What a connection, a chunk and a context refer to belongs to the same join.
Chain ==
  /\ \A s \in Connections : Is(s, "creating") =>
       /\ chunk[conn[s].chunk] # None
       /\ chunk[conn[s].chunk].join = conn[s].join
  /\ \A c \in Chunks : chunk[c] # None /\ chunk[c].at \in Connections =>
       /\ conn[chunk[c].at] # None
       /\ conn[chunk[c].at].join = chunk[c].join
  /\ \A j \in Join : held[j] # None =>
       /\ conn[held[j]] # None
       /\ conn[held[j]].join = j /\ conn[held[j]].state # "creating"
  /\ WordsStayInTheirJoin

Inv == TypeOK /\ Chain

LEMMA Initially == Init => Inv
<1> SUFFICES ASSUME Init PROVE Inv
  OBVIOUS
<1>1. joins \in 0 .. MaxJoins
  BY VoiceConstants DEF Init
<1>2. TypeOK
  BY <1>1 DEF Init, TypeOK
<1>3. Chain
  BY VoiceConstants DEF Init, Chain, WordsStayInTheirJoin, Is
<1> QED
  BY <1>2, <1>3 DEF Inv

LEMMA CurrentIsJoin == TypeOK /\ current # None => current \in Join
<1> SUFFICES ASSUME TypeOK, current # None PROVE current \in Join
  OBVIOUS
<1>1. current \in 1 .. joins /\ joins \in 0 .. MaxJoins
  BY DEF TypeOK
<1> QED
  BY <1>1, VoiceConstants DEF Join

LEMMA WaitingChunks == TypeOK => Waiting \subseteq Chunks
BY ConnFields DEF Waiting, Is

\* A connection goes from one state to another, and nothing else happens.
LEMMA Becoming ==
  ASSUME Inv, NEW s \in Connections, conn[s] # None,
         NEW state \in State, state # "creating", Become(s, state),
         UNCHANGED <<client, checked, joins, current, held, chunk, words, hasty>>
  PROVE  Inv'
<1>1. TypeOK'
  BY ConnFields DEF Inv, Become, TypeOK
<1>2. /\ conn'[s] # None /\ conn'[s].join = conn[s].join /\ conn'[s].chunk = conn[s].chunk
      /\ conn'[s].state = state
      /\ \A t \in Connections : t # s => conn'[t] = conn[t]
  <2>1. conn' = [conn EXCEPT ![s] = [conn[s] EXCEPT !.state = state]]
    BY ConnFields DEF Inv, Become
  <2>2. conn'[s] = [conn[s] EXCEPT !.state = state] /\ conn'[s] \in Made
    BY <2>1, ConnFields DEF Inv, TypeOK
  <2>3. conn[s] \in Made
    BY ConnFields DEF Inv
  <2> QED
    BY <2>1, <2>2, <2>3, VoiceConstants DEF Made, Inv, TypeOK
<1>3. Chain'
  <2>1. \A t \in Connections : Is(t, "creating")' => Is(t, "creating") /\ conn'[t] = conn[t]
    BY <1>2 DEF Is
  <2>2. \A t \in Connections : conn[t] # None =>
          /\ conn'[t] # None /\ conn'[t].join = conn[t].join
          /\ conn[t].state # "creating" => conn'[t].state # "creating"
    BY <1>2
  <2>3. \A j \in Join : held[j] # None => held[j] \in Connections
    BY DEF Inv, TypeOK
  <2> QED
    BY <2>1, <2>2, <2>3 DEF Inv, Chain, WordsStayInTheirJoin
<1> QED
  BY <1>1, <1>3 DEF Inv

\* Connections and chunks are as they were: what is held may become less.
LEMMA Standing ==
  ASSUME Inv, UNCHANGED <<conn, chunk, words>>, TypeOK',
         \A j \in Join : held'[j] = None \/ held'[j] = held[j]
  PROVE  Inv'
BY DEF Inv, Chain, Is, WordsStayInTheirJoin

LEMMA Connects ==
  ASSUME Inv, NEW c \in Chunks, NEW s \in Connections, ChunkConnects(c, s)
  PROVE  Inv'
<1> DEFINE made == [join |-> current, chunk |-> c, state |-> "creating"]
           sent == [join |-> current, at |-> "waiting"]
<1>0. current \in Join
  BY CurrentIsJoin DEF ChunkConnects, Inv
<1>1. made \in Made /\ sent \in Sent
  BY <1>0 DEF Made, Sent, State
<1>2. /\ conn' = [conn EXCEPT ![s] = made] /\ chunk' = [chunk EXCEPT ![c] = sent]
      /\ conn[s] = None /\ chunk[c] = None
  BY DEF ChunkConnects
<1>3. TypeOK'
  <2>1. hasty' \subseteq Chunks
    BY WaitingChunks DEF ChunkConnects, Inv, TypeOK
  <2> QED
    BY <1>1, <1>2, <2>1 DEF ChunkConnects, Inv, TypeOK
<1>4. /\ conn'[s] = made /\ chunk'[c] = sent /\ made # None /\ sent # None
      /\ \A t \in Connections : t # s => conn'[t] = conn[t]
      /\ \A d \in Chunks : d # c => chunk'[d] = chunk[d]
  BY <1>1, <1>2, VoiceConstants DEF Inv, TypeOK
<1>5. /\ \A t \in Connections : conn[t] # None => conn'[t] = conn[t]
      /\ \A d \in Chunks : chunk[d] # None => chunk'[d] = chunk[d]
  BY <1>2, <1>4
<1>6. ASSUME NEW t \in Connections, Is(t, "creating")'
      PROVE  chunk'[conn'[t].chunk] # None /\ chunk'[conn'[t].chunk].join = conn'[t].join
  <2>1. CASE t = s
    BY <1>4, <2>1
  <2>2. CASE t # s
    <3>1. conn'[t] = conn[t] /\ Is(t, "creating")
      BY <1>4, <1>6, <2>2 DEF Is
    <3>2. conn[t].chunk \in Chunks
      BY <3>1, ConnFields DEF Is, Inv
    <3> QED
      BY <1>5, <3>1, <3>2 DEF Inv, Chain
  <2> QED
    BY <2>1, <2>2
<1>7. \A d \in Chunks : chunk'[d] # None /\ chunk'[d].at \in Connections =>
        conn'[chunk'[d].at] # None /\ conn'[chunk'[d].at].join = chunk'[d].join
  BY <1>4, <1>5, VoiceConstants DEF Inv, Chain
<1>8. \A j \in Join : held'[j] # None =>
        conn'[held'[j]] # None /\ conn'[held'[j]].join = j /\ conn'[held'[j]].state # "creating"
  BY <1>5 DEF Inv, Chain, TypeOK, ChunkConnects
<1>9. WordsStayInTheirJoin'
  BY <1>5 DEF Inv, Chain, TypeOK, ChunkConnects, WordsStayInTheirJoin
<1> QED
  BY <1>3, <1>6, <1>7, <1>8, <1>9 DEF Inv, Chain

LEMMA Sends ==
  ASSUME Inv, NEW c \in Chunks, ChunkSends(c)
  PROVE  Inv'
<1>1. current \in Join /\ held[current] \in Connections /\ chunk[c] = None
  BY CurrentIsJoin DEF ChunkSends, Inv, TypeOK
<1>2. PICK to \in SentTo(held[current], conn[held[current]].state) :
        chunk' = [chunk EXCEPT ![c] = [join |-> current, at |-> to]]
  BY DEF ChunkSends
<1> DEFINE sent == [join |-> current, at |-> to]
<1>3. to \in {held[current], "lost"}
  BY <1>2 DEF SentTo
<1>4. sent \in Sent
  BY <1>1, <1>3 DEF Sent
<1>5. TypeOK'
  BY <1>2, <1>4 DEF ChunkSends, Inv, TypeOK
<1>6. /\ chunk'[c] = sent
      /\ \A d \in Chunks : d # c => chunk'[d] = chunk[d]
  BY <1>2, <1>4 DEF Inv, TypeOK
<1>7. \A d \in Chunks : chunk[d] # None => chunk'[d] = chunk[d]
  BY <1>1, <1>6
<1>8. \A t \in Connections : Is(t, "creating") => conn[t].chunk \in Chunks
  BY ConnFields DEF Is, Inv
<1>9. conn[held[current]] # None /\ conn[held[current]].join = current
  BY <1>1, VoiceConstants DEF Inv, Chain
<1>10. \A d \in Chunks : chunk'[d] # None /\ chunk'[d].at \in Connections =>
         conn[chunk'[d].at] # None /\ conn[chunk'[d].at].join = chunk'[d].join
  BY <1>3, <1>6, <1>9, VoiceConstants DEF Inv, Chain
<1>11. WordsStayInTheirJoin'
  BY <1>7 DEF Inv, Chain, TypeOK, ChunkSends, WordsStayInTheirJoin
<1>12. Chain'
  BY <1>7, <1>8, <1>10, <1>11 DEF Inv, Chain, ChunkSends, Is
<1> QED
  BY <1>5, <1>12 DEF Inv

\* The await for a connection ends, well or badly: the chunk it was made for goes
\* somewhere, and the context may get hold of the connection.
LEMMA Awaited ==
  ASSUME Inv, NEW s \in Connections, Is(s, "creating"),
         NEW state \in {"opening", "closed"}, Become(s, state),
         NEW to \in {s, "lost"}, chunk' = [chunk EXCEPT ![conn[s].chunk].at = to],
         held' = [held EXCEPT ![conn[s].join] = s] \/ held' = held,
         UNCHANGED <<client, checked, joins, current, words, hasty>>
  PROVE  Inv'
<1> DEFINE c == conn[s].chunk
           made == [conn[s] EXCEPT !.state = state]
           sent == [chunk[c] EXCEPT !.at = to]
<1>1. conn[s] # None /\ conn[s].join \in Join /\ c \in Chunks /\ made \in Made /\ conn[s] \in Made
  BY ConnFields DEF Is, Inv, State
<1>2. chunk[c] # None /\ chunk[c].join = conn[s].join
  BY DEF Inv, Chain
<1>3. chunk[c] \in Sent /\ sent \in Sent
  BY <1>1, <1>2, ChunkFields DEF Inv
<1>4. conn' = [conn EXCEPT ![s] = made] /\ chunk' = [chunk EXCEPT ![c] = sent]
  <2>1. state \in State
    BY DEF State
  <2> QED
    BY <1>1, <1>2, <2>1, ConnFields, ChunkFields DEF Become, Inv
<1>5. TypeOK'
  BY <1>1, <1>3, <1>4 DEF Inv, TypeOK
<1>6. /\ conn'[s] = made /\ made # None /\ made.join = conn[s].join /\ made.state = state
      /\ \A t \in Connections : t # s => conn'[t] = conn[t]
  BY <1>1, <1>4, VoiceConstants DEF Inv, TypeOK, Made
<1>7. /\ chunk'[c] = sent /\ sent # None /\ sent.join = chunk[c].join /\ sent.at = to
      /\ \A d \in Chunks : d # c => chunk'[d] = chunk[d]
  BY <1>1, <1>3, <1>4, VoiceConstants DEF Inv, TypeOK, Sent
<1>8. /\ \A t \in Connections : conn[t] # None =>
           /\ conn'[t] # None /\ conn'[t].join = conn[t].join
           /\ conn[t].state # "creating" => conn'[t].state # "creating"
      /\ \A d \in Chunks : chunk[d] # None => chunk'[d] # None /\ chunk'[d].join = chunk[d].join
  BY <1>6, <1>7
<1> HIDE DEF c, made, sent
<1>9. ASSUME NEW t \in Connections, Is(t, "creating")'
      PROVE  chunk'[conn'[t].chunk] # None /\ chunk'[conn'[t].chunk].join = conn'[t].join
  <2>1. t # s /\ conn'[t] = conn[t] /\ Is(t, "creating")
    BY <1>6, <1>9 DEF Is
  <2>2. conn[t].chunk \in Chunks
    BY <2>1, ConnFields DEF Is, Inv
  <2> QED
    BY <1>8, <2>1, <2>2 DEF Inv, Chain
<1>10. \A d \in Chunks : chunk'[d] # None /\ chunk'[d].at \in Connections =>
         conn'[chunk'[d].at] # None /\ conn'[chunk'[d].at].join = chunk'[d].join
  <2>1. \A d \in Chunks : d # c => chunk'[d] = chunk[d]
    BY <1>7
  <2>2. chunk'[c].at \in Connections => chunk'[c].at = s
    BY <1>7, VoiceConstants
  <2>3. chunk'[c].join = conn'[s].join
    BY <1>2, <1>6, <1>7
  <2>4. \A d \in Chunks : chunk[d] # None /\ chunk[d].at \in Connections =>
          conn[chunk[d].at] # None /\ conn[chunk[d].at].join = chunk[d].join
    BY DEF Inv, Chain
  <2>5. ASSUME NEW d \in Chunks, chunk'[d] # None, chunk'[d].at \in Connections
        PROVE  conn'[chunk'[d].at] # None /\ conn'[chunk'[d].at].join = chunk'[d].join
    <3>1. CASE d = c
      BY <1>6, <2>2, <2>3, <2>5, <3>1
    <3>2. CASE d # c
      <4>1. chunk'[d] = chunk[d]
        BY <2>1, <3>2
      <4>2. chunk[d].at \in Connections /\ conn[chunk[d].at] # None
            /\ conn[chunk[d].at].join = chunk[d].join
        BY <2>4, <2>5, <4>1
      <4>3. conn'[chunk[d].at] # None /\ conn'[chunk[d].at].join = conn[chunk[d].at].join
        BY <1>8, <4>2
      <4> QED
        BY <4>1, <4>2, <4>3
    <3> QED
      BY <3>1, <3>2
  <2> QED
    BY <2>5
<1>11. \A j \in Join : held'[j] # None =>
         conn'[held'[j]] # None /\ conn'[held'[j]].join = j /\ conn'[held'[j]].state # "creating"
  <2>1. \A j \in Join : held'[j] = held[j] \/ (held'[j] = s /\ j = conn[s].join)
    <3>1. held \in [Join -> Connections \cup {None}] /\ conn[s].join \in Join
      BY <1>1 DEF Inv, TypeOK
    <3>2. CASE held' = [held EXCEPT ![conn[s].join] = s]
      BY <3>1, <3>2
    <3> QED
      BY <3>2
  <2>2. \A j \in Join : held[j] # None => held[j] \in Connections
    BY DEF Inv, TypeOK
  <2>3. conn'[s].state # "creating"
    BY <1>6
  <2> QED
    BY <1>6, <1>8, <2>1, <2>2, <2>3 DEF Inv, Chain
<1>12. WordsStayInTheirJoin'
  BY <1>8 DEF Inv, Chain, TypeOK, WordsStayInTheirJoin
<1> QED
  BY <1>5, <1>9, <1>10, <1>11, <1>12 DEF Inv, Chain

LEMMA Hears ==
  ASSUME Inv, NEW s \in Connections, Heard(s)
  PROVE  Inv'
<1>1. PICK c \in Chunks : /\ chunk[c] # None /\ chunk[c].at = s
                          /\ words' = words \cup {<<c, conn[s].join>>}
  BY DEF Heard
<1>2. conn[s] # None /\ chunk[c].join = conn[s].join
  BY <1>1 DEF Inv, Chain
<1>3. conn[s].join \in Join
  BY <1>2, ConnFields DEF Inv
<1>4. TypeOK'
  BY <1>1, <1>3 DEF Heard, Inv, TypeOK
<1>5. WordsStayInTheirJoin'
  BY <1>1, <1>2 DEF Heard, Inv, Chain, WordsStayInTheirJoin
<1> QED
  BY <1>4, <1>5 DEF Heard, Inv, Chain, Is

\* The connection in a context is told to close.
LEMMA Closes ==
  ASSUME Inv, NEW s \in Connections, conn[s] # None, conn[s].state # "creating",
         conn' = ToldToClose(s), TypeOK',
         \A j \in Join : held'[j] = None \/ held'[j] = held[j],
         UNCHANGED <<chunk, words>>
  PROVE  Inv'
<1> DEFINE state == IF conn[s].state = "closed" THEN "closed" ELSE "closing"
<1>1. state \in State /\ state # "creating"
  BY DEF State
<1>2. conn' = [conn EXCEPT ![s] = [conn[s] EXCEPT !.state = state]]
  BY DEF ToldToClose
<1> HIDE DEF state
<1>3. /\ conn'[s] # None /\ conn'[s].join = conn[s].join /\ conn'[s].state = state
      /\ \A t \in Connections : t # s => conn'[t] = conn[t]
  <2>1. conn[s] \in Made /\ [conn[s] EXCEPT !.state = state] \in Made
    BY <1>1, ConnFields DEF Inv
  <2> QED
    BY <1>2, <2>1, VoiceConstants DEF Made, Inv, TypeOK
<1>4. \A t \in Connections : conn[t] # None =>
        /\ conn'[t] # None /\ conn'[t].join = conn[t].join
        /\ conn[t].state # "creating" => conn'[t].state # "creating"
  BY <1>1, <1>3
<1>5. \A t \in Connections : Is(t, "creating")' => Is(t, "creating") /\ conn'[t] = conn[t]
  BY <1>1, <1>3 DEF Is
<1>6. \A j \in Join : held[j] # None => held[j] \in Connections
  BY DEF Inv, TypeOK
<1>7. Chain'
  BY <1>4, <1>5, <1>6 DEF Inv, Chain, WordsStayInTheirJoin
<1> QED
  BY <1>7 DEF Inv

LEMMA TypeStanding ==
  ASSUME TypeOK, NEW s \in Connections, conn[s] # None
  PROVE  ToldToClose(s) \in [Connections -> Made \cup {None}]
<1> DEFINE state == IF conn[s].state = "closed" THEN "closed" ELSE "closing"
<1>1. state \in State
  BY DEF State
<1>2. ToldToClose(s) = [conn EXCEPT ![s] = [conn[s] EXCEPT !.state = state]]
  BY DEF ToldToClose
<1> HIDE DEF state
<1> QED
  BY <1>1, <1>2, ConnFields DEF TypeOK

LEMMA Holding ==
  ASSUME Inv, current # None, held[current] # None
  PROVE  /\ current \in Join /\ held[current] \in Connections
         /\ conn[held[current]] # None /\ conn[held[current]].state # "creating"
<1>1. current \in Join
  BY CurrentIsJoin DEF Inv
<1>2. held[current] \in Connections
  BY <1>1 DEF Inv, TypeOK
<1> QED
  BY <1>1, <1>2 DEF Inv, Chain

LEMMA InvStep == Inv /\ [Next]_vars => Inv'
<1> SUFFICES ASSUME Inv, [Next]_vars PROVE Inv'
  OBVIOUS
<1>1. ASSUME NEW ok \in BOOLEAN, Authenticate(ok) PROVE Inv'
  <2>1. TypeOK'
    BY <1>1 DEF Authenticate, Inv, TypeOK
  <2> QED
    BY <1>1, <2>1, Standing DEF Authenticate
<1>2. CASE HandleJoin
  <2>1. joins \in Nat /\ joins + 1 \in 0 .. MaxJoins /\ joins + 1 \in 1 .. joins + 1
    BY <1>2, VoiceConstants DEF HandleJoin, Inv, TypeOK
  <2>2. TypeOK'
    BY <1>2, <2>1 DEF HandleJoin, Inv, TypeOK
  <2> QED
    BY <1>2, <2>2, Standing DEF HandleJoin
<1>3. CASE EndStream
  <2>1. /\ current \in Join /\ held[current] \in Connections
        /\ conn[held[current]] # None /\ conn[held[current]].state # "creating"
    BY <1>3, Holding DEF EndStream
  <2>2. /\ conn' = ToldToClose(held[current])
        /\ held' = [held EXCEPT ![current] = None]
        /\ UNCHANGED <<client, checked, joins, current, chunk, words, hasty>>
    BY <1>3 DEF EndStream
  <2>3. TypeOK'
    BY <2>1, <2>2, TypeStanding DEF Inv, TypeOK
  <2>4. \A j \in Join : held'[j] = None \/ held'[j] = held[j]
    BY <2>1, <2>2 DEF Inv, TypeOK
  <2>5. PICK s \in Connections : s = held[current]
    BY <2>1
  <2> QED
    BY <2>1, <2>2, <2>3, <2>4, <2>5, Closes
<1>4. CASE EndStreamThrows
  BY <1>4 DEF EndStreamThrows, vars, Inv, TypeOK, Chain, Is, WordsStayInTheirJoin
<1>5. CASE HandleDisconnect
  <2>0. hasty' \subseteq Chunks
    BY <1>5, WaitingChunks DEF HandleDisconnect, Inv, TypeOK
  <2>1. CASE current # None /\ held[current] # None
    <3>1. held[current] \in Connections /\ conn[held[current]] # None
          /\ conn[held[current]].state # "creating"
      BY <2>1, Holding
    <3>2. /\ conn' = ToldToClose(held[current]) /\ client' = "gone" /\ current' = None
          /\ UNCHANGED <<checked, joins, held, chunk, words>>
      BY <1>5, <2>1 DEF HandleDisconnect
    <3>3. TypeOK'
      BY <2>0, <3>1, <3>2, TypeStanding DEF Inv, TypeOK
    <3>4. PICK s \in Connections : s = held[current]
      BY <3>1
    <3> QED
      BY <3>1, <3>2, <3>3, <3>4, Closes
  <2>2. CASE ~(current # None /\ held[current] # None)
    <3>1. /\ client' = "gone" /\ current' = None
          /\ UNCHANGED <<conn, checked, joins, held, chunk, words>>
      BY <1>5, <2>2 DEF HandleDisconnect
    <3>2. TypeOK'
      BY <2>0, <3>1 DEF Inv, TypeOK
    <3> QED
      BY <3>1, <3>2, Standing
  <2> QED
    BY <2>1, <2>2
<1>6. ASSUME NEW c \in Chunks, ChunkSends(c) PROVE Inv'
  BY <1>6, Sends
<1>7. ASSUME NEW c \in Chunks, NEW s \in Connections, ChunkConnects(c, s) PROVE Inv'
  BY <1>7, Connects
<1>8. ASSUME NEW s \in Connections, Created(s) PROVE Inv'
  <2>1. PICK to \in SentTo(s, "opening") : chunk' = [chunk EXCEPT ![conn[s].chunk].at = to]
    BY <1>8 DEF Created
  <2>2. to \in {s, "lost"}
    BY <2>1 DEF SentTo
  <2> QED
    BY <1>8, <2>1, <2>2, Awaited DEF Created
<1>9. ASSUME NEW s \in Connections, NotCreated(s) PROVE Inv'
  BY <1>9, Awaited DEF NotCreated
<1>10. ASSUME NEW s \in Connections, Opened(s) \/ Reopening(s) \/ Closed(s) PROVE Inv'
  <2>1. PICK state \in {"open", "opening", "closed"} :
          /\ conn[s] # None /\ Become(s, state)
          /\ UNCHANGED <<client, checked, joins, current, held, chunk, words, hasty>>
    BY <1>10 DEF Opened, Reopening, Closed, Is
  <2>2. state \in State /\ state # "creating"
    BY DEF State
  <2> QED
    BY <2>1, <2>2, Becoming
<1>11. ASSUME NEW s \in Connections, Heard(s) PROVE Inv'
  BY <1>11, Hears
<1>12. CASE UNCHANGED vars
  BY <1>12 DEF vars, Inv, TypeOK, Chain, Is, WordsStayInTheirJoin
<1> QED
  BY <1>1, <1>2, <1>3, <1>4, <1>5, <1>6, <1>7, <1>8, <1>9, <1>10, <1>11, <1>12 DEF Next

LEMMA Invariance == Spec => []Inv
BY Initially, InvStep, PTL DEF Spec

\* The contexts, the connections and the chunks of a client have their types.
THEOREM TypeCorrect == Spec => []TypeOK
<1>1. Inv => TypeOK
  BY DEF Inv
<1> QED
  BY <1>1, Invariance, PTL

\* OnboardingGateway: words heard in a chunk are taken for the join it was sent
\* under, however late the connection and the transcript are.
THEOREM WordsStay == Spec => []WordsStayInTheirJoin
<1>1. Inv => WordsStayInTheirJoin
  BY DEF Inv, Chain
<1> QED
  BY <1>1, Invariance, PTL

-----------------------------------------------------------------------------
Connected(s) == Is(s, "opening") \/ Is(s, "open")
Creating(s) == Is(s, "creating")

\* The connection of a chunk that did wait, and was waited for, is the one that
\* its context holds or is about to hold.
Kept(s) ==
  /\ held[conn[s].join] = IF Creating(s) THEN None ELSE s
  /\ \A t \in Connections : Creating(t) /\ conn[t].join = conn[s].join => t = s

Stays ==
  /\ \A s \in Connections : conn[s] # None => conn[s].join \in 1 .. joins
  /\ current # None => current = joins
  /\ current = None => \A s \in Live : conn[s].join = joins => conn[s].chunk \in hasty
  /\ \A s \in Live : conn[s].chunk \notin hasty => Kept(s)

LEMMA LiveOnes ==
  \A s \in Connections :
    /\ s \in Live <=> Creating(s) \/ Connected(s)
    /\ Creating(s) \/ Connected(s) => conn[s] # None
    /\ ~(Creating(s) /\ Connected(s))
BY DEF Live, Creating, Connected, Is

\* Nothing comes to life, and no context changes.
LEMMA StaysStanding ==
  ASSUME Stays, UNCHANGED <<held, current, joins, hasty>>,
         \A s \in Connections : conn'[s] # None =>
           /\ conn[s] # None
           /\ conn'[s].join = conn[s].join /\ conn'[s].chunk = conn[s].chunk,
         \A s \in Connections : /\ Connected(s)' => Connected(s)
                                /\ Creating(s)' => Creating(s)
  PROVE  Stays'
<1>1. \A s \in Connections : s \in Live' =>
        /\ conn'[s] # None /\ s \in Live
        /\ conn'[s].join = conn[s].join /\ conn'[s].chunk = conn[s].chunk
  BY DEF Live, Creating, Connected, Is
<1>2. ASSUME NEW s \in Live', conn'[s].chunk \notin hasty' PROVE Kept(s)'
  <2>1. s \in Connections /\ Kept(s) /\ conn'[s].join = conn[s].join
    BY <1>1, <1>2 DEF Stays, Live
  <2>2. Creating(s)' <=> Creating(s)
    BY <1>2, <2>1, LiveOnes DEF Live, Creating, Connected, Is
  <2>3. \A t \in Connections : Creating(t)' => Creating(t) /\ conn'[t].join = conn[t].join
    BY <1>1 DEF Live, Creating, Is
  <2> QED
    BY <2>1, <2>2, <2>3 DEF Kept
<1>3. \A s \in Live' : s \in Live
  BY <1>1 DEF Live
<1> QED
  BY <1>1, <1>2, <1>3 DEF Stays, Live

\* The state of one connection changes, all else of the connections stands.
LEMMA Turns ==
  ASSUME Inv, NEW s \in Connections, conn[s] # None, NEW state \in State, Become(s, state)
  PROVE  /\ conn'[s] # None /\ conn'[s].state = state
         /\ conn'[s].join = conn[s].join /\ conn'[s].chunk = conn[s].chunk
         /\ \A t \in Connections : t # s => conn'[t] = conn[t]
<1>1. conn' = [conn EXCEPT ![s] = [conn[s] EXCEPT !.state = state]]
  BY ConnFields DEF Inv, Become
<1>2. conn[s] \in Made /\ [conn[s] EXCEPT !.state = state] \in Made
  BY ConnFields DEF Inv
<1> QED
  BY <1>1, <1>2, VoiceConstants DEF Made, Inv, TypeOK

\* After close() a connection lives no longer.
LEMMA Ends ==
  ASSUME Inv, NEW s \in Connections, conn[s] # None, conn' = ToldToClose(s)
  PROVE  /\ s \notin Live' /\ conn'[s] # None
         /\ conn'[s].join = conn[s].join /\ conn'[s].chunk = conn[s].chunk
         /\ \A t \in Connections : t # s => conn'[t] = conn[t]
<1> DEFINE state == IF conn[s].state = "closed" THEN "closed" ELSE "closing"
<1>1. state \in State /\ state \notin {"creating", "opening", "open"}
  BY DEF State
<1>2. conn' = [conn EXCEPT ![s] = [conn[s] EXCEPT !.state = state]]
  BY DEF ToldToClose
<1> HIDE DEF state
<1>3. conn[s] \in Made /\ [conn[s] EXCEPT !.state = state] \in Made
  BY <1>1, ConnFields DEF Inv
<1>4. /\ conn'[s].state = state /\ conn'[s] # None
      /\ conn'[s].join = conn[s].join /\ conn'[s].chunk = conn[s].chunk
      /\ \A t \in Connections : t # s => conn'[t] = conn[t]
  BY <1>2, <1>3, VoiceConstants DEF Made, Inv, TypeOK
<1> QED
  BY <1>1, <1>4 DEF Live, Is

LEMMA StaysStep == Inv /\ Inv' /\ Stays /\ [Next]_vars => Stays'
<1> SUFFICES ASSUME Inv, Inv', Stays, [Next]_vars PROVE Stays'
  OBVIOUS
<1>0. /\ joins \in 0 .. MaxJoins /\ MaxJoins \in Nat /\ joins \in Nat
      /\ current \in 1 .. joins \cup {None} /\ None \notin Join
      /\ held \in [Join -> Connections \cup {None}]
      /\ None \notin Connections
  BY VoiceConstants DEF Inv, TypeOK
\* What lives was alive, and what was waited for stays so.
<1>a. ASSUME conn' = conn
      PROVE  /\ Live' = Live
             /\ \A s \in Connections : /\ Connected(s)' <=> Connected(s)
                                       /\ Creating(s)' <=> Creating(s)
  BY <1>a DEF Live, Connected, Creating, Is
<1>1. ASSUME NEW ok \in BOOLEAN, Authenticate(ok) PROVE Stays'
  BY <1>1, <1>a, StaysStanding DEF Authenticate
<1>2. CASE HandleJoin
  <2>1. joins' = joins + 1 /\ current' = joins + 1 /\ UNCHANGED <<conn, held, hasty>>
    BY <1>2 DEF HandleJoin
  <2>2. \A s \in Connections : conn[s] # None => conn[s].join \in 1 .. joins + 1
    BY <1>0 DEF Stays
  <2>3. joins + 1 # None
    BY <1>2, <1>0 DEF HandleJoin, Join
  <2>4. \A s \in Live : conn[s].chunk \notin hasty => Kept(s)'
    BY <1>a, <2>1 DEF Stays, Kept, Creating, Is
  <2> QED
    BY <1>a, <2>1, <2>2, <2>3, <2>4 DEF Stays
<1>3. CASE EndStream
  <2>1. /\ current \in Join /\ held[current] \in Connections /\ conn[held[current]] # None
        /\ conn' = ToldToClose(held[current]) /\ held' = [held EXCEPT ![current] = None]
        /\ current = joins /\ UNCHANGED <<current, joins, hasty>>
    BY <1>3, Holding DEF EndStream, Stays
  <2>2. PICK s \in Connections : s = held[current]
    BY <2>1
  <2>3. /\ s \notin Live' /\ conn'[s] # None
        /\ conn'[s].join = conn[s].join /\ conn'[s].chunk = conn[s].chunk
        /\ \A t \in Connections : t # s => conn'[t] = conn[t]
    BY <2>1, <2>2, Ends
  <2>4. \A t \in Connections :
          /\ conn'[t] # None => conn[t] # None /\ conn'[t].join = conn[t].join
          /\ t \in Live' => t # s /\ t \in Live /\ conn'[t] = conn[t]
          /\ Creating(t)' => t # s /\ Creating(t) /\ conn'[t] = conn[t]
    BY <2>1, <2>2, <2>3 DEF Live, Creating, Is
  <2>5. ASSUME NEW t \in Live', conn'[t].chunk \notin hasty' PROVE Kept(t)'
    <3>1. /\ t \in Connections /\ t # s /\ t \in Live /\ conn'[t] = conn[t] /\ Kept(t)
          /\ Creating(t)' <=> Creating(t)
      BY <2>1, <2>4, <2>5 DEF Stays, Live, Creating, Is
    <3>2. conn[t] # None /\ conn[t].join \in Join
      BY <3>1, LiveOnes, ConnFields DEF Inv
    <3>3. (held[conn[t].join] = IF Creating(t) THEN None ELSE t)'
      <4>1. CASE conn[t].join = current
        BY <1>0, <2>1, <2>2, <3>1, <4>1 DEF Kept
      <4>2. CASE conn[t].join # current
        BY <1>0, <2>1, <3>1, <3>2, <4>2 DEF Kept
      <4> QED
        BY <4>1, <4>2
    <3> QED
      BY <2>4, <3>1, <3>3 DEF Kept
  <2> QED
    BY <1>0, <2>1, <2>4, <2>5 DEF Stays, Live
<1>4. CASE EndStreamThrows
  BY <1>4, <1>a, StaysStanding DEF EndStreamThrows, vars
<1>5. CASE HandleDisconnect
  <2>1. current' = None /\ hasty' = hasty \cup Waiting /\ UNCHANGED <<joins, held>>
    BY <1>5 DEF HandleDisconnect
  \* What the context of the moment holds lives no longer.
  <2>2. \A t \in Connections :
          /\ conn'[t] # None => conn[t] # None /\ conn'[t].join = conn[t].join
          /\ t \in Live' => t \in Live /\ conn'[t] = conn[t]
          /\ Creating(t)' => Creating(t) /\ conn'[t] = conn[t]
          /\ t \in Live' /\ current # None => t # held[current]
    <3>1. CASE current # None /\ held[current] # None
      <4>1. /\ held[current] \in Connections /\ conn[held[current]] # None
            /\ conn' = ToldToClose(held[current])
        BY <1>5, <3>1, Holding DEF HandleDisconnect
      <4>2. PICK s \in Connections : s = held[current]
        BY <4>1
      <4>3. /\ s \notin Live' /\ conn'[s] # None
            /\ conn'[s].join = conn[s].join /\ conn'[s].chunk = conn[s].chunk
            /\ \A t \in Connections : t # s => conn'[t] = conn[t]
        BY <4>1, <4>2, Ends
      <4> QED
        BY <4>1, <4>2, <4>3 DEF Live, Creating, Is
    <3>2. CASE ~(current # None /\ held[current] # None)
      <4>1. conn' = conn
        BY <1>5, <3>2 DEF HandleDisconnect
      <4> QED
        BY <1>0, <1>a, <3>2, <4>1
    <3> QED
      BY <3>1, <3>2
  <2>3. ASSUME NEW t \in Live', conn'[t].chunk \notin hasty'
        PROVE  Kept(t)' /\ conn'[t].join # joins
    <3>1. /\ t \in Connections /\ t \in Live /\ conn'[t] = conn[t] /\ Kept(t)
          /\ Creating(t)' <=> Creating(t)
      BY <2>1, <2>2, <2>3 DEF Stays, Live, Creating, Is
    <3>2. Kept(t)'
      BY <2>1, <2>2, <3>1 DEF Kept
    <3>3. CASE conn[t].join = joins
      <4>1. current = joins
        BY <2>1, <2>3, <3>1, <3>3 DEF Stays
      <4>2. current # None /\ ~Creating(t)
        <5>1. current # None
          BY <2>1, <2>3, <3>1, <3>3 DEF Stays
        <5>2. Creating(t) => conn[t].chunk \in Waiting
          BY <3>1, <3>3, <4>1 DEF Waiting, Creating
        <5> QED
          BY <2>1, <2>3, <3>1, <5>1, <5>2
      <4> QED
        BY <2>2, <3>1, <3>3, <4>1, <4>2 DEF Kept
    <3> QED
      BY <3>1, <3>2, <3>3
  <2> QED
    BY <2>1, <2>2, <2>3 DEF Stays, Live
<1>6. ASSUME NEW c \in Chunks, ChunkSends(c) PROVE Stays'
  BY <1>6, <1>a, StaysStanding DEF ChunkSends
<1>7. ASSUME NEW c \in Chunks, NEW s \in Connections, ChunkConnects(c, s) PROVE Stays'
  <2>1. /\ current # None /\ held[current] = None /\ conn[s] = None
        /\ UNCHANGED <<current, joins, held>>
        /\ conn' = [conn EXCEPT ![s] = [join |-> current, chunk |-> c, state |-> "creating"]]
        /\ hasty' = IF Waiting = {} THEN hasty ELSE hasty \cup Waiting \cup {c}
    BY <1>7 DEF ChunkConnects
  <2>2. /\ conn'[s].join = current /\ conn'[s].chunk = c /\ conn'[s].state = "creating"
        /\ \A t \in Connections : t # s => conn'[t] = conn[t]
    BY <2>1 DEF Inv, TypeOK
  <2>3. current = joins /\ current \in 1 .. joins
    BY <1>0, <2>1 DEF Stays
  <2>4. \A t \in Connections \ {s} : /\ t \in Live' => t \in Live
                                     /\ Creating(t)' <=> Creating(t)
    BY <2>2 DEF Live, Creating, Is
  <2>5. ASSUME NEW t \in Live', conn'[t].chunk \notin hasty' PROVE Kept(t)'
    <3>1. CASE t = s
      <4>1. Waiting = {}
        BY <2>1, <2>2, <2>5, <3>1
      <4>2. \A u \in Connections : Creating(u) => conn[u].join # current
        BY <4>1 DEF Waiting, Creating
      <4>3. Creating(s)' \/ ~(conn'[s] # None)
        BY <2>2 DEF Creating, Is
      <4>4. conn'[s] # None
        BY <2>5, <3>1 DEF Live, Is
      <4> QED
        BY <2>1, <2>2, <2>4, <3>1, <4>2, <4>3, <4>4 DEF Kept
    <3>2. CASE t # s
      <4>1. /\ t \in Connections /\ t \in Live /\ conn'[t] = conn[t] /\ Kept(t)
            /\ Creating(t)' <=> Creating(t)
        BY <2>1, <2>2, <2>4, <2>5, <3>2 DEF Stays, Live
      <4>2. conn[t].join # current
        <5>1. SUFFICES ASSUME conn[t].join = current PROVE FALSE
          OBVIOUS
        <5>2. Creating(t)
          BY <1>0, <2>1, <4>1, <5>1 DEF Kept
        <5>3. conn[t].chunk \in Waiting
          BY <4>1, <5>1, <5>2 DEF Waiting, Creating
        <5> QED
          BY <2>1, <2>5, <4>1, <5>3
      <4> QED
        BY <2>1, <2>2, <2>4, <4>1, <4>2 DEF Kept
    <3> QED
      BY <3>1, <3>2
  <2> QED
    BY <1>0, <2>1, <2>2, <2>3, <2>5 DEF Stays, Live
<1>8. ASSUME NEW s \in Connections, Created(s) PROVE Stays'
  <2>1. /\ Creating(s) /\ Become(s, "opening") /\ conn[s] # None
        /\ held' = [held EXCEPT ![conn[s].join] = s] /\ UNCHANGED <<current, joins, hasty>>
    BY <1>8 DEF Created, Creating, Is
  <2>2. conn[s].join \in Join
    BY <2>1, ConnFields DEF Inv
  <2>3. /\ conn'[s] # None /\ conn'[s].state = "opening"
        /\ conn'[s].join = conn[s].join /\ conn'[s].chunk = conn[s].chunk
        /\ \A t \in Connections : t # s => conn'[t] = conn[t]
    BY <2>1, Turns DEF State
  <2>4. \A t \in Connections : /\ t \in Live' => t \in Live
                               /\ Creating(t)' <=> t # s /\ Creating(t)
    BY <2>1, <2>3 DEF Live, Creating, Is
  <2>5. ASSUME NEW t \in Live', conn'[t].chunk \notin hasty' PROVE Kept(t)'
    <3>1. /\ t \in Connections /\ t \in Live /\ conn'[t].join = conn[t].join
          /\ conn'[t].chunk = conn[t].chunk
      BY <2>3, <2>4, <2>5 DEF Live
    <3>2. Kept(t) /\ conn[t] # None /\ conn[t].join \in Join
      BY <2>1, <2>5, <3>1, LiveOnes, ConnFields DEF Stays, Inv
    <3>3. \A u \in Connections : Creating(u)' /\ conn'[u].join = conn'[t].join => u = t
      BY <2>3, <2>4, <3>1, <3>2 DEF Kept
    <3>4. (held[conn[t].join] = IF Creating(t) THEN None ELSE t)'
      <4>1. CASE t = s
        BY <1>0, <2>1, <2>2, <2>3, <2>4, <4>1
      <4>2. CASE t # s
        <5>1. conn[t].join # conn[s].join
          BY <2>1, <3>2, <4>2 DEF Kept
        <5>2. held'[conn[t].join] = held[conn[t].join] /\ (Creating(t)' <=> Creating(t))
          BY <1>0, <2>1, <2>2, <2>4, <3>1, <3>2, <4>2, <5>1
        <5> QED
          BY <3>1, <3>2, <5>2 DEF Kept
      <4> QED
        BY <4>1, <4>2
    <3> QED
      BY <3>3, <3>4 DEF Kept
  <2> QED
    BY <2>1, <2>3, <2>4, <2>5 DEF Stays, Live
<1>9. ASSUME NEW s \in Connections, NotCreated(s) \/ Closed(s) PROVE Stays'
  <2>1. conn[s] # None /\ Become(s, "closed") /\ UNCHANGED <<held, current, joins, hasty>>
    BY <1>9 DEF NotCreated, Closed, Is
  <2>2. /\ conn'[s] # None /\ conn'[s].state = "closed"
        /\ conn'[s].join = conn[s].join /\ conn'[s].chunk = conn[s].chunk
        /\ \A t \in Connections : t # s => conn'[t] = conn[t]
    BY <2>1, Turns DEF State
  <2>3. \A t \in Connections : /\ Connected(t)' => Connected(t)
                               /\ Creating(t)' => Creating(t)
    BY <2>2 DEF Connected, Creating, Is
  <2>4. \A t \in Connections : conn'[t] # None =>
          /\ conn[t] # None
          /\ conn'[t].join = conn[t].join /\ conn'[t].chunk = conn[t].chunk
    BY <2>1, <2>2
  <2> QED
    BY <2>1, <2>3, <2>4, StaysStanding
<1>10. ASSUME NEW s \in Connections, Opened(s) \/ Reopening(s) PROVE Stays'
  <2>1. PICK state \in {"open", "opening"} :
          Connected(s) /\ Become(s, state) /\ UNCHANGED <<held, current, joins, hasty>>
    BY <1>10 DEF Opened, Reopening, Connected
  <2>2. conn[s] # None /\ state \in State
    BY <2>1 DEF Connected, Is, State
  <2>3. /\ conn'[s] # None /\ conn'[s].state = state
        /\ conn'[s].join = conn[s].join /\ conn'[s].chunk = conn[s].chunk
        /\ \A t \in Connections : t # s => conn'[t] = conn[t]
    BY <2>1, <2>2, Turns
  <2>4. \A t \in Connections : /\ Connected(t)' => Connected(t)
                               /\ Creating(t)' => Creating(t)
    BY <2>1, <2>3 DEF Connected, Creating, Is
  <2>5. \A t \in Connections : conn'[t] # None =>
          /\ conn[t] # None
          /\ conn'[t].join = conn[t].join /\ conn'[t].chunk = conn[t].chunk
    BY <2>2, <2>3
  <2> QED
    BY <2>1, <2>4, <2>5, StaysStanding
<1>11. ASSUME NEW s \in Connections, Heard(s) PROVE Stays'
  BY <1>11, <1>a, StaysStanding DEF Heard
<1>12. CASE UNCHANGED vars
  BY <1>12, <1>a, StaysStanding DEF vars
<1> QED
  BY <1>1, <1>2, <1>3, <1>4, <1>5, <1>6, <1>7, <1>8, <1>9, <1>10, <1>11, <1>12 DEF Next

\* handleAudioChunk, handleEndStream, handleDisconnect: whatever the client does,
\* a second living connection of a context, or one that the gateway cannot close
\* any more, comes of chunks that overlapped the making of a connection, of leaving
\* during it, or of a second join.
THEOREM StrayConnectionsAreHasty == Spec => []OneConnection
<1>1. Init => Stays
  BY DEF Init, Stays, Live, Is
<1>2. Stays => OneConnection
  <2> SUFFICES ASSUME Stays, NEW s \in Live, conn[s].chunk \notin hasty
               PROVE  /\ \A t \in Live : conn[t].join = conn[s].join
                                         /\ conn[t].chunk \notin hasty => t = s
                      /\ conn[s].join = joins => Reached(s)
    BY DEF OneConnection
  <2>1. Kept(s) /\ s \in Connections
    BY DEF Stays, Live
  <2>2. ASSUME NEW t \in Live, conn[t].join = conn[s].join, conn[t].chunk \notin hasty
        PROVE  t = s
    <3>1. Kept(t) /\ t \in Connections
      BY <2>2 DEF Stays, Live
    <3> QED
      BY <2>1, <2>2, <3>1 DEF Kept
  <2>3. conn[s].join = joins => Reached(s)
    BY <2>1 DEF Stays, Kept, Reached, Creating
  <2> QED
    BY <2>2, <2>3
<1> QED
  BY <1>1, <1>2, StaysStep, Invariance, PTL DEF Spec
=============================================================================
