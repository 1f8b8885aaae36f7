---------------------------- MODULE VoiceGateway ----------------------------
(***************************************************************************)
(* OnboardingGateway for one client of the voice socket: its entry in      *)
(* socketContextMap, the context objects that entry has referred to, and   *)
(* the Deepgram connections made for them.  Other clients share none of    *)
(* it.  What a join and a transcript set off in OnboardingService is in      *)
(* module Onboarding.                                                      *)
(*                                                                         *)
(* Every message of the client starts a handler of its own, and a handler  *)
(* that awaits is overtaken by the next: by another chunk, by end_stream,  *)
(* by a second join, by the end of the socket.  A connection is            *)
(*                                                                         *)
(*   creating   while audio_chunk awaits createDeepgramSocket              *)
(*   opening    returned to the handler, its 'open' event yet to come      *)
(*   open                                                                  *)
(*   closing    told to close; results under way may still arrive          *)
(*   closed     by either side, or never made                              *)
(***************************************************************************)
EXTENDS Naturals, FiniteSets

CONSTANTS
  MaxJoins,      \* bound on the join messages; each makes a context
  Connections,   \* Deepgram connections that may be made
  Chunks,        \* chunks of audio that may be sent
  None           \* no context, no connection, no chunk

Join == 1 .. MaxJoins
State == {"creating", "opening", "open", "closing", "closed"}

\* A connection, made for a context and the chunk that came under it, and a chunk.
Made == [join : Join, chunk : Chunks, state : State]
Sent == [join : Join, at : Connections \cup {"waiting", "lost"}]

ASSUME VoiceConstants ==
  /\ MaxJoins \in Nat
  /\ None \notin Join /\ None \notin Connections
  /\ None \notin Made /\ None \notin Sent
  /\ Connections \cap {"waiting", "lost"} = {}

VARIABLES
  client,     \* readyState of the socket: "open", "closing" or "gone"
  checked,    \* has handleConnection come to its end?
  joins,      \* joins so far: contexts 1 .. joins exist
  current,    \* the context in socketContextMap, or None
  held,       \* held[j]: deepgramSocket of context j, or None
  conn,       \* conn[s]: connection s with the context it was made for, or None
  chunk,      \* chunk[c]: the context c came under and what became of it, or None
  words,      \* history: <<c, j>>, words heard in chunk c were taken for join j's
  hasty       \* history: chunks whose connection the client did not wait for

vars == <<client, checked, joins, current, held, conn, chunk, words, hasty>>

Init ==
  /\ client = "open" /\ checked = FALSE
  /\ joins = 0 /\ current = None
  /\ held = [j \in Join |-> None]
  /\ conn = [s \in Connections |-> None]
  /\ chunk = [c \in Chunks |-> None]
  /\ words = {} /\ hasty = {}

-----------------------------------------------------------------------------
Is(s, state) == conn[s] # None /\ conn[s].state = state

Become(s, state) == conn' = [conn EXCEPT ![s].state = state]

\* Messages are handled until the socket is gone, also before handleConnection
\* has checked the token and while the refused socket is closing.
Listening == client # "gone"

\* handleConnection finds the token good, or closes the socket with 1008.
Authenticate(ok) ==
  /\ Listening /\ ~checked
  /\ checked' = TRUE
  /\ client' = IF ok THEN client ELSE "closing"
  /\ UNCHANGED <<joins, current, held, conn, chunk, words, hasty>>

\* handleJoin: a new context replaces the one in the map, whatever that held.
HandleJoin ==
  /\ Listening /\ joins < MaxJoins
  /\ joins' = joins + 1
  /\ current' = joins + 1
  /\ UNCHANGED <<client, checked, held, conn, chunk, words, hasty>>

\* sendMedia throws, or not, before the 'open' event; it does after the end.
SentTo(s, state) ==
  IF state = "open" THEN {s} ELSE IF state = "opening" THEN {s, "lost"} ELSE {"lost"}

\* Faulty: audio is accepted before a join.
ChunkBeforeJoin(c, s) ==
  /\ Listening /\ chunk[c] = None
  /\ current = None \/ held[current] = None
  /\ conn[s] = None
  /\ chunk' = [chunk EXCEPT ![c] = [join |-> current, at |-> "waiting"]]
  /\ conn' = [conn EXCEPT ![s] = [join |-> current, chunk |-> c, state |-> "creating"]]
  /\ UNCHANGED <<client, checked, joins, current, held, words, hasty>>

\* The chunks of the client's context that are waiting for a connection.
Waiting == {conn[s].chunk : s \in {t \in Connections : Is(t, "creating") /\ conn[t].join = current}}

\* handleAudioChunk without a connection in its context: it awaits a new one,
\* also when others of the context do already.
ChunkConnects(c, s) ==
  /\ Listening /\ chunk[c] = None
  /\ current # None /\ held[current] = None
  /\ conn[s] = None
  /\ chunk' = [chunk EXCEPT ![c] = [join |-> current, at |-> "waiting"]]
  /\ conn' = [conn EXCEPT ![s] = [join |-> current, chunk |-> c, state |-> "creating"]]
  /\ hasty' = IF Waiting = {} THEN hasty ELSE hasty \cup Waiting \cup {c}
  /\ UNCHANGED <<client, checked, joins, current, held, words>>

\* handleAudioChunk with one, be it open or not.
ChunkSends(c) ==
  /\ Listening /\ chunk[c] = None
  /\ current # None /\ held[current] # None
  /\ \E to \in SentTo(held[current], conn[held[current]].state) :
       chunk' = [chunk EXCEPT ![c] = [join |-> current, at |-> to]]
  /\ UNCHANGED <<client, checked, joins, current, held, conn, words, hasty>>

\* The await of handleAudioChunk ends: the connection is put into the context the
\* chunk came under, over one that another chunk has put there meanwhile, and
\* also when the context is no longer the client's.
Created(s) ==
  /\ Is(s, "creating")
  /\ Become(s, "opening")
  /\ held' = [held EXCEPT ![conn[s].join] = s]
  /\ \E to \in SentTo(s, "opening") : chunk' = [chunk EXCEPT ![conn[s].chunk].at = to]
  /\ UNCHANGED <<client, checked, joins, current, words, hasty>>

NotCreated(s) ==
  /\ Is(s, "creating")
  /\ Become(s, "closed")
  /\ chunk' = [chunk EXCEPT ![conn[s].chunk].at = "lost"]
  /\ UNCHANGED <<client, checked, joins, current, held, words, hasty>>

Opened(s) ==
  /\ Is(s, "opening")
  /\ Become(s, "open")
  /\ UNCHANGED <<client, checked, joins, current, held, chunk, words, hasty>>

\* The SDK's socket has lost its connection and makes it anew.
Reopening(s) ==
  /\ Is(s, "open")
  /\ Become(s, "opening")
  /\ UNCHANGED <<client, checked, joins, current, held, chunk, words, hasty>>

\* Deepgram or the network ends it; the 'close' event is only logged, and the
\* context keeps the connection.
Closed(s) ==
  /\ Is(s, "opening") \/ Is(s, "open") \/ Is(s, "closing")
  /\ Become(s, "closed")
  /\ UNCHANGED <<client, checked, joins, current, held, chunk, words, hasty>>

\* Faulty: the connection is forgotten without being closed.
ForgetStream ==
  /\ Listening /\ current # None /\ held[current] # None
  /\ held' = [held EXCEPT ![current] = None]
  /\ UNCHANGED <<client, checked, joins, current, conn, chunk, words, hasty>>

\* After close(): the connection is closing, unless it has closed before.
ToldToClose(s) ==
  [conn EXCEPT ![s].state = IF @ = "closed" THEN @ ELSE "closing"]

\* handleEndStream: without a connection it returns, also while one is being made.
EndStream ==
  /\ Listening /\ current # None /\ held[current] # None
  /\ conn' = ToldToClose(held[current])
  /\ held' = [held EXCEPT ![current] = None]
  /\ UNCHANGED <<client, checked, joins, current, chunk, words, hasty>>

\* sendFinalize throws on a connection that is not open, and the rest of
\* handleEndStream is skipped.
EndStreamThrows ==
  /\ Listening /\ current # None /\ held[current] # None
  /\ conn[held[current]].state # "open"
  /\ UNCHANGED vars

\* Faulty: the words are taken for the join of the moment.
HeardNow(s) ==
  /\ Is(s, "open") \/ Is(s, "closing")
  /\ current # None
  /\ \E c \in Chunks :
       /\ chunk[c] # None /\ chunk[c].at = s
       /\ words' = words \cup {<<c, current>>}
  /\ UNCHANGED <<client, checked, joins, current, held, conn, chunk, hasty>>

\* The 'message' listener: a final transcript of audio that was sent goes to
\* processMessage as the words of the context the connection was made for, also
\* when the client has joined again or is gone.
Heard(s) ==
  /\ Is(s, "open") \/ Is(s, "closing")
  /\ \E c \in Chunks :
       /\ chunk[c] # None /\ chunk[c].at = s
       /\ words' = words \cup {<<c, conn[s].join>>}
  /\ UNCHANGED <<client, checked, joins, current, held, conn, chunk, hasty>>

\* handleDisconnect: what the context in the map holds is closed.
HandleDisconnect ==
  /\ Listening
  /\ client' = "gone"
  /\ conn' = IF current # None /\ held[current] # None THEN ToldToClose(held[current]) ELSE conn
  /\ current' = None
  /\ hasty' = hasty \cup Waiting
  /\ UNCHANGED <<checked, joins, held, chunk, words>>

-----------------------------------------------------------------------------
Next ==
  \/ \E ok \in BOOLEAN : Authenticate(ok)
  \/ HandleJoin \/ EndStream \/ EndStreamThrows \/ HandleDisconnect
  \/ \E c \in Chunks : ChunkSends(c) \/ \E s \in Connections : ChunkConnects(c, s)
  \/ \E s \in Connections :
        Created(s) \/ NotCreated(s) \/ Opened(s) \/ Reopening(s) \/ Closed(s) \/ Heard(s)

Spec == Init /\ [][Next]_vars

-----------------------------------------------------------------------------
\* Contexts, connections and chunks refer to what has been made before them.
TypeOK ==
  /\ client \in {"open", "closing", "gone"} /\ checked \in BOOLEAN
  /\ joins \in 0 .. MaxJoins
  /\ current \in 1 .. joins \cup {None}
  /\ held \in [Join -> Connections \cup {None}]
  /\ conn \in [Connections -> Made \cup {None}]
  /\ chunk \in [Chunks -> Sent \cup {None}]
  /\ words \subseteq Chunks \X Join /\ hasty \subseteq Chunks

\* handleAudioChunk, the 'message' listener: what is said after one join is never
\* taken for the answer of another profile, although the connection is awaited
\* between the look at the map and the sending, and transcripts come late.
WordsStayInTheirJoin ==
  \A w \in words : chunk[w[1]] # None /\ chunk[w[1]].join = w[2]

Live == {s \in Connections : Is(s, "creating") \/ Is(s, "opening") \/ Is(s, "open")}

\* end_stream and the end of the socket close s, or will when it is made.
Reached(s) ==
  conn[s].join = current /\ (held[current] = s \/ Is(s, "creating"))

\* "Lazily initialise the Deepgram connection per utterance": however fast audio
\* comes, a context has one connection that the gateway can still close.  One
\* more, or one out of its reach, was made for a chunk that another had not waited
\* for or that the client had not waited for when it left, or belongs to a context
\* that a later join has replaced.
OneConnection ==
  \A s \in Live : conn[s].chunk \notin hasty =>
    /\ \A t \in Live : conn[t].join = conn[s].join /\ conn[t].chunk \notin hasty => t = s
    /\ conn[s].join = joins => Reached(s)
=============================================================================
