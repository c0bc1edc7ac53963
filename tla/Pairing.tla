------------------------------- MODULE Pairing -------------------------------
(***************************************************************************)
(* What a relay reads off the messages it carries: internal/shim           *)
(* (pumpRequests, decide, pumpResponses, noteResponse) and internal/mcp.   *)
(*                                                                         *)
(* Two goroutines share a few fields under one mutex: the calls in flight  *)
(* by their JSON-RPC id, and the protocol version as the two handshakes    *)
(* settle it.  The client may send ahead of the answers, reuse an id among *)
(* its calls, or send what cannot be read; the server may answer in any    *)
(* order.  How a call is decided is CallGate's; here it is allowed or not. *)
(***************************************************************************)
EXTENDS Naturals, Sequences, FiniteSets

CONSTANTS
    Ids,       \* JSON-RPC ids
    Versions,  \* protocol versions, in their order; 0 is none
    Since,     \* the first one whose results carry a resultType
    MaxSent,   \* bound: frames the client sends
    None

ASSUME PairingAssumption ==
    /\ Versions \subseteq Nat \ {0} /\ Since \in Nat
    /\ MaxSent \in Nat
    /\ None \notin Ids

VARIABLES
    frames,        \* what the client has sent
    reading,       \* the frame pumpRequests is at
    deciding,      \* and what it is doing with it
    dialect,       \* the refusal it has built: does its result carry a type?
    inFlight,      \* by id, the call waiting for its response
    initializeKey, \* the id of the initialize request in flight
    discoverKey,   \* that of server/discover
    proposed,      \* and the version it proposed
    protocolVersion,
    responding,    \* the response pumpResponses has noted and not yet written
    fate,          \* ghost: what became of each frame
    answer,        \* ghost: the server's answer to each
    outcome,       \* the call.outcome reported for each
    duplicates,    \* the ids a duplicate_id anomaly was reported for
    settled        \* ghost: the version the client takes the session to have

vars == <<frames, reading, deciding, dialect, inFlight, initializeKey, discoverKey, proposed,
          protocolVersion, responding, fate, answer, outcome, duplicates, settled>>

Handshakes == {"initialize", "discover"}

\* a call that names its tool readably or not
Calls      == {"call", "unreadable call"}

\* batches with a call, without, and with an element that cannot be read
Batches    == {"batch", "batch with call", "unreadable batch"}

\* "unreadable" is a frame that is not one JSON value, or names a key twice
Frames     == Calls \cup Handshakes \cup Batches \cup {"other", "unreadable"}

\* what a server might execute a tool for
Dangerous  == Calls \cup {"batch with call", "unreadable batch", "unreadable"}

Sent == 1..Len(frames)
Frame == [kind : Frames, id : Ids \cup {None}, version : Versions \cup {0}, calm : BOOLEAN]

Reply == [of : Nat, version : Versions \cup {0}, ok : BOOLEAN]
NoReply == [of |-> 0, version |-> 0, ok |-> FALSE]

PairingTypeOK ==
    /\ frames \in Seq(Frame)
    /\ reading \in Nat
    /\ deciding \in {"read", "ask", "refuse"}
    /\ dialect \in BOOLEAN
    /\ inFlight \in [Ids -> Nat]
    /\ {initializeKey, discoverKey} \subseteq Ids \cup {None}
    /\ {proposed, protocolVersion, settled} \subseteq Versions \cup {0}
    /\ responding \in Reply
    /\ fate \in [1..MaxSent -> {"sent", "dropped", "forwarded", "refused", "refused typed"}]
    /\ answer \in [1..MaxSent -> {"none", "ok", "failed"}]
    /\ outcome \in [1..MaxSent -> {"none", "ok", "failed"}]
    /\ duplicates \subseteq Ids

PairingInit ==
    /\ frames = <<>>
    /\ reading = 1
    /\ deciding = "read"
    /\ dialect = FALSE
    /\ inFlight = [i \in Ids |-> 0]
    /\ initializeKey = None /\ discoverKey = None
    /\ proposed = 0 /\ protocolVersion = 0 /\ settled = 0
    /\ responding = NoReply
    /\ fate = [n \in 1..MaxSent |-> "sent"]
    /\ answer = [n \in 1..MaxSent |-> "none"]
    /\ outcome = [n \in 1..MaxSent |-> "none"]
    /\ duplicates = {}

shared == <<inFlight, initializeKey, discoverKey, proposed, protocolVersion>>

-----------------------------------------------------------------------------
(* The client *)

\* requests the client has no answer to yet
Open(n) == frames[n].id # None /\ fate[n] \in {"sent", "forwarded"}
             /\ (answer[n] = "none" \/ responding.of = n)

Shaking == \E n \in Sent : Open(n) /\ frames[n].kind \in Handshakes

\* A client reuses an id that is in use only among its calls, has one handshake
\* of a kind in flight, and a handshake has an id.
MaySend(f) ==
    /\ f.kind \in Handshakes => f.id # None /\ f.version # 0
    /\ f.kind \notin Handshakes => f.version = 0
    /\ f.kind \in Calls \cup Handshakes \cup {"other"} \/ f.id = None
    /\ \A n \in Sent : Open(n) =>
         /\ f.id # None /\ f.id = frames[n].id => {f.kind, frames[n].kind} \subseteq Calls
         /\ ~(f.kind = frames[n].kind /\ f.kind \in Handshakes)

ClientSends(kind, id, version) ==
    LET f == [kind |-> kind, id |-> id, version |-> version, calm |-> ~Shaking] IN
    /\ Len(frames) < MaxSent /\ MaySend(f)
    /\ frames' = Append(frames, f)
    /\ UNCHANGED <<reading, deciding, dialect, shared, responding, fate, answer, outcome,
                   duplicates, settled>>

-----------------------------------------------------------------------------
(* pumpRequests *)

this == frames[reading]

Reads(kinds) ==
    /\ deciding = "read" /\ reading \in Sent
    /\ this.kind \in kinds

\* on to the next frame
Becomes(what) ==
    /\ fate' = [fate EXCEPT ![reading] = what]
    /\ reading' = reading + 1
    /\ deciding' = "read"

\* a frame Holdcall could not read, and a batch it could not read
Drops ==
    /\ Reads({"unreadable", "unreadable batch"})
    /\ Becomes("dropped")
    /\ UNCHANGED <<frames, dialect, shared, responding, answer, outcome, duplicates, settled>>

\* a batch that carries a call is answered whole, in JSON-RPC's own terms
RefusesBatch ==
    /\ Reads({"batch with call"})
    /\ Becomes("refused")
    /\ UNCHANGED <<frames, dialect, shared, responding, answer, outcome, duplicates, settled>>

\* Mutant: a batch is relayed as it came, like any message that is not a call.
Passes_Batches ==
    /\ Reads({"other", "batch", "batch with call"})
    /\ Becomes("forwarded")
    /\ UNCHANGED <<frames, dialect, shared, responding, answer, outcome, duplicates, settled>>

Passes ==
    /\ Reads({"other", "batch"})
    /\ Becomes("forwarded")
    /\ UNCHANGED <<frames, dialect, shared, responding, answer, outcome, duplicates, settled>>

WatchesInitialize ==
    /\ Reads({"initialize"})
    /\ initializeKey' = this.id
    /\ Becomes("forwarded")
    /\ UNCHANGED <<frames, dialect, inFlight, discoverKey, proposed, protocolVersion,
                   responding, answer, outcome, duplicates, settled>>

WatchesDiscover ==
    /\ Reads({"discover"})
    /\ discoverKey' = this.id /\ proposed' = this.version
    /\ Becomes("forwarded")
    /\ UNCHANGED <<frames, dialect, inFlight, initializeKey, protocolVersion,
                   responding, answer, outcome, duplicates, settled>>

ResultsCarryType(version) == version >= Since

\* DenyResponse, in the dialect of the version known so far; a call without an
\* id is told nothing
Refuses ==
    /\ deciding' = "refuse"
    /\ dialect' = ResultsCarryType(protocolVersion)
    /\ UNCHANGED <<reading, fate>>

RefusesUnreadable ==
    /\ Reads({"unreadable call"})
    /\ IF this.id = None THEN Becomes("dropped") /\ UNCHANGED dialect ELSE Refuses
    /\ UNCHANGED <<frames, shared, responding, answer, outcome, duplicates, settled>>

\* Mutant: a call counts as in flight from the question on, allowed or not.
Asks_InFlight ==
    /\ Reads({"call"})
    /\ deciding' = "ask"
    /\ duplicates' = IF this.id # None /\ inFlight[this.id] # 0
                     THEN duplicates \cup {this.id} ELSE duplicates
    /\ inFlight' = IF this.id # None THEN [inFlight EXCEPT ![this.id] = reading] ELSE inFlight
    /\ UNCHANGED <<frames, reading, dialect, initializeKey, discoverKey, proposed,
                   protocolVersion, responding, fate, answer, outcome, settled>>

\* decide, up to the question
Asks ==
    /\ Reads({"call"})
    /\ deciding' = "ask"
    /\ duplicates' = IF this.id # None /\ inFlight[this.id] # 0
                     THEN duplicates \cup {this.id} ELSE duplicates
    /\ UNCHANGED <<frames, reading, dialect, shared, responding, fate, answer, outcome, settled>>

\* The verdict allows it: in flight only now, and then written.  No response can
\* come in between, unless one to an earlier call of the same id.
Allowed ==
    /\ deciding = "ask"
    /\ inFlight' = IF this.id # None THEN [inFlight EXCEPT ![this.id] = reading] ELSE inFlight
    /\ Becomes("forwarded")
    /\ UNCHANGED <<frames, dialect, initializeKey, discoverKey, proposed, protocolVersion,
                   responding, answer, outcome, duplicates, settled>>

Denied ==
    /\ deciding = "ask"
    /\ IF this.id = None THEN Becomes("dropped") /\ UNCHANGED dialect ELSE Refuses
    /\ UNCHANGED <<frames, shared, responding, answer, outcome, duplicates, settled>>

TellsClient ==
    /\ deciding = "refuse"
    /\ Becomes(IF dialect THEN "refused typed" ELSE "refused")
    /\ UNCHANGED <<frames, dialect, shared, responding, answer, outcome, duplicates, settled>>

-----------------------------------------------------------------------------
(* pumpResponses *)

Newest(vs) == CHOOSE v \in vs : \A w \in vs : w <= v

\* Mutant: a server that answers at all has taken the proposed version.
Negotiated_Proposed(p, supported) == IF supported # {} THEN p ELSE 0

\* NegotiatedVersion: the proposed version if listed, else the newest older one
Negotiated(p, supported) ==
    LET older == {v \in supported : v < p} IN
    IF p \in supported THEN p ELSE IF older # {} THEN Newest(older) ELSE 0

\* noteResponse, under the mutex: the response to frame n, which fails or not,
\* names a version or lists supported ones
Notes(n, ok, version, supported) ==
    LET key == frames[n].id
        call == inFlight[key]
        found == Negotiated(proposed, supported)
    IN
    /\ protocolVersion' =
         IF key = discoverKey /\ found # 0 THEN found
         ELSE IF key = initializeKey THEN version
         ELSE protocolVersion
    /\ initializeKey' = IF key = initializeKey THEN None ELSE initializeKey
    /\ discoverKey' = IF key = discoverKey THEN None ELSE discoverKey
    /\ proposed' = IF key = discoverKey THEN 0 ELSE proposed
    /\ inFlight' = [inFlight EXCEPT ![key] = 0]
    /\ outcome' = IF call = 0 THEN outcome
                  ELSE [outcome EXCEPT ![call] = IF ok THEN "ok" ELSE "failed"]

\* What a client makes of the same answer: the newest version it knows among
\* those listed, the version initialize names, or none.
Understands(n, version, supported) ==
    CASE frames[n].kind = "initialize" -> version
      [] frames[n].kind = "discover" ->
           LET known == {v \in supported : v <= frames[n].version} IN
           IF known = {} THEN settled ELSE Newest(known)
      [] OTHER -> settled

\* the server answers a request it was sent, a handshake in full, and the
\* response is read and noted
Responds(n, ok, version, supported) ==
    /\ responding = NoReply
    /\ n \in Sent /\ frames[n].id # None /\ fate[n] = "forwarded" /\ answer[n] = "none"
    /\ frames[n].kind = "initialize" \/ version = 0
    /\ frames[n].kind = "discover" \/ supported = {}
    /\ ok \/ (version = 0 /\ supported = {})
    /\ answer' = [answer EXCEPT ![n] = IF ok THEN "ok" ELSE "failed"]
    /\ Notes(n, ok, version, supported)
    /\ responding' = [of |-> n, version |-> Understands(n, version, supported), ok |-> ok]
    /\ UNCHANGED <<frames, reading, deciding, dialect, fate, duplicates, settled>>

\* and then written
Relays ==
    /\ responding # NoReply
    /\ settled' = responding.version
    /\ responding' = NoReply
    /\ UNCHANGED <<frames, reading, deciding, dialect, shared, fate, answer, outcome, duplicates>>

-----------------------------------------------------------------------------
PumpRequests ==
    \/ Drops \/ RefusesBatch \/ Passes \/ WatchesInitialize \/ WatchesDiscover
    \/ RefusesUnreadable \/ Asks \/ Allowed \/ Denied \/ TellsClient

PumpResponses ==
    \/ \E n \in 1..MaxSent, ok \in BOOLEAN, v \in Versions \cup {0}, s \in SUBSET Versions :
         Responds(n, ok, v, s)
    \/ Relays

PairingNext ==
    \/ \E kind \in Frames, id \in Ids \cup {None}, v \in Versions \cup {0} : ClientSends(kind, id, v)
    \/ PumpRequests
    \/ PumpResponses

PairingSpec == PairingInit /\ [][PairingNext]_vars

-----------------------------------------------------------------------------
(* Properties *)

\* What the journal is told of a call is what the server answered to that call,
\* once and whatever came first, unless the relay has reported that its id was
\* used by two calls at once (decide, noteResponse).
OutcomeIsOwn ==
    \A n \in Sent :
        frames[n].kind = "call" /\ frames[n].id \notin duplicates \cup {None} =>
            outcome[n] = answer[n]

\* A refusal is written as the client will read it: in the dialect of the version
\* it takes the session to have (DenyResponse, F-021), if it was not still waiting
\* for a handshake when it sent the call.
DialectIsNegotiated ==
    [][\A n \in Sent :
         frames[n].kind \in Calls /\ frames[n].calm /\ fate[n] = "sent" =>
            /\ fate'[n] = "refused" => ~ResultsCarryType(settled)
            /\ fate'[n] = "refused typed" => ResultsCarryType(settled)]_vars

\* Nothing a server might run a tool for goes past the decision, in whatever
\* frame it arrives; what is refused is not forwarded later.
NothingUndecidedPasses ==
    [][\A n \in Sent :
         /\ fate'[n] = "forwarded" /\ fate[n] # "forwarded" /\ frames[n].kind \in Dangerous =>
              frames[n].kind = "call" /\ reading = n /\ deciding = "ask"
         /\ fate[n] # "sent" => fate'[n] = fate[n]]_vars
=============================================================================
