----------------------- MODULE WebKitGtkRequestsProofs -----------------------
(***************************************************************************)
(* Proofs about WebKitGtkRequests, for every value of its constants: the   *)
(* registries of the adapter and of the host together implement            *)
(* BrowserDecision, a download is quarantined as it came in, and an upload *)
(* selects its file in the chooser it should.                              *)
(*                                                                         *)
(* The first argument follows the one decision a call may have under way.  *)
(* Of all requests and replies between host and adapter at most one is     *)
(* `fresh', and it is that of the call (FreshInv); a positive reply is     *)
(* written only where the token was still held, and no later decision      *)
(* finds it held, so a fresh positive reply says that the engine's one     *)
(* answer to the token is the call's decision.                             *)
(*                                                                         *)
(* The second follows a download: its end is the last that is announced of *)
(* it, so when the host takes it for completed nothing of it is on the way *)
(* any more, and while no other has its name nobody writes its file        *)
(* (DownloadInv).  The third follows an upload's click, which is in one    *)
(* place at a time, and its decision, which goes to one chooser heard of   *)
(* after the upload was made (UploadInv).                                  *)
(***************************************************************************)
EXTENDS WebKitGtkRequests, SequenceTheorems, FiniteSetTheorems, TLAPS

-----------------------------------------------------------------------------
(* Types.                                                                   *)

DecisionOrNone == Decision \union {Undecided}
RequestType ==
  [op : {"click", "name", "decide"}, token : 0..MaxRequests,
   decision : DecisionOrNone, fresh : BOOLEAN]
EventType == [kind : {"raised", "finished", "failed"}, token : Tokens]
ReplyType == [kind : {"reply"}, ok : BOOLEAN, fresh : BOOLEAN]
Message == EventType \union ReplyType
EvaluationType == [request : RequestType, ran : BOOLEAN]
RaisedType ==
  [kind : Kinds, held : BOOLEAN, cause : 0..MaxUploads, answers : Seq(Decision),
   name : Names \union {None},
   stage : {"none", "started", "writing", "finished", "failed"}]
Content == [of : 0..MaxRequests, whole : BOOLEAN]
RecordType ==
  [status : {"absent", "pending", "resolved", "completed", "failed", "quarantined"},
   decision : DecisionOrNone, since : 0..MaxUploads]
CallType ==
  [op : {"none", "permission", "upload", "download", "await"},
   stage : {"none", "click", "chooser", "decide", "name", "transfer", "store", "drain"},
   token : 0..MaxRequests, decision : DecisionOrNone, known : SUBSET Tokens,
   payload : Content]

AdapterTypes ==
  /\ inbox \in Seq(RequestType) /\ evaluations \in Seq(EvaluationType)
  /\ wire \in Seq(Message)
  /\ requests \in Seq(RaisedType) /\ Len(requests) <= MaxRequests
  /\ clicks \subseteq 1..MaxUploads /\ files \in [Names -> Content]

HostTypes ==
  /\ records \in [Tokens -> RecordType] /\ artifacts \in [Names -> Content]
  /\ call \in CallType /\ uploads \in 0..MaxUploads /\ timeouts \in 0..MaxTimeouts

TypeInv == AdapterTypes /\ HostTypes

-----------------------------------------------------------------------------
(* The inductive invariant.                                                 *)

\* A token is held until it is decided, and decided once; only that of a
\* download is about a transfer.
Settled ==
  \A t \in Issued :
    /\ IF requests[t].held THEN requests[t].answers = <<>>
       ELSE \E d \in Decision : requests[t].answers = <<d>>
    /\ requests[t].stage # "none" => requests[t].kind = "download"

\* A decision on its way is about a token, a click on its way for an upload.
WellFormed(r) ==
  /\ r.op = "decide" => r.token \in Issued /\ r.decision \in Decision
  /\ r.op = "click" => r.decision \in Decision /\ r.decision.upload \in 1..MaxUploads

RequestsInv ==
  /\ \A i \in DOMAIN inbox : WellFormed(inbox[i])
  /\ \A i \in DOMAIN evaluations :
       WellFormed(evaluations[i].request) /\ evaluations[i].request.op # "decide"

\* A request is announced once, and unless it is a download it has no record
\* before the host takes the announcement; downloads alone end.
Announced ==
  /\ \A i \in DOMAIN wire :
       wire[i].kind = "raised" =>
         /\ wire[i].token \in Issued
         /\ requests[wire[i].token].kind # "download" => records[wire[i].token] = Unknown
  /\ \A i, j \in DOMAIN wire :
       /\ wire[i].kind = "raised" /\ wire[j].kind = "raised"
       /\ wire[i].token = wire[j].token
       => i = j
  /\ \A i \in DOMAIN wire :
       wire[i].kind \in {"finished", "failed"} =>
         wire[i].token \in Issued /\ requests[wire[i].token].kind = "download"

\* What the host has recorded as decided was applied.
RecordsInv ==
  /\ \A t \in Tokens \ Issued : records[t] = Unknown
  /\ \A t \in Issued : records[t].decision # Undecided =>
       /\ requests[t].answers = <<records[t].decision>>
       /\ records[t].status = "resolved" /\ requests[t].kind # "download"

\* The requests and replies that the host would still take for its own.
WantedIn == {i \in DOMAIN inbox : inbox[i].fresh}
WantedRun == {i \in DOMAIN evaluations : evaluations[i].request.fresh}
WantedOut == {i \in DOMAIN wire : wire[i].kind = "reply" /\ wire[i].fresh}

\* There is at most one of them, in one of the three places.
AtMostOne ==
  /\ \A i, j \in WantedIn : i = j
  /\ \A i, j \in WantedRun : i = j
  /\ \A i, j \in WantedOut : i = j
  /\ WantedIn = {} \/ WantedRun = {}
  /\ WantedIn = {} \/ WantedOut = {}
  /\ WantedRun = {} \/ WantedOut = {}

NoneWanted == WantedIn = {} /\ WantedRun = {} /\ WantedOut = {}

\* And it is the request, or the reply to the request, of the call.
Sought(r) ==
  /\ r.op = call.stage
  /\ r.op = "decide" => r.token = call.token /\ r.decision = call.decision

FreshInv ==
  /\ AtMostOne
  /\ ~InRequest => NoneWanted
  /\ \A i \in WantedIn : Sought(inbox[i])
  /\ \A i \in WantedRun : Sought(evaluations[i].request)
  /\ \A i \in WantedOut :
       call.stage = "decide" /\ wire[i].ok =>
         requests[call.token].answers = <<call.decision>>

\* What a call knows of the token it is about.
CallInv ==
  /\ call.stage = "decide" =>
       /\ call.token \in Issued /\ call.decision \in Decision
       /\ requests[call.token].kind # "download"
       /\ records[call.token] # Unknown /\ records[call.token].decision = Undecided
  /\ call.stage \in {"click", "chooser"} =>
       /\ call.op = "upload" /\ call.decision \in Decision
       /\ \A t \in Issued :
            requests[t].kind = "chooser" /\ records[t].decision # Undecided =>
              t \in call.known
  /\ call.stage \in {"transfer", "store"} =>
       call.token \in Issued /\ requests[call.token].kind = "download"

Inv ==
  TypeInv /\ Settled /\ RequestsInv /\ Announced /\ RecordsInv /\ FreshInv /\ CallInv

-----------------------------------------------------------------------------
(* Sequences.                                                               *)

LEMMA Appended ==
  ASSUME NEW S, NEW s \in Seq(S), NEW e \in S
  PROVE  LET n == Len(s) + 1
         IN  /\ Append(s, e) \in Seq(S) /\ Len(Append(s, e)) = n
             /\ n \in Nat /\ n \notin DOMAIN s /\ DOMAIN s = 1..Len(s)
             /\ DOMAIN Append(s, e) = DOMAIN s \union {n}
             /\ \A i \in DOMAIN s : Append(s, e)[i] = s[i]
             /\ Append(s, e)[n] = e
<1>1. Len(s) \in Nat /\ DOMAIN s = 1..Len(s)
  BY LenProperties
<1>2. Append(s, e) \in Seq(S) /\ Len(Append(s, e)) = Len(s) + 1
      /\ (\A i \in 1..Len(s) : Append(s, e)[i] = s[i])
      /\ Append(s, e)[Len(s) + 1] = e
  BY AppendProperties
<1>3. DOMAIN Append(s, e) = 1..(Len(s) + 1)
  BY <1>2, LenProperties
<1> QED BY <1>1, <1>2, <1>3

LEMMA Taken ==
  ASSUME NEW S, NEW s \in Seq(S), s # <<>>
  PROVE  /\ Tail(s) \in Seq(S) /\ 1 \in DOMAIN s /\ s[1] \in S /\ Head(s) = s[1]
         /\ DOMAIN s \subseteq Nat \ {0}
         /\ \A i \in DOMAIN Tail(s) : i + 1 \in DOMAIN s /\ i + 1 # 1
                                      /\ Tail(s)[i] = s[i + 1]
<1>1. Len(s) \in Nat \ {0} /\ DOMAIN s = 1..Len(s)
  BY LenProperties, EmptySeq
<1>2. Tail(s) \in Seq(S) /\ Len(Tail(s)) = Len(s) - 1
      /\ \A i \in 1..Len(Tail(s)) : Tail(s)[i] = s[i + 1]
  BY HeadTailProperties
<1>3. DOMAIN Tail(s) = 1..(Len(s) - 1)
  BY <1>2, LenProperties
<1>4. Head(s) = s[1] /\ s[1] \in S
  BY <1>1, ElementOfSeq
<1> QED BY <1>1, <1>2, <1>3, <1>4

\* A sequence keeps its type and domain when its elements are replaced.
LEMMA Mapped ==
  ASSUME NEW S, NEW s \in Seq(S), NEW t, DOMAIN t = DOMAIN s, t = [i \in DOMAIN t |-> t[i]],
         \A i \in DOMAIN t : t[i] \in S
  PROVE  t \in Seq(S)
<1>1. DOMAIN s = 1..Len(s) /\ Len(s) \in Nat
  BY LenProperties
<1> QED BY <1>1

LEMMA EmitsOne ==
  ASSUME wire \in Seq(Message), NEW m \in Message, Emit(<<m>>)
  PROVE  wire' = Append(wire, m)
BY AppendIsConcat DEF Emit

LEMMA EmitsTwo ==
  ASSUME wire \in Seq(Message), NEW m \in Message, NEW n \in Message, Emit(<<m, n>>)
  PROVE  wire' = Append(Append(wire, m), n)
<1>1. <<m>> \in Seq(Message) /\ <<n>> \in Seq(Message)
  OBVIOUS
<1>2. Append(wire, m) \in Seq(Message) /\ Append(wire, m) = wire \o <<m>>
  BY AppendProperties, AppendIsConcat
<1>3. Append(Append(wire, m), n) = (wire \o <<m>>) \o <<n>>
  BY <1>2, AppendIsConcat
<1>4. (wire \o <<m>>) \o <<n>> = wire \o (<<m>> \o <<n>>)
  BY <1>1, ConcatAssociative
<1>5. <<m>> \o <<n>> = <<m, n>>
  <2>1. <<m, n>> \in Seq(Message) /\ Len(<<m, n>>) = 2
    OBVIOUS
  <2>2. /\ <<m>> \o <<n>> \in Seq(Message) /\ Len(<<m>> \o <<n>>) = 2
        /\ (<<m>> \o <<n>>)[1] = m /\ (<<m>> \o <<n>>)[2] = n
    BY <1>1, ConcatProperties
  <2>3. \A i \in 1..2 : (<<m>> \o <<n>>)[i] = <<m, n>>[i]
    BY <2>2
  <2> DEFINE s == <<m>> \o <<n>>
             t == <<m, n>>
  <2>4. /\ s \in Seq(Message) /\ t \in Seq(Message) /\ Len(s) = Len(t) /\ Len(s) = 2
        /\ \A i \in 1..2 : s[i] = t[i]
    BY <2>1, <2>2, <2>3
  <2> HIDE DEF s, t
  <2>5. s = t
    BY <2>4, SeqEqual
  <2> QED BY <2>5 DEF s, t
<1> QED BY <1>3, <1>4, <1>5 DEF Emit

\* Every set of numbers has a least one: the sets of the numbers below each
\* are finite, and finite sets are well-founded under inclusion.
LEMMA Least ==
  ASSUME NEW T \in SUBSET Nat, T # {}
  PROVE  \E x \in T : \A y \in T : x <= y
<1> DEFINE Below(n) == {k \in Nat : k < n}
           Sets == {Below(n) : n \in T}
           R == StrictSubsetOrdering(Nat)
<1>1. \A n \in Nat : IsFiniteSet(Below(n))
  <2> SUFFICES ASSUME NEW n \in Nat PROVE IsFiniteSet(Below(n))
    OBVIOUS
  <2>1. \A s \in Below(n) : s <= n
    OBVIOUS
  <2>2. Below(n) \in SUBSET Nat
    OBVIOUS
  <2> HIDE DEF Below
  <2> QED BY <2>1, <2>2, FS_BoundedSetOfNaturals
<1>2. Sets \subseteq FiniteSubsetsOf(Nat) /\ Sets # {}
  BY <1>1 DEF FiniteSubsetsOf
<1>3. PICK s \in Sets : \A t \in Sets : ~(<<t, s>> \in R)
  <2> HIDE DEF Sets, R
  <2>1. IsWellFoundedOn(R, FiniteSubsetsOf(Nat))
    BY FS_StrictSubsetOrderingWellFounded DEF R
  <2> QED BY <1>2, <2>1, WFMin
<1>4. PICK x \in T : s = Below(x)
  OBVIOUS
<1>5. ASSUME NEW y \in T, y < x PROVE FALSE
  <2>1. Below(y) \subseteq Below(x) /\ y \in Below(x) /\ y \notin Below(y)
    BY <1>5
  <2>2. <<Below(y), Below(x)>> \in R
    BY <2>1 DEF StrictSubsetOrdering
  <2> QED BY <2>2, <1>3, <1>4
<1> QED BY <1>5

-----------------------------------------------------------------------------
(* The records the actions are built from.                                  *)

LEMMA DecisionTypes ==
  /\ Allow \in Decision /\ Deny \in Decision /\ Undecided \notin Decision
  /\ \A n \in 1..MaxUploads : Select(n) \in Decision /\ Select(n).upload = n
BY RequestsAssumption DEF Decision, Allow, Deny, Undecided, Select

LEMMA RequestTypes ==
  ASSUME NEW op \in {"click", "name", "decide"}, NEW t \in 0..MaxRequests,
         NEW d \in DecisionOrNone
  PROVE  /\ Request(op, t, d) \in RequestType /\ Request(op, t, d).fresh
         /\ Request(op, t, d).op = op /\ Request(op, t, d).token = t
         /\ Request(op, t, d).decision = d
BY DEF Request, RequestType

LEMMA MessageTypes ==
  /\ \A k \in {"raised", "finished", "failed"}, t \in Tokens :
       /\ Event(k, t) \in Message /\ Event(k, t).kind = k /\ Event(k, t).token = t
  /\ \A r \in RequestType, ok \in BOOLEAN :
       /\ Reply(r, ok) \in Message /\ Reply(r, ok).kind = "reply"
       /\ Reply(r, ok).ok = ok /\ Reply(r, ok).fresh = r.fresh
BY DEF Event, Reply, Message, EventType, ReplyType, RequestType

LEMMA MessageParts ==
  ASSUME NEW m \in Message
  PROVE  /\ m.kind \in {"raised", "finished", "failed", "reply"}
         /\ m.kind # "reply" => m \in EventType /\ m.token \in Tokens
         /\ m.kind = "reply" => m \in ReplyType /\ m.ok \in BOOLEAN /\ m.fresh \in BOOLEAN
BY DEF Message, EventType, ReplyType

LEMMA RaisedTypes ==
  ASSUME NEW kind \in Kinds, NEW cause \in 0..MaxUploads
  PROVE  /\ Raised(kind, cause) \in RaisedType
         /\ Raised(kind, cause).held /\ Raised(kind, cause).answers = <<>>
         /\ Raised(kind, cause).kind = kind
         /\ Raised(kind, cause).stage # "none" => kind = "download"
BY DEF Raised, RaisedType

LEMMA NoCallTypes ==
  NoCall \in CallType /\ NoCall.stage = "none"
BY RequestsAssumption DEF NoCall, CallType, DecisionOrNone, NoFile, Content

LEMMA UnknownTypes ==
  Unknown \in RecordType /\ Unknown.decision = Undecided
BY RequestsAssumption DEF Unknown, RecordType, DecisionOrNone

-----------------------------------------------------------------------------
LEMMA InitHolds ==
  Init => Inv
<1> SUFFICES ASSUME Init PROVE Inv
  OBVIOUS
<1>1. /\ inbox = <<>> /\ wire = <<>> /\ requests = <<>> /\ evaluations = <<>>
      /\ clicks = {} /\ files = [n \in Names |-> NoFile]
      /\ records = [t \in Tokens |-> Unknown]
      /\ artifacts = [n \in Names |-> NoFile]
      /\ call = NoCall /\ uploads = 0 /\ timeouts = 0
  BY DEF Init
<1>2. /\ DOMAIN inbox = {} /\ DOMAIN wire = {} /\ DOMAIN evaluations = {}
      /\ Issued = {} /\ Len(requests) = 0
  BY <1>1 DEF Issued
<1>3. TypeInv
  BY <1>1, <1>2, RequestsAssumption, NoCallTypes, UnknownTypes
  DEF TypeInv, AdapterTypes, HostTypes, NoFile, Content
<1>4. Settled /\ RequestsInv /\ Announced
  BY <1>2 DEF Settled, RequestsInv, Announced
<1>5. RecordsInv
  BY <1>1, <1>2 DEF RecordsInv
<1>6. WantedIn = {} /\ WantedRun = {} /\ WantedOut = {}
  BY <1>2 DEF WantedIn, WantedRun, WantedOut
<1>7. FreshInv
  BY <1>6 DEF FreshInv, AtMostOne, NoneWanted
<1>8. CallInv
  BY <1>1, NoCallTypes DEF CallInv
<1> QED BY <1>3, <1>4, <1>5, <1>7, <1>8 DEF Inv

-----------------------------------------------------------------------------
(* The host sends a request.                                                *)

\* One more request waits in the inbox.
LEMMA InboxGrows ==
  ASSUME AdapterTypes, NEW r \in RequestType, r.fresh, inbox' = Append(inbox, r),
         WantedIn = {}
  PROVE  /\ inbox' \in Seq(RequestType)
         /\ \A i \in DOMAIN inbox' : i \in DOMAIN inbox \/ inbox'[i] = r
         /\ \A i \in DOMAIN inbox : i \in DOMAIN inbox' /\ inbox'[i] = inbox[i]
         /\ \A i \in WantedIn' : inbox'[i] = r
         /\ \A i, j \in WantedIn' : i = j
<1> DEFINE n == Len(inbox) + 1
<1>1. /\ inbox' \in Seq(RequestType) /\ n \notin DOMAIN inbox
      /\ DOMAIN inbox' = DOMAIN inbox \union {n}
      /\ (\A i \in DOMAIN inbox : inbox'[i] = inbox[i]) /\ inbox'[n] = r
  BY Appended DEF AdapterTypes
<1> HIDE DEF n
<1>2. WantedIn' \subseteq {n}
  BY <1>1 DEF WantedIn
<1> QED BY <1>1, <1>2

LEMMA SendsPreserves ==
  ASSUME Inv, NEW r \in RequestType, r.fresh, Sends(r), WellFormed(r),
         ~InRequest, InRequest', Sought(r)',
         HostTypes', UNCHANGED records, CallInv'
  PROVE  Inv'
<1>1. /\ inbox' = Append(inbox, r)
      /\ UNCHANGED <<wire, requests, evaluations, clicks, files>>
  BY DEF Sends
<1>2. NoneWanted
  BY DEF Inv, FreshInv
<1>3. /\ inbox' \in Seq(RequestType)
      /\ \A i \in DOMAIN inbox' : i \in DOMAIN inbox \/ inbox'[i] = r
      /\ \A i \in DOMAIN inbox : i \in DOMAIN inbox' /\ inbox'[i] = inbox[i]
      /\ \A i \in WantedIn' : inbox'[i] = r
      /\ \A i, j \in WantedIn' : i = j
  BY <1>1, <1>2, InboxGrows DEF Inv, TypeInv, NoneWanted
<1>4. AdapterTypes'
  BY <1>1, <1>3 DEF AdapterTypes, Inv, TypeInv
<1>5. Settled' /\ Announced' /\ RecordsInv'
  BY <1>1 DEF Inv, Settled, Announced, RecordsInv, Issued
<1>6. RequestsInv'
  <2>1. ASSUME NEW i \in DOMAIN inbox' PROVE WellFormed(inbox'[i])
    BY <1>3 DEF Inv, RequestsInv
  <2> QED BY <1>1, <2>1 DEF Inv, RequestsInv, WellFormed, Issued
<1>7. WantedRun' = {} /\ WantedOut' = {}
  BY <1>1, <1>2 DEF NoneWanted, WantedRun, WantedOut
<1>8. FreshInv'
  BY <1>3, <1>7 DEF FreshInv, AtMostOne
<1> QED BY <1>4, <1>5, <1>6, <1>8 DEF Inv, TypeInv

LEMMA ActPermissionPreserves ==
  ASSUME Inv, NEW t \in Issued, NEW d \in Decision, ActPermission(t, d)
  PROVE  Inv'
<1> DEFINE r == Request("decide", t, d)
<1>1. /\ Sends(r) /\ call = NoCall /\ MayDecide(t)
      /\ call' = [NoCall EXCEPT !.op = "permission", !.stage = "decide",
                                !.token = t, !.decision = d]
      /\ UNCHANGED <<records, artifacts, uploads, timeouts>>
  BY DEF ActPermission, Idle, evidence
<1>2. t \in 0..MaxRequests
  BY RequestsAssumption, LenProperties DEF Inv, TypeInv, AdapterTypes, Issued
<1>3. r \in RequestType /\ r.fresh /\ r.op = "decide" /\ r.token = t /\ r.decision = d
  BY <1>2, RequestTypes DEF DecisionOrNone
<1> HIDE DEF r
<1>4. call' \in CallType /\ call'.stage = "decide" /\ call'.token = t /\ call'.decision = d
  BY <1>1, <1>2, NoCallTypes DEF CallType, DecisionOrNone
<1>5. ~InRequest /\ InRequest' /\ WellFormed(r) /\ Sought(r)'
  BY <1>1, <1>3, <1>4, NoCallTypes DEF InRequest, WellFormed, Sought
<1>6. HostTypes'
  BY <1>1, <1>4 DEF HostTypes, Inv, TypeInv
<1>7. CallInv'
  <2>1. /\ requests[t].kind = "permission" /\ records[t] # Unknown
        /\ records[t].status = "pending"
    BY <1>1 DEF MayDecide, Registered
  <2>2. records[t].decision = Undecided
    BY <2>1 DEF Inv, RecordsInv
  <2>3. UNCHANGED <<requests, records>>
    BY <1>1 DEF Sends
  <2> QED BY <1>4, <2>1, <2>2, <2>3 DEF CallInv, Issued
<1> QED BY <1>1, <1>3, <1>5, <1>6, <1>7, SendsPreserves

LEMMA ActUploadPreserves ==
  ASSUME Inv, ActUpload
  PROVE  Inv'
<1> PICK n : n = uploads + 1
  OBVIOUS
<1> PICK r : r = Request("click", 0, Select(n))
  OBVIOUS
<1>1. /\ Sends(r) /\ call = NoCall /\ uploads < MaxUploads /\ uploads' = n
      /\ call' = [NoCall EXCEPT !.op = "upload", !.stage = "click",
                                !.decision = Select(n),
                                !.known = Registered("chooser")]
      /\ UNCHANGED <<records, artifacts, timeouts>>
  BY DEF ActUpload, Idle, evidence
<1>2. n \in 1..MaxUploads /\ 0 \in 0..MaxRequests
  BY <1>1, RequestsAssumption DEF Inv, TypeInv, HostTypes
<1>3. Select(n) \in Decision /\ Select(n).upload = n
  BY <1>2, DecisionTypes
<1>4. /\ r \in RequestType /\ r.fresh /\ r.op = "click" /\ r.token = 0
      /\ r.decision = Select(n)
  BY <1>2, <1>3, RequestTypes DEF DecisionOrNone
<1>5. Registered("chooser") \subseteq Tokens
  BY LenProperties, RequestsAssumption
  DEF Registered, Tokens, Issued, Inv, TypeInv, AdapterTypes
<1>6. /\ call' \in CallType /\ call'.stage = "click" /\ call'.decision = Select(n)
      /\ call'.op = "upload" /\ call'.known = Registered("chooser")
  BY <1>1, <1>3, <1>5, NoCallTypes DEF CallType, DecisionOrNone
<1>7. ~InRequest /\ InRequest' /\ WellFormed(r) /\ Sought(r)'
  BY <1>1, <1>2, <1>3, <1>4, <1>6, NoCallTypes DEF InRequest, WellFormed, Sought
<1>8. HostTypes'
  BY <1>1, <1>2, <1>6, RequestsAssumption DEF HostTypes, Inv, TypeInv
<1>9. CallInv'
  <2>1. UNCHANGED <<requests, records>>
    BY <1>1 DEF Sends
  <2>2. \A t \in Issued : requests[t].kind = "chooser" /\ records[t].decision # Undecided
                            => t \in Registered("chooser")
    BY UnknownTypes DEF Registered
  <2> QED BY <1>3, <1>6, <2>1, <2>2 DEF CallInv, Issued
<1> QED BY <1>1, <1>4, <1>7, <1>8, <1>9, SendsPreserves


LEMMA ChooserArrivesPreserves ==
  ASSUME Inv, ChooserArrives
  PROVE  Inv'
<1>a. PICK t : t = CHOOSE f \in Fresh : \A g \in Fresh : f <= g
  OBVIOUS
<1> PICK d : d = call.decision
  OBVIOUS
<1> PICK r : r = Request("decide", t, d)
  OBVIOUS
<1>1. /\ call.stage = "chooser" /\ Fresh # {} /\ Sends(r)
      /\ call' = [call EXCEPT !.stage = "decide", !.token = t]
      /\ UNCHANGED <<records, artifacts, uploads, timeouts>>
  BY <1>a DEF ChooserArrives, Stays, evidence
<1>2. t \in Fresh
  <2>1. Fresh \subseteq Nat
    BY LenProperties DEF Fresh, Registered, Issued, Inv, TypeInv, AdapterTypes
  <2> QED BY <1>1, <1>a, <2>1, Least
<1>3. /\ t \in Issued /\ requests[t].kind = "chooser" /\ t \notin call.known
      /\ records[t] # Unknown
  BY <1>2 DEF Fresh, Registered
<1>4. t \in 0..MaxRequests
  BY <1>3, RequestsAssumption, LenProperties DEF Inv, TypeInv, AdapterTypes, Issued
<1>5. /\ call \in CallType /\ d = call.decision /\ d \in Decision
      /\ records[t].decision = Undecided
  BY <1>1, <1>3 DEF Inv, TypeInv, HostTypes, CallInv
<1>6. /\ r \in RequestType /\ r.fresh /\ r.op = "decide" /\ r.token = t
      /\ r.decision = d
  <2>1. d \in DecisionOrNone
    BY <1>5 DEF DecisionOrNone
  <2> QED BY <1>4, <2>1, RequestTypes
<1>7. /\ call' \in CallType /\ call'.stage = "decide" /\ call'.token = t
      /\ call'.decision = d
  BY <1>1, <1>4, <1>5 DEF CallType
<1>8. ~InRequest /\ InRequest' /\ WellFormed(r) /\ Sought(r)'
  BY <1>1, <1>3, <1>5, <1>6, <1>7 DEF InRequest, WellFormed, Sought
<1>9. HostTypes'
  BY <1>1, <1>7 DEF HostTypes, Inv, TypeInv
<1>10. CallInv'
  <2>1. UNCHANGED <<requests, records>>
    BY <1>1 DEF Sends
  <2> QED BY <1>3, <1>5, <1>7, <2>1 DEF CallInv, Issued
<1> QED BY <1>1, <1>6, <1>8, <1>9, <1>10, SendsPreserves

-----------------------------------------------------------------------------
(* The host takes a reply.                                                  *)

LEMMA WireTaken ==
  ASSUME wire \in Seq(Message), wire # <<>>, wire' = Tail(wire)
  PROVE  /\ wire' \in Seq(Message)
         /\ 1 \in DOMAIN wire /\ Head(wire) = wire[1] /\ wire[1] \in Message
         /\ \A i \in DOMAIN wire' :
              i \in Nat /\ i + 1 \in DOMAIN wire /\ i + 1 # 1 /\ wire'[i] = wire[i + 1]
<1>1. /\ Tail(wire) \in Seq(Message) /\ 1 \in DOMAIN wire /\ wire[1] \in Message
      /\ Head(wire) = wire[1]
      /\ \A i \in DOMAIN Tail(wire) : i + 1 \in DOMAIN wire /\ i + 1 # 1
                                      /\ Tail(wire)[i] = wire[i + 1]
  BY Taken
<1>2. DOMAIN Tail(wire) \subseteq Nat
  BY <1>1, LenProperties
<1> QED BY <1>1, <1>2

\* The announcements left on the wire stay new to the host.
LEMMA AnnouncedStays ==
  ASSUME Inv, wire # <<>>, wire' = Tail(wire), UNCHANGED requests,
         \A t \in Issued :
           records[t] = Unknown
           /\ (\E i \in DOMAIN wire : i # 1 /\ wire[i].kind = "raised"
                                             /\ wire[i].token = t)
           /\ requests[t].kind # "download"
           => records'[t] = Unknown
  PROVE  Announced'
<1>1. \A i \in DOMAIN wire' :
        i \in Nat /\ i + 1 \in DOMAIN wire /\ i + 1 # 1 /\ wire'[i] = wire[i + 1]
  BY WireTaken DEF Inv, TypeInv, AdapterTypes
<1>2. UNCHANGED Issued
  BY DEF Issued
<1>3. ASSUME NEW i \in DOMAIN wire', wire'[i].kind = "raised"
      PROVE  /\ wire'[i].token \in Issued
             /\ requests[wire'[i].token].kind # "download"
                  => records'[wire'[i].token] = Unknown
  BY <1>1, <1>3 DEF Inv, Announced
<1>4. ASSUME NEW i \in DOMAIN wire', NEW j \in DOMAIN wire',
             wire'[i].kind = "raised", wire'[j].kind = "raised",
             wire'[i].token = wire'[j].token
      PROVE  i = j
  <2>1. i + 1 = j + 1
    BY <1>1, <1>4 DEF Inv, Announced
  <2> QED BY <1>1, <2>1
<1>5. ASSUME NEW i \in DOMAIN wire', wire'[i].kind \in {"finished", "failed"}
      PROVE  wire'[i].token \in Issued /\ requests[wire'[i].token].kind = "download"
  BY <1>1, <1>5 DEF Inv, Announced
<1> QED BY <1>2, <1>3, <1>4, <1>5 DEF Announced

\* The reply that the call waits for is the last thing it waits for.
LEMMA ReplyTaken ==
  ASSUME Inv, NEW ok \in BOOLEAN, ReplyIs(TRUE, ok), wire' = Tail(wire),
         UNCHANGED <<evaluations, requests>>
  PROVE  /\ WantedIn = {} /\ WantedRun' = {} /\ WantedOut' = {}
         /\ wire' \in Seq(Message)
         /\ ok /\ call.stage = "decide" => requests[call.token].answers = <<call.decision>>
<1>1. /\ wire # <<>> /\ Head(wire).kind = "reply" /\ Head(wire).fresh /\ Head(wire).ok = ok
  BY DEF ReplyIs
<1>2. /\ wire' \in Seq(Message) /\ 1 \in DOMAIN wire /\ Head(wire) = wire[1]
      /\ \A i \in DOMAIN wire' :
           i \in Nat /\ i + 1 \in DOMAIN wire /\ i + 1 # 1 /\ wire'[i] = wire[i + 1]
  BY <1>1, WireTaken DEF Inv, TypeInv, AdapterTypes
<1>3. 1 \in WantedOut
  BY <1>1, <1>2 DEF WantedOut
<1>4. WantedIn = {} /\ WantedRun = {} /\ \A i \in WantedOut : i = 1
  BY <1>3 DEF Inv, FreshInv, AtMostOne
<1>5. \A i \in WantedOut' : i + 1 \in WantedOut
  BY <1>2 DEF WantedOut
<1>6. WantedOut' = {}
  BY <1>2, <1>4, <1>5 DEF WantedOut
<1>7. WantedRun' = {}
  BY <1>4 DEF WantedRun
<1>8. ok /\ call.stage = "decide" => requests[call.token].answers = <<call.decision>>
  BY <1>1, <1>2, <1>3 DEF Inv, FreshInv
<1> QED BY <1>2, <1>4, <1>6, <1>7, <1>8

\* With nothing wanted any more, the call is at an end or in a loop.
LEMMA NoneWantedIsFresh ==
  NoneWanted' => FreshInv'
BY DEF NoneWanted, FreshInv, AtMostOne

\* A reply that changes no record.
LEMMA ReplyPreserves ==
  ASSUME Inv, NEW ok \in BOOLEAN, ReplyIs(TRUE, ok), wire' = Tail(wire),
         UNCHANGED <<inbox, requests, evaluations, clicks, files, records>>,
         HostTypes', CallInv'
  PROVE  Inv'
<1>1. wire # <<>>
  BY DEF ReplyIs
<1>2. NoneWanted' /\ wire' \in Seq(Message)
  BY ReplyTaken DEF NoneWanted, WantedIn
<1>3. AdapterTypes' /\ Settled' /\ RequestsInv' /\ RecordsInv'
  BY <1>2 DEF Inv, TypeInv, AdapterTypes, Settled, RequestsInv, WellFormed, RecordsInv,
              Issued
<1>4. Announced'
  BY <1>1, AnnouncedStays
<1> QED BY <1>2, <1>3, <1>4, NoneWantedIsFresh DEF Inv, TypeInv

\* The decision of a call is recorded: it was applied.
LEMMA ResolvesPreserves ==
  ASSUME Inv, call.stage = "decide", ReplyIs(TRUE, TRUE), Resolves(call.token),
         UNCHANGED requests
  PROVE  /\ records' \in [Tokens -> RecordType] /\ RecordsInv'
         /\ \A t \in Tokens \ {call.token} : records'[t] = records[t]
         /\ records[call.token] # Unknown
<1>1. wire # <<>> /\ Head(wire).kind = "reply" /\ Head(wire).fresh /\ Head(wire).ok
  BY DEF ReplyIs
<1>2. 1 \in WantedOut /\ wire[1].ok
  BY <1>1, Taken DEF Inv, TypeInv, AdapterTypes, WantedOut
<1>3. requests[call.token].answers = <<call.decision>>
  BY <1>2 DEF Inv, FreshInv
<1>4. /\ call.token \in Issued /\ call.decision \in Decision
      /\ requests[call.token].kind # "download" /\ records[call.token] # Unknown
  BY DEF Inv, CallInv
<1>5. Issued \subseteq Tokens
  BY RequestsAssumption, LenProperties
  DEF Inv, TypeInv, AdapterTypes, Issued, Tokens
<1>6. records \in [Tokens -> RecordType]
  BY DEF Inv, TypeInv, HostTypes
<1>7. records' = [records EXCEPT ![call.token] =
                    [records[call.token] EXCEPT !.status = "resolved",
                                                !.decision = call.decision]]
  BY <1>4, <1>5, <1>6 DEF Resolves
<1> DEFINE new == [records[call.token] EXCEPT !.status = "resolved",
                                              !.decision = call.decision]
<1>8. new \in RecordType /\ new.status = "resolved" /\ new.decision = call.decision
  BY <1>4, <1>5, <1>6 DEF RecordType, DecisionOrNone
<1> HIDE DEF new
<1>9. /\ records' \in [Tokens -> RecordType] /\ records'[call.token] = new
      /\ \A t \in Tokens \ {call.token} : records'[t] = records[t]
  BY <1>4, <1>5, <1>6, <1>7, <1>8 DEF new
<1>10. RecordsInv'
  BY <1>3, <1>4, <1>5, <1>8, <1>9 DEF Inv, RecordsInv, Issued
<1> QED BY <1>4, <1>9, <1>10

LEMMA RequestRefusedPreserves ==
  ASSUME Inv, RequestRefused
  PROVE  Inv'
<1>1. /\ ReplyIs(TRUE, FALSE) /\ wire' = Tail(wire) /\ call' = NoCall
      /\ UNCHANGED <<inbox, requests, evaluations, clicks, files, records,
                     artifacts, uploads, timeouts>>
  BY DEF RequestRefused, evidence
<1>2. HostTypes' /\ CallInv'
  BY <1>1, NoCallTypes DEF Inv, TypeInv, HostTypes, CallInv
<1> QED BY <1>1, <1>2, ReplyPreserves

LEMMA ClickedPreserves ==
  ASSUME Inv, Clicked
  PROVE  Inv'
<1>1. /\ ReplyIs(TRUE, TRUE) /\ wire' = Tail(wire) /\ call.stage = "click"
      /\ call' = [call EXCEPT !.stage = "chooser"]
      /\ UNCHANGED <<inbox, requests, evaluations, clicks, files, records,
                     artifacts, uploads, timeouts>>
  BY DEF Clicked, Replied, evidence
<1>2. HostTypes'
  BY <1>1 DEF Inv, TypeInv, HostTypes, CallType
<1>3. call'.stage = "chooser" /\ call'.op = call.op /\ call'.decision = call.decision
      /\ call'.known = call.known
  BY <1>1 DEF Inv, TypeInv, HostTypes, CallType
<1>4. CallInv'
  BY <1>1, <1>3 DEF Inv, CallInv, Issued
<1> QED BY <1>1, <1>2, <1>4, ReplyPreserves

LEMMA NameReadPreserves ==
  ASSUME Inv, NameRead
  PROVE  Inv'
<1>1. /\ ReplyIs(TRUE, TRUE) /\ wire' = Tail(wire)
      /\ call' = [call EXCEPT !.stage = "drain"]
      /\ UNCHANGED <<inbox, requests, evaluations, clicks, files, records,
                     artifacts, uploads, timeouts>>
  BY DEF NameRead, Replied, evidence
<1>2. HostTypes' /\ call'.stage = "drain"
  BY <1>1 DEF Inv, TypeInv, HostTypes, CallType
<1>3. CallInv'
  BY <1>2 DEF CallInv
<1> QED BY <1>1, <1>2, <1>3, ReplyPreserves

LEMMA PermissionResolvedPreserves ==
  ASSUME Inv, PermissionResolved
  PROVE  Inv'
<1>1. /\ ReplyIs(TRUE, TRUE) /\ wire' = Tail(wire) /\ call.stage = "decide"
      /\ call' = [call EXCEPT !.stage = "drain"] /\ Resolves(call.token)
      /\ UNCHANGED <<inbox, requests, evaluations, clicks, files, artifacts,
                     uploads, timeouts>>
  BY DEF PermissionResolved, Replied, evidence
<1>2. /\ records' \in [Tokens -> RecordType] /\ RecordsInv'
      /\ \A t \in Tokens \ {call.token} : records'[t] = records[t]
      /\ records[call.token] # Unknown
  BY <1>1, ResolvesPreserves
<1>3. NoneWanted' /\ wire' \in Seq(Message)
  BY <1>1, ReplyTaken DEF NoneWanted, WantedIn
<1>4. HostTypes' /\ call'.stage = "drain"
  BY <1>1, <1>2 DEF Inv, TypeInv, HostTypes, CallType
<1>5. AdapterTypes' /\ Settled' /\ RequestsInv'
  BY <1>1, <1>3 DEF Inv, TypeInv, AdapterTypes, Settled, RequestsInv, WellFormed, Issued
<1>6. Issued \subseteq Tokens /\ wire # <<>>
  BY <1>1, RequestsAssumption, LenProperties
  DEF Inv, TypeInv, AdapterTypes, Issued, Tokens, ReplyIs
<1>7. Announced'
  BY <1>1, <1>2, <1>6, AnnouncedStays
<1>8. CallInv'
  BY <1>4 DEF CallInv
<1> QED BY <1>2, <1>3, <1>4, <1>5, <1>7, <1>8, NoneWantedIsFresh DEF Inv, TypeInv

LEMMA FileSelectedPreserves ==
  ASSUME Inv, FileSelected
  PROVE  Inv'
<1> PICK r : r = Request("name", 0, Undecided)
  OBVIOUS
<1>1. /\ ReplyIs(TRUE, TRUE) /\ wire' = Tail(wire) /\ call.stage = "decide"
      /\ call' = [call EXCEPT !.stage = "name"] /\ Resolves(call.token)
      /\ inbox' = Append(inbox, r)
      /\ UNCHANGED <<requests, evaluations, clicks, files, artifacts,
                     uploads, timeouts>>
  BY DEF FileSelected, Replied, evidence
<1>2. /\ records' \in [Tokens -> RecordType] /\ RecordsInv'
      /\ \A t \in Tokens \ {call.token} : records'[t] = records[t]
      /\ records[call.token] # Unknown
  BY <1>1, ResolvesPreserves
<1>3. /\ WantedIn = {} /\ WantedRun' = {} /\ WantedOut' = {}
      /\ wire' \in Seq(Message)
  BY <1>1, ReplyTaken
<1>4. HostTypes' /\ call'.stage = "name"
  BY <1>1, <1>2 DEF Inv, TypeInv, HostTypes, CallType
<1>5. r \in RequestType /\ r.fresh /\ r.op = "name"
  BY RequestsAssumption, RequestTypes DEF DecisionOrNone
<1>6. /\ inbox' \in Seq(RequestType)
      /\ \A i \in DOMAIN inbox' : i \in DOMAIN inbox \/ inbox'[i] = r
      /\ \A i \in DOMAIN inbox : i \in DOMAIN inbox' /\ inbox'[i] = inbox[i]
      /\ \A i \in WantedIn' : inbox'[i] = r
      /\ \A i, j \in WantedIn' : i = j
  BY <1>1, <1>3, <1>5, InboxGrows DEF Inv, TypeInv
<1>7. AdapterTypes' /\ Settled'
  BY <1>1, <1>3, <1>6 DEF Inv, TypeInv, AdapterTypes, Settled, Issued
<1>8. RequestsInv'
  <2>1. ASSUME NEW i \in DOMAIN inbox' PROVE WellFormed(inbox'[i])
    BY <1>5, <1>6 DEF Inv, RequestsInv, WellFormed
  <2> QED BY <1>1, <2>1 DEF Inv, RequestsInv, WellFormed, Issued
<1>9. Issued \subseteq Tokens /\ wire # <<>>
  BY <1>1, RequestsAssumption, LenProperties
  DEF Inv, TypeInv, AdapterTypes, Issued, Tokens, ReplyIs
<1>10. Announced'
  BY <1>1, <1>2, <1>9, AnnouncedStays
<1>11. FreshInv'
  BY <1>3, <1>4, <1>5, <1>6 DEF FreshInv, AtMostOne, InRequest, Sought
<1>12. CallInv'
  BY <1>4 DEF CallInv
<1> QED BY <1>2, <1>4, <1>7, <1>8, <1>10, <1>11, <1>12 DEF Inv, TypeInv

-----------------------------------------------------------------------------
(* The host gives a request up.                                             *)

LEMMA GivesUpPreserves ==
  ASSUME Inv, NEW frames \in Seq(Message), GivesUp(frames),
         frames = wire \/ (wire # <<>> /\ frames = Tail(wire)),
         timeouts' \in 0..MaxTimeouts
  PROVE  Inv'
<1>1. /\ inbox' = [i \in DOMAIN inbox |-> [inbox[i] EXCEPT !.fresh = FALSE]]
      /\ evaluations' = [i \in DOMAIN evaluations |->
                           [evaluations[i] EXCEPT !.request.fresh = FALSE]]
      /\ wire' = [i \in DOMAIN frames |->
                    IF frames[i].kind = "reply" THEN [frames[i] EXCEPT !.fresh = FALSE]
                    ELSE frames[i]]
      /\ call' = NoCall
      /\ UNCHANGED <<requests, clicks, files, records, artifacts, uploads>>
  BY DEF GivesUp, evidence
<1>2. /\ DOMAIN inbox' = DOMAIN inbox /\ inbox' \in Seq(RequestType)
      /\ \A i \in DOMAIN inbox' :
           /\ inbox'[i].op = inbox[i].op /\ inbox'[i].token = inbox[i].token
           /\ inbox'[i].decision = inbox[i].decision /\ ~inbox'[i].fresh
  <2>1. inbox \in Seq(RequestType)
    BY DEF Inv, TypeInv, AdapterTypes
  <2>2. \A i \in DOMAIN inbox : inbox[i] \in RequestType
    BY <2>1, ElementOfSeq, LenProperties
  <2>3. \A q \in RequestType :
          LET p == [q EXCEPT !.fresh = FALSE]
          IN  /\ p \in RequestType /\ p.op = q.op /\ p.token = q.token
              /\ p.decision = q.decision /\ ~p.fresh
    BY DEF RequestType
  <2>4. /\ DOMAIN inbox' = DOMAIN inbox
        /\ \A i \in DOMAIN inbox' :
             inbox'[i] \in RequestType /\ inbox'[i].op = inbox[i].op
             /\ inbox'[i].token = inbox[i].token
             /\ inbox'[i].decision = inbox[i].decision /\ ~inbox'[i].fresh
    BY <1>1, <2>2, <2>3
  <2> QED BY <1>1, <2>1, <2>4, Mapped
<1>3. /\ DOMAIN evaluations' = DOMAIN evaluations
      /\ evaluations' \in Seq(EvaluationType)
      /\ \A i \in DOMAIN evaluations' :
           /\ evaluations'[i].request.op = evaluations[i].request.op
           /\ evaluations'[i].request.decision = evaluations[i].request.decision
           /\ ~evaluations'[i].request.fresh
  <2>1. evaluations \in Seq(EvaluationType)
    BY DEF Inv, TypeInv, AdapterTypes
  <2>2. \A i \in DOMAIN evaluations : evaluations[i] \in EvaluationType
    BY <2>1, ElementOfSeq, LenProperties
  <2>3. \A q \in EvaluationType :
          LET p == [q EXCEPT !.request.fresh = FALSE]
          IN  /\ p \in EvaluationType /\ p.request.op = q.request.op
              /\ p.request.decision = q.request.decision /\ ~p.request.fresh
    BY DEF EvaluationType, RequestType
  <2>4. /\ DOMAIN evaluations' = DOMAIN evaluations
        /\ \A i \in DOMAIN evaluations' :
             /\ evaluations'[i] \in EvaluationType
             /\ evaluations'[i].request.op = evaluations[i].request.op
             /\ evaluations'[i].request.decision = evaluations[i].request.decision
             /\ ~evaluations'[i].request.fresh
    BY <1>1, <2>2, <2>3
  <2> QED BY <1>1, <2>1, <2>4, Mapped
<1>4. /\ wire' \in Seq(Message) /\ DOMAIN wire' = DOMAIN frames
      /\ \A i \in DOMAIN wire' :
           /\ wire'[i].kind = frames[i].kind
           /\ wire'[i].kind # "reply" => wire'[i] = frames[i]
           /\ wire'[i].kind = "reply" => ~wire'[i].fresh
  <2>1. \A i \in DOMAIN frames : frames[i] \in Message
    BY ElementOfSeq, LenProperties
  <2>2. \A m \in Message : m.kind = "reply" =>
          LET n == [m EXCEPT !.fresh = FALSE]
          IN  n \in Message /\ n.kind = "reply" /\ ~n.fresh
    BY MessageParts DEF Message, ReplyType
  <2>3. /\ DOMAIN wire' = DOMAIN frames
        /\ \A i \in DOMAIN wire' :
             /\ wire'[i] \in Message /\ wire'[i].kind = frames[i].kind
             /\ wire'[i].kind # "reply" => wire'[i] = frames[i]
             /\ wire'[i].kind = "reply" => ~wire'[i].fresh
    BY <1>1, <2>1, <2>2
  <2> QED BY <1>1, <2>3, Mapped
<1>5. TypeInv'
  BY <1>1, <1>2, <1>3, <1>4, NoCallTypes DEF Inv, TypeInv, AdapterTypes, HostTypes
<1>6. Settled' /\ RecordsInv'
  BY <1>1 DEF Inv, Settled, RecordsInv, Issued
<1>7. RequestsInv'
  <2>1. ASSUME NEW i \in DOMAIN inbox' PROVE WellFormed(inbox[i])'
    BY <1>1, <1>2, <2>1 DEF Inv, RequestsInv, WellFormed, Issued
  <2>2. ASSUME NEW i \in DOMAIN evaluations'
        PROVE  /\ WellFormed(evaluations[i].request)'
               /\ evaluations'[i].request.op # "decide"
    BY <1>1, <1>3, <2>2 DEF Inv, RequestsInv, WellFormed, Issued
  <2> QED BY <2>1, <2>2 DEF RequestsInv, WellFormed, Issued
<1>8. PICK k \in {0, 1} : \A i \in DOMAIN frames :
        i \in Nat /\ i + k \in DOMAIN wire /\ frames[i] = wire[i + k]
  <2>1. CASE frames = wire
    <3>1. \A i \in DOMAIN wire : i \in Nat /\ i + 0 = i
      BY LenProperties DEF Inv, TypeInv, AdapterTypes
    <3> QED BY <2>1, <3>1
  <2>2. CASE wire # <<>> /\ frames = Tail(wire)
    <3>1. DOMAIN frames \subseteq Nat
      BY LenProperties
    <3>2. wire \in Seq(Message)
      BY DEF Inv, TypeInv, AdapterTypes
    <3>3. \A i \in DOMAIN frames : i + 1 \in DOMAIN wire /\ frames[i] = wire[i + 1]
      BY <2>2, <3>2, Taken
    <3> QED BY <3>1, <3>3
  <2> QED BY <2>1, <2>2
<1>9. \A i \in DOMAIN wire' :
        /\ i \in Nat /\ i + k \in DOMAIN wire /\ wire'[i].kind = wire[i + k].kind
        /\ wire'[i].kind # "reply" => wire'[i] = wire[i + k]
  BY <1>4, <1>8
<1>10. Announced'
  <2>1. \A i, j \in DOMAIN wire' : i + k = j + k => i = j
    BY <1>9
  <2>2. ASSUME NEW i \in DOMAIN wire', wire'[i].kind = "raised"
        PROVE  /\ wire'[i].token \in Issued
               /\ requests[wire'[i].token].kind # "download"
                    => records[wire'[i].token] = Unknown
    BY <1>9, <2>2 DEF Inv, Announced
  <2>3. ASSUME NEW i \in DOMAIN wire', NEW j \in DOMAIN wire',
               wire'[i].kind = "raised", wire'[j].kind = "raised",
               wire'[i].token = wire'[j].token
        PROVE  i = j
    BY <1>9, <2>1, <2>3 DEF Inv, Announced
  <2>4. ASSUME NEW i \in DOMAIN wire', wire'[i].kind \in {"finished", "failed"}
        PROVE  wire'[i].token \in Issued /\ requests[wire'[i].token].kind = "download"
    BY <1>9, <2>4 DEF Inv, Announced
  <2> QED BY <1>1, <2>2, <2>3, <2>4 DEF Announced, Issued
<1>11. NoneWanted'
  BY <1>2, <1>3, <1>4 DEF NoneWanted, WantedIn, WantedRun, WantedOut
<1>12. CallInv'
  BY <1>1, NoCallTypes DEF CallInv
<1> QED BY <1>5, <1>6, <1>7, <1>10, <1>11, <1>12, NoneWantedIsFresh DEF Inv

LEMMA GiveUpsPreserve ==
  ASSUME Inv, RequestTimesOut \/ MeetsLateReply
  PROVE  Inv'
<1>1. CASE RequestTimesOut
  <2> PICK frames : frames = wire
    OBVIOUS
  <2>1. frames \in Seq(Message) /\ GivesUp(frames)
    BY <1>1 DEF RequestTimesOut, Inv, TypeInv, AdapterTypes
  <2>2. timeouts' \in 0..MaxTimeouts
    BY <1>1, RequestsAssumption DEF RequestTimesOut, Inv, TypeInv, HostTypes
  <2> QED BY <2>1, <2>2, GivesUpPreserves
<1>2. CASE MeetsLateReply
  <2> PICK frames : frames = Tail(wire)
    OBVIOUS
  <2>1. wire # <<>> /\ GivesUp(frames) /\ UNCHANGED timeouts
    BY <1>2 DEF MeetsLateReply, ReplyIs
  <2>2. frames \in Seq(Message)
    BY <2>1, Taken DEF Inv, TypeInv, AdapterTypes
  <2>3. timeouts' \in 0..MaxTimeouts
    BY <2>1 DEF Inv, TypeInv, HostTypes
  <2> QED BY <2>1, <2>2, <2>3, GivesUpPreserves
<1> QED BY <1>1, <1>2

-----------------------------------------------------------------------------
(* The host takes an event.                                                 *)

LEMMA RegistersTypes ==
  ASSUME Inv, NEW e \in EventType
  PROVE  /\ RegisterPending(e) \in RecordType
         /\ e.kind = "raised" => RegisterPending(e).decision = Undecided
         /\ e.kind # "raised" => RegisterPending(e).decision = records[e.token].decision
<1>1. records[e.token] \in RecordType /\ e.kind \in {"raised", "finished", "failed"}
  BY DEF EventType, Inv, TypeInv, HostTypes
<1>2. CASE e.kind = "raised"
  <2>1. RegisterPending(e) = [Unknown EXCEPT !.status = "pending", !.since = uploads]
    BY <1>2 DEF RegisterPending
  <2> QED BY <1>2, <2>1, UnknownTypes DEF RecordType, Inv, TypeInv, HostTypes
<1>3. CASE e.kind = "finished"
  <2>1. RegisterPending(e) = [records[e.token] EXCEPT !.status = "completed"]
    BY <1>3 DEF RegisterPending
  <2> QED BY <1>1, <1>3, <2>1 DEF RecordType
<1>4. CASE e.kind = "failed"
  <2>1. RegisterPending(e) = [records[e.token] EXCEPT !.status = "failed"]
    BY <1>4 DEF RegisterPending
  <2> QED BY <1>1, <1>4, <2>1 DEF RecordType
<1> QED BY <1>1, <1>2, <1>3, <1>4

LEMMA TakeEventPreserves ==
  ASSUME Inv, TakeEvent
  PROVE  Inv'
<1> PICK e : e = Head(wire)
  OBVIOUS
<1>1. /\ wire # <<>> /\ e.kind # "reply" /\ wire' = Tail(wire)
      /\ records' = [records EXCEPT ![e.token] = RegisterPending(e)]
      /\ UNCHANGED <<inbox, requests, evaluations, clicks, files, artifacts, call,
                     uploads, timeouts>>
  BY DEF TakeEvent, evidence
<1>2. /\ wire' \in Seq(Message) /\ 1 \in DOMAIN wire /\ e = wire[1]
      /\ \A i \in DOMAIN wire' :
           i \in Nat /\ i + 1 \in DOMAIN wire /\ i + 1 # 1 /\ wire'[i] = wire[i + 1]
      /\ e \in Message
  BY <1>1, WireTaken DEF Inv, TypeInv, AdapterTypes
<1>3. e \in EventType /\ e.token \in Tokens /\ e.kind \in {"raised", "finished", "failed"}
  BY <1>1, <1>2, MessageParts
<1>4. /\ e.token \in Issued
      /\ e.kind = "raised" /\ requests[e.token].kind # "download"
           => records[e.token] = Unknown
      /\ e.kind # "raised" => requests[e.token].kind = "download"
  BY <1>2, <1>3 DEF Inv, Announced
<1> PICK new : new = RegisterPending(e)
  OBVIOUS
<1>5. new \in RecordType /\ new.decision = Undecided
  <2>1. /\ new \in RecordType
        /\ e.kind = "raised" => new.decision = Undecided
        /\ e.kind # "raised" => new.decision = records[e.token].decision
    BY <1>3, RegistersTypes
  <2>2. e.kind # "raised" => records[e.token].decision = Undecided
    BY <1>4 DEF Inv, RecordsInv
  <2> QED BY <2>1, <2>2
<1>6. /\ records' \in [Tokens -> RecordType] /\ records'[e.token] = new
      /\ \A t \in Tokens \ {e.token} : records'[t] = records[t]
  BY <1>1, <1>3, <1>5 DEF Inv, TypeInv, HostTypes
<1>7. Issued \subseteq Tokens /\ UNCHANGED Issued
  BY <1>1, RequestsAssumption, LenProperties
  DEF Inv, TypeInv, AdapterTypes, Issued, Tokens
<1>8. TypeInv' /\ Settled' /\ RequestsInv'
  BY <1>1, <1>2, <1>6, <1>7
  DEF Inv, TypeInv, AdapterTypes, HostTypes, Settled, RequestsInv, WellFormed
<1>9. Announced'
  <2> SUFFICES ASSUME NEW t \in Issued, records[t] = Unknown,
                      requests[t].kind # "download",
                      NEW i \in DOMAIN wire, i # 1, wire[i].kind = "raised",
                      wire[i].token = t
               PROVE  records'[t] = Unknown
    BY <1>1, AnnouncedStays
  <2>1. t # e.token
    BY <1>2, <1>3, <1>4 DEF Inv, Announced
  <2> QED BY <1>6, <1>7, <2>1
<1>10. RecordsInv'
  BY <1>1, <1>4, <1>5, <1>6, <1>7 DEF Inv, RecordsInv
<1>11. FreshInv'
  <2>1. WantedIn' = WantedIn /\ WantedRun' = WantedRun
    BY <1>1 DEF WantedIn, WantedRun
  <2>2. \A i \in WantedOut' : i \in Nat /\ i + 1 \in WantedOut /\ wire'[i] = wire[i + 1]
    BY <1>2 DEF WantedOut
  <2>3. \A i, j \in WantedOut' : i = j
    <3> SUFFICES ASSUME NEW i \in WantedOut', NEW j \in WantedOut' PROVE i = j
      OBVIOUS
    <3>1. i + 1 = j + 1
      BY <2>2 DEF Inv, FreshInv, AtMostOne
    <3> QED BY <2>2, <3>1
  <2>4. AtMostOne'
    BY <2>1, <2>2, <2>3 DEF Inv, FreshInv, AtMostOne
  <2>5. InRequest' = InRequest
    BY <1>1 DEF InRequest
  <2> QED BY <1>1, <2>1, <2>2, <2>4, <2>5 DEF Inv, FreshInv, NoneWanted, Sought
<1>12. CallInv'
  <2>1. \A t \in Tokens : records[t] # Unknown /\ records[t].decision = Undecided
          /\ requests[t].kind # "download"
            => records'[t] # Unknown /\ records'[t].decision = Undecided
    BY <1>3, <1>4, <1>5, <1>6
  <2>2. \A t \in Issued : records'[t].decision # Undecided
            => records[t].decision # Undecided
    BY <1>5, <1>6, <1>7
  <2> QED BY <1>1, <1>7, <2>1, <2>2 DEF Inv, CallInv
<1> QED BY <1>8, <1>9, <1>10, <1>11, <1>12 DEF Inv

-----------------------------------------------------------------------------
(* Steps of the host between two requests.                                  *)

LEMMA CallPreserves ==
  ASSUME Inv, UNCHANGED <<adapter, records, artifacts, uploads, timeouts>>, ~InRequest,
         call' \in CallType, CallInv'
  PROVE  Inv'
<1>1. TypeInv' /\ Settled' /\ RequestsInv' /\ Announced' /\ RecordsInv'
  BY DEF adapter, Inv, TypeInv, AdapterTypes, HostTypes, Settled, RequestsInv,
         WellFormed, Announced, RecordsInv, Issued
<1>2. NoneWanted'
  BY DEF adapter, Inv, FreshInv, NoneWanted, WantedIn, WantedRun, WantedOut
<1> QED BY <1>1, <1>2, NoneWantedIsFresh DEF Inv

LEMMA CallsPreserve ==
  ASSUME Inv,
         \/ \E t \in Issued : ActDownload(t)
         \/ Await \/ Deadline \/ DrainEnds \/ DownloadRefused \/ ReadsDownload
  PROVE  Inv'
<1>1. CASE \E t \in Issued : ActDownload(t)
  <2> PICK t \in Issued : ActDownload(t)
    BY <1>1
  <2>1. /\ call = NoCall /\ requests[t].kind = "download"
        /\ call' = [NoCall EXCEPT !.op = "download", !.stage = "transfer", !.token = t]
        /\ UNCHANGED <<adapter, records, artifacts, uploads, timeouts>>
    BY DEF ActDownload, Idle, Registered, evidence
  <2>2. t \in 0..MaxRequests
    BY RequestsAssumption, LenProperties DEF Inv, TypeInv, AdapterTypes, Issued
  <2>3. call' \in CallType /\ call'.stage = "transfer" /\ call'.token = t
    BY <2>1, <2>2, NoCallTypes DEF CallType
  <2>4. CallInv'
    BY <2>1, <2>3 DEF CallInv, Issued, adapter
  <2> QED BY <2>1, <2>3, <2>4, NoCallTypes, CallPreserves DEF InRequest
<1>2. CASE Await
  <2>1. /\ call = NoCall /\ call' = [NoCall EXCEPT !.op = "await", !.stage = "drain"]
        /\ UNCHANGED <<adapter, records, artifacts, uploads, timeouts>>
    BY <1>2 DEF Await, Idle, evidence
  <2>2. call' \in CallType /\ call'.stage = "drain"
    BY <2>1, NoCallTypes DEF CallType
  <2> QED BY <2>1, <2>2, NoCallTypes, CallPreserves DEF InRequest, CallInv
<1>3. CASE Deadline \/ DrainEnds \/ DownloadRefused
  <2>1. /\ call.stage \in {"chooser", "transfer", "drain"} /\ call' = NoCall
        /\ UNCHANGED <<adapter, records, artifacts, uploads, timeouts>>
    BY <1>3 DEF Deadline, DrainEnds, DownloadRefused, Stays, evidence
  <2> QED BY <2>1, NoCallTypes, CallPreserves DEF InRequest, CallInv
<1>4. CASE ReadsDownload
  <2>1. /\ call.stage = "transfer"
        /\ call' = [call EXCEPT !.stage = "store", !.payload = FileOf(call.token)]
        /\ UNCHANGED <<adapter, records, artifacts, uploads, timeouts>>
    BY <1>4 DEF ReadsDownload, Stays, evidence
  <2>2. call.token \in Issued /\ requests[call.token].kind = "download"
    BY <2>1 DEF Inv, CallInv
  <2>3. FileOf(call.token) \in Content
    <3>1. NoFile \in Content
      BY RequestsAssumption DEF NoFile, Content
    <3>2. requests[call.token] \in RaisedType
      BY <2>2, ElementOfSeq, LenProperties DEF Inv, TypeInv, AdapterTypes, Issued
    <3>3. requests[call.token].name \in Names \union {None}
      BY <3>2 DEF RaisedType
    <3> QED BY <3>1, <3>3 DEF FileOf, Inv, TypeInv, AdapterTypes
  <2>4. call \in CallType
    BY DEF Inv, TypeInv, HostTypes
  <2>5. call' \in CallType /\ call'.stage = "store" /\ call'.token = call.token
    BY <2>1, <2>3, <2>4 DEF CallType
  <2>6. CallInv'
    BY <2>1, <2>2, <2>5 DEF CallInv, Issued, adapter
  <2> QED BY <2>1, <2>5, <2>6, CallPreserves DEF InRequest
<1> QED BY <1>1, <1>2, <1>3, <1>4

LEMMA StoresDownloadPreserves ==
  ASSUME Inv, StoresDownload
  PROVE  Inv'
<1> PICK t, n, c : t = call.token /\ n = requests[t].name /\ c = call.payload
  OBVIOUS
<1>1. /\ call.stage = "store"
      /\ files' = [files EXCEPT ![n] = c] /\ artifacts' = [artifacts EXCEPT ![n] = c]
      /\ records' = [records EXCEPT ![t].status = "quarantined"]
      /\ call' = [call EXCEPT !.stage = "drain"]
      /\ UNCHANGED <<inbox, wire, requests, evaluations, clicks, uploads, timeouts>>
  BY DEF StoresDownload
<1>2. t \in Issued /\ requests[t].kind = "download" /\ c \in Content
  BY <1>1 DEF Inv, CallInv, TypeInv, HostTypes, CallType
<1>3. Issued \subseteq Tokens
  BY RequestsAssumption, LenProperties
  DEF Inv, TypeInv, AdapterTypes, Issued, Tokens
<1>4. /\ records' \in [Tokens -> RecordType]
      /\ \A u \in Tokens \ {t} : records'[u] = records[u]
      /\ records'[t].decision = records[t].decision
  BY <1>1, <1>2, <1>3 DEF Inv, TypeInv, HostTypes, RecordType
<1>5. call' \in CallType /\ call'.stage = "drain"
  BY <1>1 DEF Inv, TypeInv, HostTypes, CallType
<1>6. records[t].decision = Undecided
  BY <1>2 DEF Inv, RecordsInv
<1>7. AdapterTypes' /\ HostTypes'
  BY <1>1, <1>2, <1>4, <1>5 DEF Inv, TypeInv, AdapterTypes, HostTypes
<1>8. Settled' /\ RequestsInv'
  BY <1>1 DEF Inv, Settled, RequestsInv, WellFormed, Issued
<1>9. Announced'
  BY <1>1, <1>2, <1>3, <1>4 DEF Inv, Announced, Issued
<1>10. RecordsInv'
  BY <1>1, <1>2, <1>3, <1>4, <1>6 DEF Inv, RecordsInv, Issued
<1>11. NoneWanted'
  BY <1>1 DEF Inv, FreshInv, InRequest, NoneWanted, WantedIn, WantedRun, WantedOut
<1>12. CallInv'
  BY <1>5 DEF CallInv
<1> QED BY <1>7, <1>8, <1>9, <1>10, <1>11, <1>12, NoneWantedIsFresh DEF Inv, TypeInv

-----------------------------------------------------------------------------
(* The adapter.                                                             *)

\* A request about a token changes: the others do not.
LEMMA RequestChanges ==
  ASSUME AdapterTypes, NEW t \in Issued, NEW q \in RaisedType,
         requests' = [requests EXCEPT ![t] = q]
  PROVE  /\ requests' \in Seq(RaisedType) /\ Len(requests') <= MaxRequests
         /\ Issued' = Issued /\ requests'[t] = q
         /\ \A u \in Issued \ {t} : requests'[u] = requests[u]
<1>1. requests \in Seq(RaisedType) /\ t \in 1..Len(requests)
  BY LenProperties DEF AdapterTypes, Issued
<1>2. /\ requests' \in Seq(RaisedType) /\ Len(requests') = Len(requests)
      /\ \A u \in 1..Len(requests) : requests'[u] = IF u = t THEN q ELSE requests[u]
  BY <1>1, ExceptSeq
<1> QED BY <1>1, <1>2, LenProperties DEF AdapterTypes, Issued

LEMMA InboxTaken ==
  ASSUME inbox \in Seq(RequestType), inbox # <<>>, inbox' = Tail(inbox)
  PROVE  /\ inbox' \in Seq(RequestType)
         /\ 1 \in DOMAIN inbox /\ Head(inbox) = inbox[1] /\ inbox[1] \in RequestType
         /\ \A i \in DOMAIN inbox' :
              i \in Nat /\ i + 1 \in DOMAIN inbox /\ i + 1 # 1 /\ inbox'[i] = inbox[i + 1]
<1>1. /\ Tail(inbox) \in Seq(RequestType) /\ 1 \in DOMAIN inbox
      /\ inbox[1] \in RequestType /\ Head(inbox) = inbox[1]
      /\ \A i \in DOMAIN Tail(inbox) : i + 1 \in DOMAIN inbox /\ i + 1 # 1
                                       /\ Tail(inbox)[i] = inbox[i + 1]
  BY Taken
<1>2. DOMAIN Tail(inbox) \subseteq Nat
  BY <1>1, LenProperties
<1> QED BY <1>1, <1>2

\* The request that the adapter takes out of the inbox.
LEMMA Handled ==
  ASSUME Inv, inbox # <<>>, inbox' = Tail(inbox)
  PROVE  /\ inbox' \in Seq(RequestType) /\ Head(inbox) \in RequestType
         /\ WellFormed(Head(inbox))
         /\ \A i \in DOMAIN inbox' : WellFormed(inbox'[i])
         /\ \A i, j \in WantedIn' : i = j
         /\ \A i \in WantedIn' : Sought(inbox'[i])
         /\ NoneWanted => WantedIn' = {}
         /\ WantedIn' # {} => WantedIn # {}
         /\ Head(inbox).fresh =>
              /\ InRequest /\ Sought(Head(inbox))
              /\ WantedIn' = {} /\ WantedRun = {} /\ WantedOut = {}
<1>1. /\ inbox' \in Seq(RequestType)
      /\ 1 \in DOMAIN inbox /\ Head(inbox) = inbox[1] /\ inbox[1] \in RequestType
      /\ \A i \in DOMAIN inbox' :
           i \in Nat /\ i + 1 \in DOMAIN inbox /\ i + 1 # 1 /\ inbox'[i] = inbox[i + 1]
  BY InboxTaken DEF Inv, TypeInv, AdapterTypes
<1>2. WellFormed(Head(inbox)) /\ \A i \in DOMAIN inbox' : WellFormed(inbox'[i])
  BY <1>1 DEF Inv, RequestsInv
<1>3. \A i \in WantedIn' : i \in Nat /\ i + 1 # 1 /\ i + 1 \in WantedIn
                             /\ inbox'[i] = inbox[i + 1]
  BY <1>1 DEF WantedIn
<1>4. \A i, j \in WantedIn' : i = j
  <2> SUFFICES ASSUME NEW i \in WantedIn', NEW j \in WantedIn' PROVE i = j
    OBVIOUS
  <2>1. i + 1 = j + 1
    BY <1>3 DEF Inv, FreshInv, AtMostOne
  <2> QED BY <1>3, <2>1
<1>5. \A i \in WantedIn' : Sought(inbox'[i])
  BY <1>3 DEF Inv, FreshInv
<1>6. ASSUME Head(inbox).fresh
      PROVE  /\ InRequest /\ Sought(Head(inbox))
             /\ WantedIn' = {} /\ WantedRun = {} /\ WantedOut = {}
  <2>1. 1 \in WantedIn
    BY <1>1, <1>6 DEF WantedIn
  <2>2. InRequest /\ Sought(Head(inbox)) /\ WantedRun = {} /\ WantedOut = {}
    BY <1>1, <2>1 DEF Inv, FreshInv, NoneWanted, AtMostOne
  <2>3. WantedIn' = {}
    BY <1>1, <1>3, <2>1 DEF Inv, FreshInv, AtMostOne
  <2> QED BY <2>2, <2>3
<1> QED BY <1>1, <1>2, <1>3, <1>4, <1>5, <1>6 DEF NoneWanted

\* One more message on the wire.
LEMMA WireGrows ==
  ASSUME wire \in Seq(Message), NEW m \in Message, wire' = Append(wire, m)
  PROVE  LET n == Len(wire) + 1
         IN  /\ wire' \in Seq(Message) /\ n \in Nat /\ n \notin DOMAIN wire
             /\ DOMAIN wire' = DOMAIN wire \union {n}
             /\ (\A i \in DOMAIN wire : wire'[i] = wire[i]) /\ wire'[n] = m
             /\ WantedOut' = IF m.kind = "reply" /\ m.fresh THEN WantedOut \union {n}
                             ELSE WantedOut
<1> DEFINE n == Len(wire) + 1
<1>1. /\ wire' \in Seq(Message) /\ n \in Nat /\ n \notin DOMAIN wire
      /\ DOMAIN wire' = DOMAIN wire \union {n}
      /\ (\A i \in DOMAIN wire : wire'[i] = wire[i]) /\ wire'[n] = m
  BY Appended
<1> HIDE DEF n
<1>2. WantedOut' = IF m.kind = "reply" /\ m.fresh THEN WantedOut \union {n}
                   ELSE WantedOut
  BY <1>1 DEF WantedOut
<1> QED BY <1>1, <1>2 DEF n

LEMMA OpPageEvaluatePreserves ==
  ASSUME Inv, OpPageEvaluate, UNCHANGED <<records, artifacts, call, uploads, timeouts>>
  PROVE  Inv'
<1> PICK r : r = Head(inbox)
  OBVIOUS
<1> PICK e : e = [request |-> r, ran |-> FALSE]
  OBVIOUS
<1>1. /\ inbox # <<>> /\ inbox' = Tail(inbox) /\ r.op \in {"click", "name"}
      /\ evaluations' = Append(evaluations, e)
      /\ UNCHANGED <<wire, requests, clicks, files>>
  BY DEF OpPageEvaluate, Handles
<1>2. /\ inbox' \in Seq(RequestType) /\ r \in RequestType /\ WellFormed(r)
      /\ \A i \in DOMAIN inbox' : WellFormed(inbox'[i])
      /\ \A i, j \in WantedIn' : i = j
      /\ \A i \in WantedIn' : Sought(inbox'[i])
      /\ NoneWanted => WantedIn' = {}
      /\ WantedIn' # {} => WantedIn # {}
      /\ r.fresh => /\ InRequest /\ Sought(r)
                    /\ WantedIn' = {} /\ WantedRun = {} /\ WantedOut = {}
  BY <1>1, Handled
<1>3. e \in EvaluationType /\ e.request = r
  BY <1>2 DEF EvaluationType
<1> PICK n : n = Len(evaluations) + 1
  OBVIOUS
<1>4. /\ evaluations' \in Seq(EvaluationType) /\ n \notin DOMAIN evaluations
      /\ DOMAIN evaluations' = DOMAIN evaluations \union {n}
      /\ (\A i \in DOMAIN evaluations : evaluations'[i] = evaluations[i])
      /\ evaluations'[n] = e
  BY <1>1, <1>3, Appended DEF Inv, TypeInv, AdapterTypes
<1>5. WantedRun' = IF r.fresh THEN WantedRun \union {n} ELSE WantedRun
  BY <1>3, <1>4 DEF WantedRun
<1>6. TypeInv' /\ Settled' /\ Announced' /\ RecordsInv' /\ CallInv'
  BY <1>1, <1>2, <1>4
  DEF Inv, TypeInv, AdapterTypes, HostTypes, Settled, Announced, RecordsInv, CallInv,
      Issued
<1>7. RequestsInv'
  <2>1. \A i \in DOMAIN evaluations' :
          WellFormed(evaluations'[i].request) /\ evaluations'[i].request.op # "decide"
    BY <1>1, <1>2, <1>3, <1>4 DEF Inv, RequestsInv
  <2> QED BY <1>1, <1>2, <2>1 DEF RequestsInv, WellFormed, Issued
<1>8. FreshInv'
  <2>1. WantedOut' = WantedOut /\ InRequest' = InRequest
    BY <1>1 DEF WantedOut, InRequest
  <2>2. AtMostOne'
    BY <1>2, <1>5, <2>1 DEF Inv, FreshInv, AtMostOne
  <2>3. ~InRequest => NoneWanted'
    BY <1>2, <1>5, <2>1 DEF Inv, FreshInv, NoneWanted
  <2>4. ASSUME NEW i \in WantedRun' PROVE Sought(evaluations'[i].request)
    <3>1. CASE i = n
      BY <1>2, <1>3, <1>4, <1>5, <2>4, <3>1 DEF WantedRun
    <3>2. CASE i # n
      BY <1>4, <1>5, <3>2 DEF Inv, FreshInv, WantedRun
    <3> QED BY <3>1, <3>2
  <2> QED BY <1>1, <1>2, <2>1, <2>2, <2>3, <2>4 DEF Inv, FreshInv, Sought
<1> QED BY <1>6, <1>7, <1>8 DEF Inv

LEMMA OpPageDecidePreserves ==
  ASSUME Inv, OpPageDecide, UNCHANGED <<records, artifacts, call, uploads, timeouts>>
  PROVE  Inv'
<1> PICK r : r = Head(inbox)
  OBVIOUS
<1> PICK t, d, held : t = r.token /\ d = r.decision /\ held = requests[t].held
  OBVIOUS
<1> PICK m : m = Reply(r, held)
  OBVIOUS
<1>1. /\ inbox # <<>> /\ inbox' = Tail(inbox) /\ r.op = "decide"
      /\ requests' = IF held THEN [requests EXCEPT ![t].held = FALSE,
                                                   ![t].answers = Append(@, d)]
                     ELSE requests
      /\ Emit(<<m>>)
      /\ UNCHANGED <<evaluations, clicks, files>>
  BY DEF OpPageDecide, Handles
<1>2. /\ inbox' \in Seq(RequestType) /\ r \in RequestType /\ WellFormed(r)
      /\ \A i \in DOMAIN inbox' : WellFormed(inbox'[i])
      /\ \A i, j \in WantedIn' : i = j
      /\ \A i \in WantedIn' : Sought(inbox'[i])
      /\ NoneWanted => WantedIn' = {}
      /\ WantedIn' # {} => WantedIn # {}
      /\ r.fresh => /\ InRequest /\ Sought(r)
                    /\ WantedIn' = {} /\ WantedRun = {} /\ WantedOut = {}
  BY <1>1, Handled
<1>3. t \in Issued /\ d \in Decision
  BY <1>1, <1>2 DEF WellFormed
<1>4. requests \in Seq(RaisedType) /\ requests[t] \in RaisedType /\ AdapterTypes
  BY <1>3, ElementOfSeq, LenProperties DEF Inv, TypeInv, AdapterTypes, Issued
<1>5. held \in BOOLEAN
  BY <1>4 DEF RaisedType
<1> DEFINE q == [requests[t] EXCEPT !.held = FALSE, !.answers = Append(@, d)]
<1>6. held => /\ q \in RaisedType /\ ~q.held /\ q.answers = <<d>>
              /\ q.kind = requests[t].kind /\ q.stage = requests[t].stage
  <2> SUFFICES ASSUME held
               PROVE  /\ q \in RaisedType /\ ~q.held /\ q.answers = <<d>>
                      /\ q.kind = requests[t].kind /\ q.stage = requests[t].stage
    OBVIOUS
  <2>1. requests[t].answers = <<>>
    BY <1>3 DEF Inv, Settled
  <2>2. Append(requests[t].answers, d) = <<d>> /\ <<d>> \in Seq(Decision)
    BY <1>3, <2>1
  <2> QED BY <1>4, <2>2 DEF RaisedType
<1>7. held => requests' = [requests EXCEPT ![t] = q]
  BY <1>1, <1>3, <1>4, LenProperties DEF Issued
<1>8. /\ requests' \in Seq(RaisedType) /\ Len(requests') <= MaxRequests
      /\ Issued' = Issued
      /\ \A u \in Issued \ {t} : requests'[u] = requests[u]
      /\ ~held => requests' = requests
      /\ held => requests'[t] = q
  BY <1>1, <1>3, <1>4, <1>6, <1>7, RequestChanges DEF AdapterTypes, Issued
<1> HIDE DEF q
<1>9. /\ \A u \in Issued : requests'[u].kind = requests[u].kind
                           /\ requests'[u].stage = requests[u].stage
      /\ \A u \in Issued : requests[u].answers # <<>>
                             => requests'[u].answers = requests[u].answers
      /\ held => requests'[t].answers = <<d>>
  <2>1. held => requests[t].answers = <<>>
    BY <1>3 DEF Inv, Settled
  <2> QED BY <1>3, <1>6, <1>8, <2>1
<1>10. m \in Message /\ m.kind = "reply" /\ m.ok = held /\ m.fresh = r.fresh
  BY <1>2, <1>5, MessageTypes
<1> PICK n : n = Len(wire) + 1
  OBVIOUS
<1>11. /\ wire' \in Seq(Message) /\ n \notin DOMAIN wire
       /\ DOMAIN wire' = DOMAIN wire \union {n}
       /\ (\A i \in DOMAIN wire : wire'[i] = wire[i]) /\ wire'[n] = m
       /\ WantedOut' = IF r.fresh THEN WantedOut \union {n} ELSE WantedOut
  BY <1>1, <1>4, <1>10, EmitsOne, WireGrows DEF AdapterTypes
<1>12. TypeInv'
  BY <1>1, <1>2, <1>8, <1>11 DEF Inv, TypeInv, AdapterTypes, HostTypes
<1>13. Settled'
  <2> SUFFICES ASSUME NEW u \in Issued
               PROVE  /\ IF requests'[u].held THEN requests'[u].answers = <<>>
                         ELSE \E a \in Decision : requests'[u].answers = <<a>>
                      /\ requests'[u].stage # "none" => requests'[u].kind = "download"
    BY <1>8 DEF Settled
  <2>1. CASE held /\ u = t
    BY <1>3, <1>6, <1>8, <1>9, <2>1 DEF Inv, Settled
  <2>2. CASE ~(held /\ u = t)
    BY <1>8, <2>2 DEF Inv, Settled
  <2> QED BY <2>1, <2>2
<1>14. RequestsInv'
  BY <1>1, <1>2, <1>8 DEF Inv, RequestsInv, WellFormed
<1>15. Announced'
  BY <1>8, <1>9, <1>10, <1>11 DEF Inv, Announced
<1>16. RecordsInv'
  <2>1. \A u \in Issued : records[u].decision # Undecided
          => requests'[u].answers = requests[u].answers
    <3>1. \A x : <<x>> # <<>>
      OBVIOUS
    <3> QED BY <1>9, <3>1 DEF Inv, RecordsInv
  <2> QED BY <1>8, <1>9, <2>1 DEF Inv, RecordsInv
<1>17. FreshInv'
  <2>1. WantedRun' = WantedRun /\ InRequest' = InRequest
    BY <1>1 DEF WantedRun, InRequest
  <2>2. AtMostOne'
    BY <1>2, <1>11, <2>1 DEF Inv, FreshInv, AtMostOne
  <2>3. ~InRequest => NoneWanted'
    BY <1>2, <1>11, <2>1 DEF Inv, FreshInv, NoneWanted
  <2>4. ASSUME NEW i \in WantedOut', call.stage = "decide", wire'[i].ok
        PROVE  requests'[call.token].answers = <<call.decision>>
    <3>1. CASE i = n
      <4>1. r.fresh /\ held
        BY <1>10, <1>11, <2>4, <3>1 DEF WantedOut
      <4>2. t = call.token /\ d = call.decision
        BY <1>1, <1>2, <4>1 DEF Sought
      <4> QED BY <1>9, <4>1, <4>2
    <3>2. CASE i # n
      <4>1. i \in WantedOut /\ wire[i].ok
        BY <1>11, <2>4, <3>2 DEF WantedOut
      <4>2. requests[call.token].answers = <<call.decision>>
        BY <2>4, <4>1 DEF Inv, FreshInv
      <4>3. call.token \in Issued
        BY <2>4 DEF Inv, CallInv
      <4> QED BY <1>9, <4>2, <4>3
    <3> QED BY <3>1, <3>2
  <2> QED BY <1>1, <1>2, <2>1, <2>2, <2>3, <2>4 DEF Inv, FreshInv, Sought
<1>18. CallInv'
  BY <1>8, <1>9 DEF Inv, CallInv
<1> QED BY <1>12, <1>13, <1>14, <1>15, <1>16, <1>17, <1>18 DEF Inv

LEMMA RaisesPreserves ==
  ASSUME Inv, NEW kind, NEW cause \in 0..MaxUploads, Raises(kind, cause),
         UNCHANGED <<inbox, evaluations, files>>, clicks' \subseteq clicks,
         UNCHANGED <<records, artifacts, call, uploads, timeouts>>
  PROVE  Inv'
<1> PICK t : t = Len(requests) + 1
  OBVIOUS
<1> PICK q : q = Raised(kind, cause)
  OBVIOUS
<1> PICK m : m = Event("raised", t)
  OBVIOUS
<1>1. /\ kind \in Kinds /\ Len(requests) < MaxRequests
      /\ requests' = Append(requests, q) /\ Emit(<<m>>)
  BY DEF Raises
<1>2. /\ q \in RaisedType /\ q.held /\ q.answers = <<>> /\ q.kind = kind
      /\ q.stage # "none" => kind = "download"
  BY <1>1, RaisedTypes
<1>3. /\ requests' \in Seq(RaisedType) /\ Len(requests') = t /\ t \in Nat
      /\ t \notin Issued /\ Issued' = Issued \union {t}
      /\ (\A u \in Issued : requests'[u] = requests[u]) /\ requests'[t] = q
  BY <1>1, <1>2, Appended DEF Inv, TypeInv, AdapterTypes, Issued
<1>4. t \in Tokens /\ Len(requests') <= MaxRequests
  BY <1>1, <1>3, RequestsAssumption, LenProperties
  DEF Tokens, Inv, TypeInv, AdapterTypes
<1>5. m \in Message /\ m.kind = "raised" /\ m.token = t
  BY <1>4, MessageTypes
<1> PICK n : n = Len(wire) + 1
  OBVIOUS
<1>6. /\ wire' \in Seq(Message) /\ n \notin DOMAIN wire
      /\ DOMAIN wire' = DOMAIN wire \union {n}
      /\ (\A i \in DOMAIN wire : wire'[i] = wire[i]) /\ wire'[n] = m
      /\ WantedOut' = WantedOut
  BY <1>1, <1>5, EmitsOne, WireGrows DEF Inv, TypeInv, AdapterTypes
<1>7. TypeInv'
  BY <1>3, <1>4, <1>6 DEF Inv, TypeInv, AdapterTypes, HostTypes
<1>8. Settled'
  BY <1>2, <1>3 DEF Inv, Settled
<1>9. RequestsInv'
  BY <1>3 DEF Inv, RequestsInv, WellFormed
<1>10. records[t] = Unknown
  BY <1>3, <1>4 DEF Inv, RecordsInv
<1>11. Announced'
  <2>1. \A i \in DOMAIN wire : wire[i].kind = "raised" => wire[i].token # t
    BY <1>3 DEF Inv, Announced
  <2> QED BY <1>3, <1>5, <1>6, <1>10, <2>1 DEF Inv, Announced
<1>12. RecordsInv'
  BY <1>3, <1>10, UnknownTypes DEF Inv, RecordsInv
<1>13. FreshInv'
  <2>1. WantedIn' = WantedIn /\ WantedRun' = WantedRun /\ InRequest' = InRequest
    BY DEF WantedIn, WantedRun, InRequest
  <2>2. \A i \in WantedOut : i \in DOMAIN wire
    BY DEF WantedOut
  <2>3. call.stage = "decide" => call.token \in Issued
    BY DEF Inv, CallInv
  <2> QED BY <1>3, <1>6, <2>1, <2>2, <2>3
      DEF Inv, FreshInv, AtMostOne, NoneWanted, Sought
<1>14. CallInv'
  BY <1>3, <1>10, UnknownTypes DEF Inv, CallInv
<1> QED BY <1>7, <1>8, <1>9, <1>11, <1>12, <1>13, <1>14 DEF Inv

LEMMA RequestsAreRaised ==
  ASSUME Inv, PermissionRequest \/ RunFileChooser \/ DownloadStarted,
         UNCHANGED <<records, artifacts, call, uploads, timeouts>>
  PROVE  Inv'
<1>1. 0 \in 0..MaxUploads /\ clicks \subseteq 0..MaxUploads
  BY RequestsAssumption DEF Inv, TypeInv, AdapterTypes
<1>2. CASE PermissionRequest
  BY <1>1, <1>2, RaisesPreserves DEF PermissionRequest
<1>3. CASE RunFileChooser
  <2>1. PICK c \in clicks \union {0} :
          /\ Raises("chooser", c) /\ clicks' = clicks \ {c}
          /\ UNCHANGED <<inbox, evaluations, files>>
    BY <1>3 DEF RunFileChooser
  <2> QED BY <1>1, <2>1, RaisesPreserves
<1>4. CASE DownloadStarted
  BY <1>1, <1>4, RaisesPreserves DEF DownloadStarted
<1> QED BY <1>2, <1>3, <1>4

\* Of a transfer, only its end is announced, and nothing is decided.
LEMMA TransferPreserves ==
  ASSUME Inv, NEW t \in Issued, NEW q \in RaisedType,
         requests[t].stage # "none", requests' = [requests EXCEPT ![t] = q],
         q.kind = requests[t].kind, q.held = requests[t].held,
         q.answers = requests[t].answers,
         UNCHANGED <<inbox, evaluations, clicks>>, files' \in [Names -> Content],
         UNCHANGED <<records, artifacts, call, uploads, timeouts>>,
         wire' \in Seq(Message),
         \A i \in DOMAIN wire' :
           \/ i \in DOMAIN wire /\ wire'[i] = wire[i]
           \/ wire'[i].kind \in {"finished", "failed"} /\ wire'[i].token = t
  PROVE  Inv'
<1>1. /\ requests' \in Seq(RaisedType) /\ Len(requests') <= MaxRequests
      /\ Issued' = Issued /\ requests'[t] = q
      /\ \A u \in Issued \ {t} : requests'[u] = requests[u]
  BY RequestChanges DEF Inv, TypeInv
<1>2. \A u \in Issued : /\ requests'[u].kind = requests[u].kind
                        /\ requests'[u].held = requests[u].held
                        /\ requests'[u].answers = requests[u].answers
  BY <1>1
<1>3. requests[t].kind = "download"
  BY DEF Inv, Settled
<1>4. TypeInv'
  BY <1>1 DEF Inv, TypeInv, AdapterTypes, HostTypes
<1>5. Settled'
  <2> SUFFICES ASSUME NEW u \in Issued
               PROVE  /\ IF requests'[u].held THEN requests'[u].answers = <<>>
                         ELSE \E a \in Decision : requests'[u].answers = <<a>>
                      /\ requests'[u].stage # "none" => requests'[u].kind = "download"
    BY <1>1 DEF Settled
  <2>1. IF requests[u].held THEN requests[u].answers = <<>>
        ELSE \E a \in Decision : requests[u].answers = <<a>>
    BY DEF Inv, Settled
  <2>2. requests'[u].stage # "none" => requests'[u].kind = "download"
    BY <1>1, <1>2, <1>3 DEF Inv, Settled
  <2> QED BY <1>2, <2>1, <2>2
<1>6. RequestsInv'
  BY <1>1 DEF Inv, RequestsInv, WellFormed
<1>7. Announced'
  <2>1. \A i \in DOMAIN wire' : wire'[i].kind = "raised"
          => i \in DOMAIN wire /\ wire'[i] = wire[i]
    OBVIOUS
  <2>2. ASSUME NEW i \in DOMAIN wire', wire'[i].kind = "raised"
        PROVE  /\ wire'[i].token \in Issued
               /\ requests'[wire'[i].token].kind # "download"
                    => records[wire'[i].token] = Unknown
    BY <1>2, <2>1, <2>2 DEF Inv, Announced
  <2>3. ASSUME NEW i \in DOMAIN wire', NEW j \in DOMAIN wire',
               wire'[i].kind = "raised", wire'[j].kind = "raised",
               wire'[i].token = wire'[j].token
        PROVE  i = j
    BY <2>1, <2>3 DEF Inv, Announced
  <2>4. ASSUME NEW i \in DOMAIN wire', wire'[i].kind \in {"finished", "failed"}
        PROVE  wire'[i].token \in Issued /\ requests'[wire'[i].token].kind = "download"
    BY <1>2, <1>3, <2>4 DEF Inv, Announced
  <2> QED BY <1>1, <2>2, <2>3, <2>4 DEF Announced
<1>8. RecordsInv'
  BY <1>1, <1>2 DEF Inv, RecordsInv
<1>9. FreshInv'
  <2>1. WantedIn' = WantedIn /\ WantedRun' = WantedRun /\ InRequest' = InRequest
    BY DEF WantedIn, WantedRun, InRequest
  <2>2. \A i \in WantedOut' : i \in WantedOut /\ wire'[i] = wire[i]
    BY DEF WantedOut
  <2>3. call.stage = "decide" => call.token \in Issued
    BY DEF Inv, CallInv
  <2> QED BY <1>2, <2>1, <2>2, <2>3
      DEF Inv, FreshInv, AtMostOne, NoneWanted, Sought
<1>10. CallInv'
  BY <1>1, <1>2 DEF Inv, CallInv
<1> QED BY <1>4, <1>5, <1>6, <1>7, <1>8, <1>9, <1>10 DEF Inv

LEMMA TransfersPreserve ==
  ASSUME Inv, NEW t \in Issued,
         DecideDestination(t) \/ DownloadFinishes(t) \/ DownloadFails(t),
         UNCHANGED <<records, artifacts, call, uploads, timeouts>>
  PROVE  Inv'
<1>1. /\ requests \in Seq(RaisedType) /\ requests[t] \in RaisedType
      /\ wire \in Seq(Message) /\ files \in [Names -> Content]
  BY ElementOfSeq, LenProperties DEF Inv, TypeInv, AdapterTypes, Issued
<1>2. t \in Tokens /\ t \in 0..MaxRequests /\ t \in DOMAIN requests
  BY RequestsAssumption, LenProperties
  DEF Inv, TypeInv, AdapterTypes, Issued, Tokens
<1>3. Part(t) \in Content /\ Whole(t) \in Content /\ NoFile \in Content
  BY <1>2, RequestsAssumption DEF Part, Whole, NoFile, Content
<1>4. CASE DecideDestination(t)
  <2>1. PICK n \in Names :
          /\ requests[t].stage = "started"
          /\ requests' = [requests EXCEPT ![t].stage = "writing", ![t].name = n]
          /\ files' = [files EXCEPT ![n] = Part(t)]
          /\ UNCHANGED <<inbox, wire, evaluations, clicks>>
    BY <1>4 DEF DecideDestination, Transfer
  <2> DEFINE q == [requests[t] EXCEPT !.stage = "writing", !.name = n]
  <2>2. /\ q \in RaisedType /\ q.kind = requests[t].kind /\ q.held = requests[t].held
        /\ q.answers = requests[t].answers
    BY <1>1 DEF RaisedType
  <2>3. requests' = [requests EXCEPT ![t] = q]
    BY <1>1, <1>2, <2>1
  <2>4. files' \in [Names -> Content]
    BY <1>1, <1>3, <2>1
  <2>5. PICK p : p = q
    OBVIOUS
  <2> HIDE DEF q
  <2> QED BY <1>1, <2>1, <2>2, <2>3, <2>4, <2>5, TransferPreserves
<1>5. CASE DownloadFinishes(t)
  <2> PICK m : m = Event("finished", t)
    OBVIOUS
  <2> PICK p : p = [requests[t] EXCEPT !.stage = "finished"]
    OBVIOUS
  <2>1. /\ requests[t].stage = "writing"
        /\ requests' = [requests EXCEPT ![t].stage = "finished"]
        /\ files' = [files EXCEPT ![requests[t].name] = Whole(t)]
        /\ Emit(<<m>>)
        /\ UNCHANGED <<inbox, evaluations, clicks>>
    BY <1>5 DEF DownloadFinishes, Transfer
  <2>2. /\ p \in RaisedType /\ p.kind = requests[t].kind /\ p.held = requests[t].held
        /\ p.answers = requests[t].answers
    BY <1>1 DEF RaisedType
  <2>3. requests' = [requests EXCEPT ![t] = p]
    BY <1>1, <1>2, <2>1
  <2>4. files' \in [Names -> Content]
    BY <1>1, <1>3, <2>1
  <2>5. m \in Message /\ m.kind = "finished" /\ m.token = t
    BY <1>2, MessageTypes
  <2>6. wire' = Append(wire, m)
    BY <1>1, <2>1, <2>5, EmitsOne
  <2>7. /\ wire' \in Seq(Message)
        /\ \A i \in DOMAIN wire' :
             \/ i \in DOMAIN wire /\ wire'[i] = wire[i]
             \/ wire'[i].kind \in {"finished", "failed"} /\ wire'[i].token = t
    BY <1>1, <2>5, <2>6, WireGrows
  <2> QED BY <2>1, <2>2, <2>3, <2>4, <2>7, TransferPreserves
<1>6. CASE DownloadFails(t)
  <2> PICK m, e : m = Event("failed", t) /\ e = Event("finished", t)
    OBVIOUS
  <2> PICK p : p = [requests[t] EXCEPT !.stage = "failed"]
    OBVIOUS
  <2> PICK s : s = Append(wire, m)
    OBVIOUS
  <2>1. /\ requests[t].stage \in {"started", "writing"}
        /\ requests' = [requests EXCEPT ![t].stage = "failed"]
        /\ files' = [n \in Names |-> IF n = requests[t].name THEN NoFile ELSE files[n]]
        /\ Emit(<<m, e>>)
        /\ UNCHANGED <<inbox, evaluations, clicks>>
    BY <1>6 DEF DownloadFails, Transfer
  <2>2. /\ p \in RaisedType /\ p.kind = requests[t].kind /\ p.held = requests[t].held
        /\ p.answers = requests[t].answers
    BY <1>1 DEF RaisedType
  <2>3. requests' = [requests EXCEPT ![t] = p]
    BY <1>1, <1>2, <2>1
  <2>4. files' \in [Names -> Content]
    BY <1>1, <1>3, <2>1
  <2>5. /\ m \in Message /\ m.kind = "failed" /\ m.token = t
        /\ e \in Message /\ e.kind = "finished" /\ e.token = t
    BY <1>2, MessageTypes
  <2>6. /\ s \in Seq(Message)
        /\ \A i \in DOMAIN s : (i \in DOMAIN wire /\ s[i] = wire[i]) \/ s[i] = m
    BY <1>1, <2>5, Appended
  <2>7. wire' = Append(s, e)
    BY <1>1, <2>1, <2>5, EmitsTwo
  <2>8. /\ wire' \in Seq(Message)
        /\ \A i \in DOMAIN wire' : (i \in DOMAIN s /\ wire'[i] = s[i]) \/ wire'[i] = e
    BY <2>5, <2>6, <2>7, Appended
  <2>9. \A i \in DOMAIN wire' :
          \/ i \in DOMAIN wire /\ wire'[i] = wire[i]
          \/ wire'[i].kind \in {"finished", "failed"} /\ wire'[i].token = t
    BY <2>5, <2>6, <2>8
  <2> QED BY <2>1, <2>2, <2>3, <2>4, <2>8, <2>9, TransferPreserves
<1> QED BY <1>4, <1>5, <1>6

LEMMA ScriptRunsPreserves ==
  ASSUME Inv, ScriptRuns, UNCHANGED <<records, artifacts, call, uploads, timeouts>>
  PROVE  Inv'
<1>1. PICK i \in DOMAIN evaluations :
        /\ evaluations' = [evaluations EXCEPT ![i].ran = TRUE]
        /\ clicks' = IF evaluations[i].request.op = "click"
                     THEN clicks \union {evaluations[i].request.decision.upload}
                     ELSE clicks
        /\ UNCHANGED <<inbox, wire, requests, files>>
  BY DEF ScriptRuns
<1>2. /\ evaluations \in Seq(EvaluationType) /\ DOMAIN evaluations = 1..Len(evaluations)
      /\ \A j \in DOMAIN evaluations : evaluations[j] \in EvaluationType
  BY ElementOfSeq, LenProperties DEF Inv, TypeInv, AdapterTypes
<1>3. /\ DOMAIN evaluations' = DOMAIN evaluations
      /\ \A j \in DOMAIN evaluations :
           evaluations'[j] \in EvaluationType
           /\ evaluations'[j].request = evaluations[j].request
  BY <1>1, <1>2 DEF EvaluationType
<1>4. evaluations' \in Seq(EvaluationType)
  BY <1>1, <1>2, <1>3, Mapped
<1>5. clicks' \subseteq 1..MaxUploads
  <2>1. evaluations[i].request.op = "click"
          => evaluations[i].request.decision.upload \in 1..MaxUploads
    BY DEF Inv, RequestsInv, WellFormed
  <2> QED BY <1>1, <2>1 DEF Inv, TypeInv, AdapterTypes
<1>6. TypeInv'
  BY <1>1, <1>4, <1>5 DEF Inv, TypeInv, AdapterTypes, HostTypes
<1>7. Settled' /\ Announced' /\ RecordsInv' /\ CallInv'
  BY <1>1 DEF Inv, Settled, Announced, RecordsInv, CallInv, Issued
<1>8. RequestsInv'
  BY <1>1, <1>3 DEF Inv, RequestsInv, WellFormed, Issued
<1>9. FreshInv'
  <2>1. /\ WantedIn' = WantedIn /\ WantedRun' = WantedRun /\ WantedOut' = WantedOut
        /\ InRequest' = InRequest
    BY <1>1, <1>3 DEF WantedIn, WantedRun, WantedOut, InRequest
  <2>2. \A j \in WantedRun : j \in DOMAIN evaluations
    BY DEF WantedRun
  <2> QED BY <1>1, <1>3, <2>1, <2>2
      DEF Inv, FreshInv, AtMostOne, NoneWanted, Sought
<1> QED BY <1>6, <1>7, <1>8, <1>9 DEF Inv

LEMMA EvaluationRepliesPreserves ==
  ASSUME Inv, EvaluationReplies,
         UNCHANGED <<records, artifacts, call, uploads, timeouts>>
  PROVE  Inv'
<1> PICK r : r = Head(evaluations).request
  OBVIOUS
<1> PICK m : m = Reply(r, TRUE)
  OBVIOUS
<1>1. /\ evaluations # <<>> /\ evaluations' = Tail(evaluations) /\ Emit(<<m>>)
      /\ UNCHANGED <<inbox, requests, clicks, files>>
  BY DEF EvaluationReplies
<1>2. /\ evaluations' \in Seq(EvaluationType) /\ 1 \in DOMAIN evaluations
      /\ r = evaluations[1].request /\ evaluations[1] \in EvaluationType
      /\ \A i \in DOMAIN evaluations' :
           i + 1 \in DOMAIN evaluations /\ i + 1 # 1
           /\ evaluations'[i] = evaluations[i + 1]
  BY <1>1, Taken DEF Inv, TypeInv, AdapterTypes
<1>3. DOMAIN evaluations' \subseteq Nat
  BY <1>2, LenProperties
<1>4. r \in RequestType /\ r.op # "decide"
  BY <1>2 DEF EvaluationType, Inv, RequestsInv
<1>5. m \in Message /\ m.kind = "reply" /\ m.fresh = r.fresh
  BY <1>4, MessageTypes
<1> PICK n : n = Len(wire) + 1
  OBVIOUS
<1>6. /\ wire' \in Seq(Message) /\ n \notin DOMAIN wire
      /\ DOMAIN wire' = DOMAIN wire \union {n}
      /\ (\A i \in DOMAIN wire : wire'[i] = wire[i]) /\ wire'[n] = m
      /\ WantedOut' = IF r.fresh THEN WantedOut \union {n} ELSE WantedOut
  BY <1>1, <1>5, EmitsOne, WireGrows DEF Inv, TypeInv, AdapterTypes
<1>7. TypeInv'
  BY <1>1, <1>2, <1>6 DEF Inv, TypeInv, AdapterTypes, HostTypes
<1>8. Settled' /\ RecordsInv' /\ CallInv'
  BY <1>1 DEF Inv, Settled, RecordsInv, CallInv, Issued
<1>9. RequestsInv'
  BY <1>1, <1>2 DEF Inv, RequestsInv, WellFormed, Issued
<1>10. Announced'
  BY <1>1, <1>5, <1>6 DEF Inv, Announced, Issued
<1>11. FreshInv'
  <2>1. \A i \in WantedRun' : /\ i \in Nat /\ i + 1 # 1 /\ i + 1 \in WantedRun
                              /\ evaluations'[i] = evaluations[i + 1]
    BY <1>2, <1>3 DEF WantedRun
  <2>2. \A i, j \in WantedRun' : i = j
    <3> SUFFICES ASSUME NEW i \in WantedRun', NEW j \in WantedRun' PROVE i = j
      OBVIOUS
    <3>1. i + 1 = j + 1
      BY <2>1 DEF Inv, FreshInv, AtMostOne
    <3> QED BY <2>1, <3>1
  <2>3. r.fresh => /\ WantedRun' = {} /\ WantedIn = {} /\ WantedOut = {}
                   /\ InRequest /\ call.stage # "decide"
    <3> SUFFICES ASSUME r.fresh
                 PROVE  /\ WantedRun' = {} /\ WantedIn = {} /\ WantedOut = {}
                        /\ InRequest /\ call.stage # "decide"
      OBVIOUS
    <3>1. 1 \in WantedRun
      BY <1>2 DEF WantedRun
    <3>2. WantedIn = {} /\ WantedOut = {} /\ InRequest
      BY <3>1 DEF Inv, FreshInv, AtMostOne, NoneWanted
    <3>3. call.stage # "decide"
      BY <1>2, <1>4, <3>1 DEF Inv, FreshInv, Sought
    <3>4. WantedRun' = {}
      BY <2>1, <3>1 DEF Inv, FreshInv, AtMostOne
    <3> QED BY <3>2, <3>3, <3>4
  <2>4. WantedIn' = WantedIn /\ InRequest' = InRequest
    BY <1>1 DEF WantedIn, InRequest
  <2>5. WantedRun' # {} => WantedRun # {}
    BY <2>1
  <2>6. AtMostOne'
    BY <1>6, <2>2, <2>3, <2>4, <2>5 DEF Inv, FreshInv, AtMostOne
  <2>7. ~InRequest => NoneWanted'
    BY <1>6, <2>3, <2>4, <2>5 DEF Inv, FreshInv, NoneWanted
  <2>8. \A i \in WantedRun' : Sought(evaluations'[i].request)
    BY <2>1 DEF Inv, FreshInv
  <2>9. \A i \in WantedOut' : call.stage = "decide" /\ wire'[i].ok
          => requests[call.token].answers = <<call.decision>>
    <3>1. \A i \in WantedOut : i \in DOMAIN wire
      BY DEF WantedOut
    <3> QED BY <1>6, <2>3, <3>1 DEF Inv, FreshInv
  <2> QED BY <1>1, <2>4, <2>6, <2>7, <2>8, <2>9 DEF Inv, FreshInv, Sought
<1> QED BY <1>7, <1>8, <1>9, <1>10, <1>11 DEF Inv

-----------------------------------------------------------------------------
(* The step, and the theorems.                                              *)

LEMMA HostPreserves ==
  ASSUME Inv, Host
  PROVE  Inv'
<1>1. ASSUME NEW t \in Issued,
             ActPermission(t, Allow) \/ ActPermission(t, Deny) \/ ActDownload(t)
      PROVE  Inv'
  <2>1. CASE ActPermission(t, Allow)
    BY <2>1, DecisionTypes, ActPermissionPreserves
  <2>2. CASE ActPermission(t, Deny)
    BY <2>2, DecisionTypes, ActPermissionPreserves
  <2>3. CASE ActDownload(t)
    BY <2>3, CallsPreserve
  <2> QED BY <1>1, <2>1, <2>2, <2>3
<1>2. CASE ActUpload
  BY <1>2, ActUploadPreserves
<1>3. CASE Await \/ Deadline \/ DrainEnds \/ DownloadRefused \/ ReadsDownload
  BY <1>3, CallsPreserve
<1>4. CASE TakeEvent
  BY <1>4, TakeEventPreserves
<1>5. CASE RequestTimesOut \/ MeetsLateReply
  BY <1>5, GiveUpsPreserve
<1>6. CASE RequestRefused
  BY <1>6, RequestRefusedPreserves
<1>7. CASE Clicked
  BY <1>7, ClickedPreserves
<1>8. CASE PermissionResolved
  BY <1>8, PermissionResolvedPreserves
<1>9. CASE FileSelected
  BY <1>9, FileSelectedPreserves
<1>10. CASE NameRead
  BY <1>10, NameReadPreserves
<1>11. CASE ChooserArrives
  BY <1>11, ChooserArrivesPreserves
<1>12. CASE StoresDownload
  BY <1>12, StoresDownloadPreserves
<1> QED
  BY <1>1, <1>2, <1>3, <1>4, <1>5, <1>6, <1>7, <1>8, <1>9, <1>10, <1>11, <1>12 DEF Host

LEMMA AdapterPreserves ==
  ASSUME Inv, AdapterStep
  PROVE  Inv'
<1>1. UNCHANGED <<records, artifacts, call, uploads, timeouts>>
  BY DEF AdapterStep, evidence
<1>2. CASE OpPageEvaluate
  BY <1>1, <1>2, OpPageEvaluatePreserves
<1>3. CASE OpPageDecide
  BY <1>1, <1>3, OpPageDecidePreserves
<1>4. CASE PermissionRequest \/ RunFileChooser \/ DownloadStarted
  BY <1>1, <1>4, RequestsAreRaised
<1>5. CASE \E t \in Issued :
             DecideDestination(t) \/ DownloadFinishes(t) \/ DownloadFails(t)
  BY <1>1, <1>5, TransfersPreserve
<1>6. CASE ScriptRuns
  BY <1>1, <1>6, ScriptRunsPreserves
<1>7. CASE EvaluationReplies
  BY <1>1, <1>7, EvaluationRepliesPreserves
<1> QED BY <1>2, <1>3, <1>4, <1>5, <1>6, <1>7 DEF AdapterStep, Adapter

LEMMA StutterPreserves ==
  ASSUME Inv, UNCHANGED vars
  PROVE  Inv'
BY DEF vars, adapter, evidence, Inv, TypeInv, AdapterTypes, HostTypes, Settled,
       RequestsInv, WellFormed, Announced, RecordsInv, FreshInv, AtMostOne,
       NoneWanted, WantedIn, WantedRun, WantedOut, Sought, InRequest, CallInv,
       Issued

LEMMA InvInductive ==
  Spec => []Inv
<1>1. Inv /\ [Next]_vars => Inv'
  BY HostPreserves, AdapterPreserves, StutterPreserves DEF Next
<1> QED BY <1>1, InitHolds, PTL DEF Spec

\* Every variable keeps its type (native_adapter.rs:52-73,
\* webkitgtk_backend.py:107-112).
THEOREM TypeCorrect ==
  Spec => []TypeOK
<1>1. Inv => TypeOK
  <2> SUFFICES ASSUME Inv PROVE TypeOK
    OBVIOUS
  <2>1. \A i \in DOMAIN inbox : inbox[i] \in RequestType
    BY ElementOfSeq, LenProperties DEF Inv, TypeInv, AdapterTypes
  <2>2. \A i \in DOMAIN wire : wire[i] \in Message
    BY ElementOfSeq, LenProperties DEF Inv, TypeInv, AdapterTypes
  <2>3. /\ Issued \subseteq Tokens
        /\ \A t \in Issued : requests[t] \in RaisedType
    BY ElementOfSeq, LenProperties, RequestsAssumption
    DEF Inv, TypeInv, AdapterTypes, Issued, Tokens
  <2>4. \A i \in DOMAIN inbox : inbox[i].op \in {"click", "name", "decide"}
    BY <2>1 DEF RequestType
  <2>5. \A i \in DOMAIN wire :
          wire[i].kind \in {"raised", "finished", "failed", "reply"}
    BY <2>2, MessageParts
  <2>6. \A t \in Issued :
          /\ requests[t].kind \in Kinds /\ requests[t].held \in BOOLEAN
          /\ requests[t].answers \in Seq(Decision)
          /\ requests[t].name \in Names \union {None}
          /\ requests[t].stage \in {"none", "started", "writing", "finished", "failed"}
    BY <2>3 DEF RaisedType
  <2>7. \A t \in Tokens :
          /\ records[t].decision \in Decision \union {Undecided}
          /\ records[t].status \in {"absent", "pending", "resolved", "completed",
                                    "failed", "quarantined"}
    BY DEF Inv, TypeInv, HostTypes, RecordType, DecisionOrNone
  <2>8. /\ call.stage \in {"none", "click", "chooser", "decide", "name", "transfer",
                           "store", "drain"}
        /\ uploads \in 0..MaxUploads /\ timeouts \in 0..MaxTimeouts
        /\ clicks \subseteq 1..MaxUploads
    BY DEF Inv, TypeInv, AdapterTypes, HostTypes, CallType
  <2> QED BY <2>3, <2>4, <2>5, <2>6, <2>7, <2>8 DEF TypeOK
<1> QED BY <1>1, InvInductive, PTL

-----------------------------------------------------------------------------
(* The refinement.                                                          *)

Applied(t) ==
  IF t \in Issued /\ requests[t].answers # <<>>
  THEN requests[t].answers[Len(requests[t].answers)] ELSE Undecided

\* What BrowserDecision sees of a step: what is issued, applied and recorded.
LEMMA PromiseStutters ==
  ASSUME Inv, UNCHANGED Issued,
         \A t \in Issued : requests'[t].answers = requests[t].answers,
         \A t \in Tokens : records'[t].decision = records[t].decision
  PROVE  UNCHANGED Promise!decisionVars
BY DEF Promise!decisionVars, Issued

LEMMA PromiseAsks ==
  ASSUME Inv, NEW r \in Tokens \ Issued, Issued' = Issued \union {r},
         \A t \in Issued : requests'[t] = requests[t],
         requests'[r].answers = <<>>, UNCHANGED records
  PROVE  Promise!Next
<1>1. \A t \in Tokens : Applied(t)' = Applied(t)
  BY DEF Applied
<1>2. Promise!Ask(r)
  BY <1>1 DEF Promise!Ask, Applied
<1> QED BY <1>2 DEF Promise!Next

LEMMA PromiseDecides ==
  ASSUME Inv, NEW r \in Issued, r \in Tokens, NEW d \in Decision, UNCHANGED <<Issued, records>>,
         requests[r].answers = <<>>, requests'[r].answers = <<d>>,
         \A t \in Issued \ {r} : requests'[t] = requests[t]
  PROVE  Promise!Next
<1>1. <<d>> # <<>> /\ Len(<<d>>) = 1 /\ <<d>>[1] = d
  OBVIOUS
<1>2. Applied(r) = Undecided /\ Applied(r)' = d
  BY <1>1 DEF Applied
<1>3. \A t \in Tokens \ {r} : Applied(t)' = Applied(t)
  BY DEF Applied
<1>4. [t \in Tokens |-> Applied(t)'] = [[t \in Tokens |-> Applied(t)] EXCEPT ![r] = d]
  BY <1>2, <1>3
<1>5. Promise!Decide(r, d)
  BY <1>2, <1>4 DEF Promise!Decide, Applied
<1> QED BY <1>5 DEF Promise!Next

LEMMA PromiseRecords ==
  ASSUME Inv, NEW r \in Issued, r \in Tokens, UNCHANGED requests,
         call.stage = "decide", ReplyIs(TRUE, TRUE), Resolves(r), r = call.token
  PROVE  Promise!Next
<1> PICK d : d = call.decision
  OBVIOUS
<1>1. requests[r].answers = <<d>> /\ d \in Decision /\ records[r].decision = Undecided
  <2>1. wire # <<>> /\ wire[1].kind = "reply" /\ wire[1].fresh = TRUE /\ wire[1].ok = TRUE
        /\ 1 \in DOMAIN wire
    BY Taken DEF ReplyIs, Inv, TypeInv, AdapterTypes
  <2>2. 1 \in WantedOut
    BY <2>1 DEF WantedOut
  <2> QED BY <2>1, <2>2 DEF Inv, FreshInv, CallInv
<1>2. <<d>> # <<>> /\ Len(<<d>>) = 1 /\ <<d>>[1] = d
  OBVIOUS
<1>3. Applied(r) = d /\ d # Undecided
  BY <1>1, <1>2, DecisionTypes DEF Applied
<1>4. /\ records'[r].decision = d
      /\ \A t \in Tokens \ {r} : records'[t].decision = records[t].decision
  BY DEF Resolves, Inv, TypeInv, HostTypes, RecordType
<1>5. [t \in Tokens |-> records'[t].decision]
        = [[t \in Tokens |-> records[t].decision] EXCEPT ![r] = d]
  BY <1>4
<1>6. \A t \in Tokens : Applied(t)' = Applied(t)
  BY DEF Applied, Issued
<1>7. Promise!Record(r)
  BY <1>1, <1>3, <1>5, <1>6 DEF Promise!Record, Applied, Issued
<1> QED BY <1>7 DEF Promise!Next

LEMMA TokensIssued ==
  Inv => Issued \subseteq Tokens
BY RequestsAssumption, LenProperties DEF Inv, TypeInv, AdapterTypes, Issued, Tokens

\* An event is never about a decided request.
LEMMA EventsKeepDecisions ==
  ASSUME Inv, TakeEvent
  PROVE  \A t \in Tokens : records'[t].decision = records[t].decision
<1> PICK e : e = Head(wire)
  OBVIOUS
<1>1. /\ wire # <<>> /\ e.kind # "reply"
      /\ records' = [records EXCEPT ![e.token] = RegisterPending(e)]
  BY DEF TakeEvent
<1>2. 1 \in DOMAIN wire /\ e = wire[1] /\ e \in Message
  BY <1>1, Taken DEF Inv, TypeInv, AdapterTypes
<1>3. e \in EventType /\ e.token \in Tokens /\ e.kind \in {"raised", "finished", "failed"}
  BY <1>1, <1>2, MessageParts
<1>4. records[e.token].decision = Undecided
  <2>1. CASE e.kind = "raised" /\ requests[e.token].kind # "download"
    BY <1>2, <1>3, <2>1, UnknownTypes DEF Inv, Announced
  <2>2. CASE requests[e.token].kind = "download" /\ e.token \in Issued
    BY <2>2 DEF Inv, RecordsInv
  <2> QED BY <1>2, <1>3, <2>1, <2>2 DEF Inv, Announced
<1> PICK new : new = RegisterPending(e)
  OBVIOUS
<1>5. new.decision = Undecided
  BY <1>3, <1>4, RegistersTypes
<1> QED BY <1>1, <1>3, <1>4, <1>5 DEF Inv, TypeInv, HostTypes

LEMMA HostKeepsPromise ==
  ASSUME Inv, Host
  PROVE  Promise!Next \/ UNCHANGED Promise!decisionVars
<1>1. CASE PermissionResolved \/ FileSelected
  <2>1. /\ UNCHANGED requests /\ call.stage = "decide" /\ ReplyIs(TRUE, TRUE)
        /\ Resolves(call.token)
    BY <1>1 DEF PermissionResolved, FileSelected, Replied
  <2>2. call.token \in Issued /\ call.token \in Tokens
    BY <2>1, TokensIssued DEF Inv, CallInv
  <2> QED BY <2>1, <2>2, PromiseRecords
<1>2. CASE TakeEvent
  <2>1. UNCHANGED requests
    BY <1>2 DEF TakeEvent
  <2> QED BY <1>2, <2>1, EventsKeepDecisions, PromiseStutters DEF Issued
<1>3. CASE StoresDownload
  <2>1. /\ UNCHANGED requests
        /\ records' = [records EXCEPT ![call.token].status = "quarantined"]
    BY <1>3 DEF StoresDownload
  <2>2. \A t \in Tokens : records'[t].decision = records[t].decision
    BY <2>1 DEF Inv, TypeInv, HostTypes, RecordType
  <2> QED BY <2>1, <2>2, PromiseStutters DEF Issued
<1>4. CASE UNCHANGED <<requests, records>>
  BY <1>4, PromiseStutters DEF Issued
<1>5. CASE \/ \E t \in Issued :
                ActPermission(t, Allow) \/ ActPermission(t, Deny) \/ ActDownload(t)
           \/ ActUpload \/ Await
  BY <1>4, <1>5 DEF ActPermission, ActDownload, ActUpload, Await, Sends, adapter
<1>6. CASE RequestTimesOut \/ MeetsLateReply \/ RequestRefused \/ Clicked \/ NameRead
  BY <1>4, <1>6
  DEF RequestTimesOut, MeetsLateReply, GivesUp, RequestRefused, Clicked, NameRead, Replied
<1>7. CASE ChooserArrives \/ Deadline \/ DrainEnds \/ DownloadRefused \/ ReadsDownload
  BY <1>4, <1>7
  DEF ChooserArrives, Sends, Deadline, DrainEnds, DownloadRefused, ReadsDownload, adapter
<1> QED BY <1>1, <1>2, <1>3, <1>5, <1>6, <1>7 DEF Host

LEMMA DecideKeepsPromise ==
  ASSUME Inv, OpPageDecide, UNCHANGED records
  PROVE  Promise!Next \/ UNCHANGED Promise!decisionVars
<1> PICK r : r = Head(inbox)
  OBVIOUS
<1> PICK t, d : t = r.token /\ d = r.decision
  OBVIOUS
<1>1. /\ inbox # <<>> /\ inbox' = Tail(inbox) /\ r.op = "decide"
      /\ requests' = IF requests[t].held
                     THEN [requests EXCEPT ![t].held = FALSE, ![t].answers = Append(@, d)]
                     ELSE requests
  BY DEF OpPageDecide, Handles
<1>2. t \in Issued /\ t \in Tokens /\ d \in Decision
  BY <1>1, Handled, TokensIssued DEF WellFormed
<1>3. requests \in Seq(RaisedType) /\ requests[t] \in RaisedType
  BY <1>2, ElementOfSeq, LenProperties DEF Inv, TypeInv, AdapterTypes, Issued
<1>4. CASE ~requests[t].held
  BY <1>1, <1>4, PromiseStutters DEF Issued
<1>5. CASE requests[t].held
  <2>1. requests[t].answers = <<>>
    BY <1>2, <1>5 DEF Inv, Settled
  <2>2. Append(requests[t].answers, d) = <<d>>
    BY <1>2, <2>1
  <2>3. /\ UNCHANGED Issued /\ requests'[t].answers = Append(requests[t].answers, d)
        /\ \A u \in Issued \ {t} : requests'[u] = requests[u]
    BY <1>1, <1>2, <1>3, <1>5 DEF RaisedType, Issued
  <2> QED BY <1>2, <2>1, <2>2, <2>3, PromiseDecides
<1> QED BY <1>4, <1>5

LEMMA RaisesKeepsPromise ==
  ASSUME Inv, NEW kind, NEW cause \in 0..MaxUploads, Raises(kind, cause),
         UNCHANGED records
  PROVE  Promise!Next
<1> PICK t, q : t = Len(requests) + 1 /\ q = Raised(kind, cause)
  OBVIOUS
<1>1. kind \in Kinds /\ Len(requests) < MaxRequests /\ requests' = Append(requests, q)
  BY DEF Raises
<1>2. q \in RaisedType /\ q.answers = <<>>
  BY <1>1, RaisedTypes
<1>3. /\ t \in Nat /\ t \notin Issued /\ Issued' = Issued \union {t}
      /\ (\A u \in Issued : requests'[u] = requests[u]) /\ requests'[t] = q
  BY <1>1, <1>2, Appended DEF Inv, TypeInv, AdapterTypes, Issued
<1>4. t \in Tokens
  BY <1>1, <1>3, RequestsAssumption, LenProperties DEF Tokens, Inv, TypeInv, AdapterTypes
<1> QED BY <1>2, <1>3, <1>4, PromiseAsks

LEMMA AdapterKeepsPromise ==
  ASSUME Inv, AdapterStep
  PROVE  Promise!Next \/ UNCHANGED Promise!decisionVars
<1>1. UNCHANGED records
  BY DEF AdapterStep
<1>2. CASE OpPageDecide
  BY <1>1, <1>2, DecideKeepsPromise
<1>3. CASE PermissionRequest \/ RunFileChooser \/ DownloadStarted
  <2>1. 0 \in 0..MaxUploads /\ clicks \subseteq 0..MaxUploads
    BY RequestsAssumption DEF Inv, TypeInv, AdapterTypes
  <2>2. PICK kind \in {"permission", "chooser", "download"}, cause \in 0..MaxUploads :
          Raises(kind, cause)
    BY <1>3, <2>1 DEF PermissionRequest, RunFileChooser, DownloadStarted
  <2> QED BY <1>1, <2>2, RaisesKeepsPromise
<1>4. CASE \E t \in Issued :
             DecideDestination(t) \/ DownloadFinishes(t) \/ DownloadFails(t)
  <2>1. PICK t \in Issued : DecideDestination(t) \/ DownloadFinishes(t) \/ DownloadFails(t)
    BY <1>4
  <2>2. requests \in Seq(RaisedType) /\ requests[t] \in RaisedType
    BY ElementOfSeq, LenProperties DEF Inv, TypeInv, AdapterTypes, Issued
  <2>3. \E stage, name :
          \/ requests' = [requests EXCEPT ![t].stage = stage]
          \/ requests' = [requests EXCEPT ![t].stage = stage, ![t].name = name]
    BY <2>1 DEF DecideDestination, DownloadFinishes, DownloadFails
  <2>4. /\ UNCHANGED Issued
        /\ requests'[t].answers = requests[t].answers
        /\ \A u \in Issued \ {t} : requests'[u] = requests[u]
    BY <2>2, <2>3 DEF RaisedType, Issued
  <2>5. \A u \in Issued : requests'[u].answers = requests[u].answers
    BY <2>4
  <2> QED BY <1>1, <2>4, <2>5, PromiseStutters
<1>5. CASE OpPageEvaluate \/ ScriptRuns \/ EvaluationReplies
  <2>1. UNCHANGED requests
    BY <1>5 DEF OpPageEvaluate, ScriptRuns, EvaluationReplies
  <2> QED BY <1>1, <2>1, PromiseStutters DEF Issued
<1> QED BY <1>2, <1>3, <1>4, <1>5 DEF AdapterStep, Adapter

\* The two registries together keep BrowserDecision's promise, whatever
\* requests miss their deadline and whatever is sent again: a request is
\* decided at most once, and what the host records as its decision is what the
\* engine was given (op_page_decide, _decide).
THEOREM DecisionImplemented ==
  Spec => ImplementsDecision
<1>1. Init => Promise!Init
  <2> SUFFICES ASSUME Init PROVE Promise!Init
    OBVIOUS
  <2>1. Issued = {} /\ \A t \in Tokens : records[t].decision = Undecided
    BY UnknownTypes DEF Init, Issued
  <2> QED BY <2>1 DEF Promise!Init
<1>2. Inv /\ [Next]_vars => [Promise!Next]_(Promise!decisionVars)
  <2> SUFFICES ASSUME Inv, [Next]_vars
               PROVE  Promise!Next \/ UNCHANGED Promise!decisionVars
    OBVIOUS
  <2>1. CASE Next
    BY <2>1, HostKeepsPromise, AdapterKeepsPromise DEF Next
  <2>2. CASE UNCHANGED vars
    BY <2>2, PromiseStutters DEF vars, adapter, Issued
  <2> QED BY <2>1, <2>2
<1> QED BY <1>1, <1>2, InvInductive, PTL DEF Spec, ImplementsDecision, Promise!Spec

-----------------------------------------------------------------------------
(* Downloads: what the events of a transfer and the files say of each other. *)

Rank(e) == IF e.kind = "raised" THEN 1 ELSE IF e.kind = "failed" THEN 2 ELSE 3
IsEvent(i) == wire[i].kind # "reply"

\* The events of a request are on the wire in their order, once each.
InOrder ==
  \A i, j \in DOMAIN wire :
    i < j /\ IsEvent(i) /\ IsEvent(j) /\ wire[i].token = wire[j].token =>
      Rank(wire[i]) < Rank(wire[j])

\* A transfer is at its end when that is announced; once the host has heard
\* of a completion it will hear no more of that download.
Ended(t) == requests[t].stage \in {"finished", "failed"}
HeardAll(t) == records[t].status \in {"completed", "quarantined"}
Told ==
  /\ InOrder
  /\ \A i \in DOMAIN wire : wire[i].kind \in {"finished", "failed"} => Ended(wire[i].token)
  /\ \A t \in Issued : HeardAll(t) =>
       Ended(t) /\ \A i \in DOMAIN wire : IsEvent(i) => wire[i].token # t

\* The file of a download that shares its name with no other.
Kept ==
  \A t \in Issued :
    /\ requests[t].stage \in {"writing", "finished"} => requests[t].name # None
    /\ requests[t].stage \in {"none", "started"} => requests[t].name = None
    /\ requests[t].name # None /\ ~Shared(t) =>
         /\ requests[t].stage = "finished" => files[requests[t].name] = Whole(t)
         /\ requests[t].stage = "failed" => files[requests[t].name] = NoFile

\* What is about to be stored, and what was.
Storing ==
  call.stage = "store" =>
    /\ records[call.token].status = "completed" /\ requests[call.token].name # None
    /\ ~Shared(call.token) =>
         requests[call.token].stage = "finished" /\ call.payload = Whole(call.token)

Stored ==
  /\ \A r, s \in receipts : r.download = s.download => r = s
  /\ \A r \in receipts :
       LET t == r.download
       IN  /\ t \in Issued /\ records[t].status = "quarantined" /\ requests[t].name # None
           /\ ~Shared(t) =>
                /\ requests[t].stage = "finished" /\ r.content = Whole(t)
                /\ artifacts[requests[t].name] = Whole(t)

DownloadInv == Told /\ Kept /\ Storing /\ Stored

-----------------------------------------------------------------------------
(* Steps that are no news for a download.                                   *)

\* No event is added, and at most the first frame is taken.
EventsStay ==
  \E k \in {0, 1} : \A i \in DOMAIN wire' :
    /\ i \in Nat
    /\ wire'[i].kind # "reply" => i + k \in DOMAIN wire /\ wire'[i] = wire[i + k]

TransfersStay ==
  /\ UNCHANGED Issued
  /\ \A t \in Issued :
       requests'[t].stage = requests[t].stage /\ requests'[t].name = requests[t].name

LEMMA ToldStays ==
  ASSUME Inv, Told, EventsStay, TransfersStay,
         \A t \in Issued : HeardAll(t)' => HeardAll(t)
  PROVE  Told'
<1>1. PICK k \in {0, 1} : \A i \in DOMAIN wire' :
        i \in Nat /\ (wire'[i].kind # "reply" => i + k \in DOMAIN wire /\ wire'[i] = wire[i + k])
  BY DEF EventsStay
<1>2. UNCHANGED Issued /\ \A t \in Issued : requests'[t].stage = requests[t].stage
  BY DEF TransfersStay
<1>3. InOrder'
  <2> SUFFICES ASSUME NEW i \in DOMAIN wire', NEW j \in DOMAIN wire', i < j,
                      wire'[i].kind # "reply", wire'[j].kind # "reply",
                      wire'[i].token = wire'[j].token
               PROVE  Rank(wire'[i]) < Rank(wire'[j])
    BY DEF InOrder, IsEvent, Rank
  <2>1. /\ i + k \in DOMAIN wire /\ j + k \in DOMAIN wire /\ i + k < j + k
        /\ wire'[i] = wire[i + k] /\ wire'[j] = wire[j + k]
    BY <1>1
  <2> QED BY <2>1 DEF Told, InOrder, IsEvent
<1>4. \A i \in DOMAIN wire' : wire'[i].kind # "reply" =>
        \E j \in DOMAIN wire : wire[j] = wire'[i]
  BY <1>1
<1>5. ASSUME NEW i \in DOMAIN wire', wire'[i].kind \in {"finished", "failed"}
      PROVE  requests'[wire'[i].token].stage \in {"finished", "failed"}
  <2>1. PICK j \in DOMAIN wire : wire[j] = wire'[i]
    BY <1>4, <1>5
  <2>2. wire[j].token \in Issued /\ Ended(wire[j].token)
    BY <1>5, <2>1 DEF Told, Inv, Announced
  <2> QED BY <1>2, <2>1, <2>2 DEF Ended
<1>6. ASSUME NEW t \in Issued, HeardAll(t)'
      PROVE  /\ requests'[t].stage \in {"finished", "failed"}
             /\ \A i \in DOMAIN wire' : wire'[i].kind # "reply" => wire'[i].token # t
  BY <1>2, <1>4, <1>6 DEF Told, IsEvent, Ended
<1> QED BY <1>2, <1>3, <1>5, <1>6 DEF Told, IsEvent, Ended

LEMMA FilesStay ==
  ASSUME Inv, Kept, Storing, Stored, TransfersStay, UNCHANGED <<files, artifacts, receipts>>,
         \A t \in Issued : HeardAll(t) => records'[t].status = records[t].status,
         call'.stage = "store" => UNCHANGED call
  PROVE  Kept' /\ Storing' /\ Stored'
<1>1. /\ UNCHANGED Issued
      /\ \A t \in Issued : /\ requests'[t].stage = requests[t].stage
                           /\ requests'[t].name = requests[t].name
                           /\ Shared(t)' <=> Shared(t)
  BY DEF TransfersStay, Shared
<1>2. Kept'
  BY <1>1 DEF Kept
<1>3. Storing'
  <2> SUFFICES ASSUME call'.stage = "store" PROVE Storing'
    BY DEF Storing
  <2>1. UNCHANGED call /\ call.stage = "store" /\ call.token \in Issued
    BY DEF Inv, CallInv
  <2> QED BY <1>1, <2>1 DEF Storing, HeardAll
<1>4. Stored'
  BY <1>1 DEF Stored, HeardAll
<1> QED BY <1>2, <1>3, <1>4

LEMMA DownloadsStay ==
  ASSUME Inv, DownloadInv, EventsStay, TransfersStay, UNCHANGED <<files, artifacts, receipts>>,
         \A t \in Issued : HeardAll(t) \/ HeardAll(t)' => records'[t].status = records[t].status,
         call'.stage = "store" => UNCHANGED call
  PROVE  DownloadInv'
BY ToldStays, FilesStay DEF DownloadInv, HeardAll

LEMMA WireStays ==
  ASSUME Inv, UNCHANGED wire
  PROVE  EventsStay
<1>1. \A i \in DOMAIN wire' : i \in Nat /\ i + 0 = i
  BY LenProperties DEF Inv, TypeInv, AdapterTypes
<1> QED BY <1>1 DEF EventsStay

LEMMA WireShrinks ==
  ASSUME Inv, wire # <<>>, wire' = Tail(wire)
  PROVE  EventsStay
<1>1. \A i \in DOMAIN wire' :
        i \in Nat /\ i + 1 \in DOMAIN wire /\ wire'[i] = wire[i + 1]
  BY WireTaken DEF Inv, TypeInv, AdapterTypes
<1> QED BY <1>1 DEF EventsStay

LEMMA WireAddsReply ==
  ASSUME Inv, NEW m \in Message, m.kind = "reply", wire' = Append(wire, m)
  PROVE  EventsStay
<1> PICK n : n = Len(wire) + 1
  OBVIOUS
<1>1. /\ n \in Nat /\ DOMAIN wire = 1..Len(wire) /\ Len(wire) \in Nat
      /\ DOMAIN wire' = DOMAIN wire \union {n}
      /\ (\A i \in DOMAIN wire : wire'[i] = wire[i]) /\ wire'[n] = m
  BY Appended, LenProperties DEF Inv, TypeInv, AdapterTypes
<1>2. \A i \in DOMAIN wire' :
        /\ i \in Nat
        /\ wire'[i].kind # "reply" => i + 0 \in DOMAIN wire /\ wire'[i] = wire[i + 0]
  BY <1>1
<1> QED BY <1>2 DEF EventsStay

LEMMA RequestsStay ==
  UNCHANGED requests => TransfersStay
BY DEF TransfersStay, Issued

\* A download that has been heard of is none that is being decided.
LEMMA HeardIsNoDecision ==
  ASSUME Inv, Told, NEW t \in Issued, HeardAll(t)
  PROVE  requests[t].kind = "download" /\ records[t].decision = Undecided
         /\ requests[t].stage \in {"finished", "failed"}
<1>1. requests[t].stage \in {"finished", "failed"}
  BY DEF Told, Ended
<1>2. requests[t].kind = "download"
  BY <1>1 DEF Inv, Settled
<1> QED BY <1>1, <1>2 DEF Inv, RecordsInv

-----------------------------------------------------------------------------
(* Downloads: the host.                                                     *)

LEMMA CallKeepsDownloads ==
  ASSUME Inv, DownloadInv, UNCHANGED <<wire, requests, files, artifacts, receipts, records>>,
         call'.stage # "store" \/ UNCHANGED call
  PROVE  DownloadInv'
BY WireStays, RequestsStay, DownloadsStay

LEMMA ReplyKeepsDownloads ==
  ASSUME Inv, DownloadInv, wire # <<>>, wire' = Tail(wire),
         UNCHANGED <<requests, files, artifacts, receipts>>,
         UNCHANGED records \/ (call.stage = "decide" /\ Resolves(call.token)),
         call'.stage # "store"
  PROVE  DownloadInv'
<1>1. ASSUME NEW t \in Issued, HeardAll(t) \/ HeardAll(t)'
      PROVE  records'[t].status = records[t].status
  <2>1. CASE UNCHANGED records
    BY <2>1
  <2>2. CASE call.stage = "decide" /\ Resolves(call.token)
    <3>1. call.token \in Issued /\ requests[call.token].kind # "download"
      BY <2>2 DEF Inv, CallInv
    <3>2. /\ t \in Tokens /\ records \in [Tokens -> RecordType] /\ call.token \in Tokens
          /\ records' = [records EXCEPT ![call.token].status = "resolved",
                                        ![call.token].decision = call.decision]
      BY <2>2, <3>1, TokensIssued DEF Inv, TypeInv, HostTypes, Resolves
    <3>3. CASE t # call.token
      BY <3>2, <3>3
    <3>4. CASE t = call.token
      <4>1. records'[t].status = "resolved"
        BY <3>2, <3>4 DEF RecordType
      <4>2. HeardAll(t)
        BY <1>1, <4>1 DEF HeardAll
      <4> QED BY <3>1, <3>4, <4>2, HeardIsNoDecision DEF DownloadInv
    <3> QED BY <3>3, <3>4
  <2> QED BY <2>1, <2>2
<1> QED BY <1>1, WireShrinks, RequestsStay, DownloadsStay

LEMMA GivesUpKeepsDownloads ==
  ASSUME Inv, DownloadInv, NEW frames, GivesUp(frames),
         frames = wire \/ (wire # <<>> /\ frames = Tail(wire))
  PROVE  DownloadInv'
<1>1. /\ wire' = [i \in DOMAIN frames |->
                    IF frames[i].kind = "reply" THEN [frames[i] EXCEPT !.fresh = FALSE]
                    ELSE frames[i]]
      /\ call' = NoCall
      /\ UNCHANGED <<requests, files, records, artifacts, receipts>>
  BY DEF GivesUp, evidence
<1>2. PICK k \in {0, 1} : \A i \in DOMAIN frames :
        /\ i \in Nat /\ i + k \in DOMAIN wire /\ frames[i] = wire[i + k]
  <2>1. CASE frames = wire
    <3>1. \A i \in DOMAIN frames : i \in Nat /\ i + 0 = i
      BY <2>1, LenProperties DEF Inv, TypeInv, AdapterTypes
    <3> QED BY <2>1, <3>1
  <2>2. CASE wire # <<>> /\ frames = Tail(wire)
    <3>1. \A i \in DOMAIN frames : i + 1 \in DOMAIN wire /\ frames[i] = wire[i + 1]
      BY <2>2, Taken DEF Inv, TypeInv, AdapterTypes
    <3>2. frames \in Seq(Message)
      BY <2>2, Taken DEF Inv, TypeInv, AdapterTypes
    <3>3. DOMAIN frames \subseteq Nat
      BY <3>2, LenProperties
    <3> QED BY <3>1, <3>3
  <2> QED BY <2>1, <2>2
<1>3. ASSUME NEW i \in DOMAIN wire'
      PROVE  /\ i \in Nat
             /\ wire'[i].kind # "reply" => i + k \in DOMAIN wire /\ wire'[i] = wire[i + k]
  <2>1. i \in DOMAIN frames
    BY <1>1
  <2>2. wire[i + k] \in Message /\ frames[i] = wire[i + k]
    BY <1>2, <2>1, ElementOfSeq, LenProperties DEF Inv, TypeInv, AdapterTypes
  <2>3. CASE frames[i].kind = "reply"
    <3>1. wire'[i] = [frames[i] EXCEPT !.fresh = FALSE]
      BY <1>1, <2>1, <2>3
    <3>2. frames[i] \in ReplyType
      BY <2>2, <2>3, MessageParts
    <3>3. wire'[i].kind = "reply"
      BY <2>3, <3>1, <3>2 DEF ReplyType
    <3> QED BY <1>2, <2>1, <3>3
  <2>4. CASE frames[i].kind # "reply"
    BY <1>1, <1>2, <2>1, <2>4
  <2> QED BY <2>3, <2>4
<1>4. EventsStay
  BY <1>3 DEF EventsStay
<1>5. call'.stage # "store"
  BY <1>1, NoCallTypes
<1> QED BY <1>1, <1>4, <1>5, RequestsStay, DownloadsStay

LEMMA RankIs ==
  ASSUME NEW e
  PROVE  /\ Rank(e) \in {1, 2, 3}
         /\ e.kind = "raised" => Rank(e) = 1
         /\ e.kind = "failed" => Rank(e) = 2
         /\ e.kind = "finished" => Rank(e) = 3
BY DEF Rank

\* The host hears of the end of a download last.
LEMMA TakeEventKeepsDownloads ==
  ASSUME Inv, DownloadInv, TakeEvent
  PROVE  DownloadInv'
<1> PICK e : e = Head(wire)
  OBVIOUS
<1>1. /\ wire # <<>> /\ e.kind # "reply" /\ wire' = Tail(wire)
      /\ records' = [records EXCEPT ![e.token] = RegisterPending(e)]
      /\ UNCHANGED <<requests, files, artifacts, receipts, call>>
  BY DEF TakeEvent, evidence
<1>2. 1 \in DOMAIN wire /\ e = wire[1] /\ e \in Message
  BY <1>1, Taken DEF Inv, TypeInv, AdapterTypes
<1>3. e \in EventType /\ e.token \in Tokens /\ e.kind \in {"raised", "finished", "failed"}
  BY <1>1, <1>2, MessageParts
<1>4. e.token \in Issued
  BY <1>2, <1>3 DEF Inv, Announced
<1>5. \A t \in Issued : HeardAll(t) => t # e.token
  BY <1>1, <1>2 DEF DownloadInv, Told, IsEvent
<1>6. records'[e.token] = RegisterPending(e)
      /\ \A t \in Issued \ {e.token} : records'[t] = records[t]
  BY <1>1, <1>3, <1>4, TokensIssued DEF Inv, TypeInv, HostTypes
<1>7. /\ records[e.token] \in RecordType
      /\ HeardAll(e.token)' => e.kind = "finished"
  <2>1. records[e.token] \in RecordType
    BY <1>3 DEF Inv, TypeInv, HostTypes
  <2>2. e.kind = "raised" => RegisterPending(e).status = "pending"
    BY DEF RegisterPending, Unknown
  <2>3. e.kind = "failed" => RegisterPending(e).status = "failed"
    BY <2>1 DEF RegisterPending, RecordType
  <2> QED BY <1>3, <1>6, <2>1, <2>2, <2>3 DEF HeardAll
<1>8. \A t \in Issued \ {e.token} : HeardAll(t)' <=> HeardAll(t)
  BY <1>6 DEF HeardAll
<1>9. \A i \in DOMAIN wire' :
        i \in Nat /\ i + 1 \in DOMAIN wire /\ i + 1 # 1 /\ wire'[i] = wire[i + 1]
  BY <1>1, WireTaken DEF Inv, TypeInv, AdapterTypes
<1>10. InOrder'
  <2> SUFFICES ASSUME NEW i \in DOMAIN wire', NEW j \in DOMAIN wire', i < j,
                      wire'[i].kind # "reply", wire'[j].kind # "reply",
                      wire'[i].token = wire'[j].token
               PROVE  Rank(wire'[i]) < Rank(wire'[j])
    BY DEF InOrder, IsEvent, Rank
  <2>1. /\ i + 1 \in DOMAIN wire /\ j + 1 \in DOMAIN wire /\ i + 1 < j + 1
        /\ wire'[i] = wire[i + 1] /\ wire'[j] = wire[j + 1]
    BY <1>9
  <2> QED BY <2>1 DEF DownloadInv, Told, InOrder, IsEvent
<1>11. ASSUME NEW i \in DOMAIN wire', wire'[i].kind \in {"finished", "failed"}
       PROVE  requests'[wire'[i].token].stage \in {"finished", "failed"}
  <2>1. i + 1 \in DOMAIN wire /\ wire'[i] = wire[i + 1]
    BY <1>9
  <2>2. Ended(wire[i + 1].token)
    BY <1>11, <2>1 DEF DownloadInv, Told
  <2> QED BY <1>1, <2>1, <2>2 DEF Ended
<1>12. ASSUME NEW t \in Issued, HeardAll(t)'
       PROVE  /\ requests'[t].stage \in {"finished", "failed"}
              /\ \A i \in DOMAIN wire' : wire'[i].kind # "reply" => wire'[i].token # t
  <2>1. CASE t # e.token
    <3>1. HeardAll(t)
      BY <1>8, <1>12, <2>1
    <3>2. \A i \in DOMAIN wire' : wire'[i].kind # "reply" => wire'[i].token # t
      BY <1>9, <3>1 DEF DownloadInv, Told, IsEvent
    <3>3. requests'[t].stage \in {"finished", "failed"}
      BY <1>1, <3>1 DEF DownloadInv, Told, Ended
    <3> QED BY <3>2, <3>3
  <2>2. CASE t = e.token
    <3>1. e.kind = "finished"
      BY <1>7, <1>12, <2>2
    <3>2. Ended(e.token)
      BY <1>2, <3>1 DEF DownloadInv, Told
    <3>3. ASSUME NEW i \in DOMAIN wire', wire'[i].kind # "reply", wire'[i].token = t
          PROVE  FALSE
      <4>1. i + 1 \in DOMAIN wire /\ 1 < i + 1 /\ wire'[i] = wire[i + 1]
        BY <1>9
      <4>2. Rank(wire[1]) < Rank(wire[i + 1])
        BY <1>1, <1>2, <2>2, <3>3, <4>1 DEF DownloadInv, Told, InOrder, IsEvent
      <4>3. Rank(wire[1]) = 3 /\ Rank(wire[i + 1]) \in {1, 2, 3}
        BY <1>2, <3>1, RankIs
      <4> QED BY <4>2, <4>3
    <3> QED BY <1>1, <2>2, <3>2, <3>3 DEF Ended
  <2> QED BY <2>1, <2>2
<1>13. Told'
  BY <1>1, <1>10, <1>11, <1>12 DEF Told, IsEvent, Ended, Issued
<1>14. Kept' /\ Storing' /\ Stored'
  <2>1. \A t \in Issued : HeardAll(t) => records'[t].status = records[t].status
    BY <1>5, <1>6
  <2> QED BY <1>1, <2>1, RequestsStay, FilesStay DEF DownloadInv
<1> QED BY <1>13, <1>14 DEF DownloadInv

LEMMA ReadsDownloadKeepsDownloads ==
  ASSUME Inv, DownloadInv, ReadsDownload
  PROVE  DownloadInv'
<1> PICK t, c : t = call.token /\ c = FileOf(t)
  OBVIOUS
<1>1. /\ call.stage = "transfer" /\ records[t].status = "completed" /\ c # NoFile
      /\ call' = [call EXCEPT !.stage = "store", !.payload = c]
      /\ UNCHANGED <<wire, requests, files, artifacts, receipts, records>>
  BY DEF ReadsDownload, IsComplete, Stays, evidence, adapter
<1>2. t \in Issued /\ call'.stage = "store" /\ call'.token = t /\ call'.payload = c
  BY <1>1 DEF Inv, CallInv, TypeInv, HostTypes, CallType
<1>3. requests[t].name # None /\ c = files[requests[t].name]
  BY <1>1 DEF FileOf
<1>4. ~Shared(t) => requests[t].stage = "finished" /\ c = Whole(t)
  <2> SUFFICES ASSUME ~Shared(t) PROVE requests[t].stage = "finished" /\ c = Whole(t)
    OBVIOUS
  <2>1. requests[t].stage \in {"finished", "failed"}
    BY <1>1, <1>2 DEF DownloadInv, Told, HeardAll, Ended
  <2> QED BY <1>1, <1>2, <1>3, <2>1 DEF DownloadInv, Kept
<1>5. Storing'
  BY <1>1, <1>2, <1>3, <1>4 DEF Storing, Shared, Issued
<1>6. Told'
  BY <1>1, WireStays, RequestsStay, ToldStays DEF DownloadInv, HeardAll
<1>7. Kept' /\ Stored'
  BY <1>1 DEF DownloadInv, Kept, Stored, Shared, Issued
<1> QED BY <1>5, <1>6, <1>7 DEF DownloadInv

LEMMA StoresDownloadKeepsDownloads ==
  ASSUME Inv, DownloadInv, StoresDownload
  PROVE  DownloadInv'
<1> PICK t, c : t = call.token /\ c = call.payload
  OBVIOUS
<1> PICK n : n = requests[t].name
  OBVIOUS
<1>1. /\ call.stage = "store"
      /\ files' = [files EXCEPT ![n] = c] /\ artifacts' = [artifacts EXCEPT ![n] = c]
      /\ records' = [records EXCEPT ![t].status = "quarantined"]
      /\ receipts' = receipts \union {[download |-> t, content |-> c]}
      /\ call' = [call EXCEPT !.stage = "drain"]
      /\ UNCHANGED <<wire, requests>>
  BY DEF StoresDownload
<1>2. t \in Issued /\ t \in Tokens /\ call'.stage = "drain"
  BY <1>1, TokensIssued DEF Inv, CallInv, TypeInv, HostTypes, CallType
<1>3. /\ records[t].status = "completed" /\ n # None
      /\ ~Shared(t) => requests[t].stage = "finished" /\ c = Whole(t)
  BY <1>1 DEF DownloadInv, Storing
<1>4. n \in Names
  <2>1. requests[t] \in RaisedType
    BY <1>2, ElementOfSeq, LenProperties DEF Inv, TypeInv, AdapterTypes, Issued
  <2> QED BY <1>3, <2>1 DEF RaisedType
<1>5. /\ files'[n] = c /\ artifacts'[n] = c
      /\ \A m \in Names \ {n} : files'[m] = files[m] /\ artifacts'[m] = artifacts[m]
  BY <1>1, <1>4 DEF Inv, TypeInv, AdapterTypes, HostTypes
<1>6. /\ records'[t].status = "quarantined"
      /\ \A u \in Tokens \ {t} : records'[u] = records[u]
  BY <1>1, <1>2 DEF Inv, TypeInv, HostTypes, RecordType
<1>7. /\ Issued' = Issued
      /\ \A u \in Issued : Shared(u)' <=> Shared(u)
      /\ \A u \in Issued \ {t} : ~Shared(u) => requests[u].name # n
      /\ \A u \in Issued : requests[u].name \in Names \union {None}
  <2>1. Issued' = Issued /\ \A u \in Issued : Shared(u)' <=> Shared(u)
    BY <1>1 DEF Issued, Shared
  <2>2. \A u \in Issued \ {t} : ~Shared(u) => requests[u].name # n
    BY <1>2 DEF Shared
  <2>3. ASSUME NEW u \in Issued PROVE requests[u].name \in Names \union {None}
    <3>1. requests[u] \in RaisedType
      BY ElementOfSeq, LenProperties DEF Inv, TypeInv, AdapterTypes, Issued
    <3> QED BY <3>1 DEF RaisedType
  <2> QED BY <2>1, <2>2, <2>3
<1>8. Told'
  <2>1. \A u \in Issued : HeardAll(u)' => HeardAll(u)
    BY <1>3, <1>6, TokensIssued DEF HeardAll
  <2> QED BY <1>1, <2>1, WireStays, RequestsStay, ToldStays DEF DownloadInv
<1>9. Kept'
  <2>1. ASSUME NEW u \in Issued, requests[u].name # None, ~Shared(u)
        PROVE  /\ requests[u].stage = "finished" => files'[requests[u].name] = Whole(u)
               /\ requests[u].stage = "failed" => files'[requests[u].name] = NoFile
    <3>1. CASE u = t
      BY <1>3, <1>5, <2>1, <3>1
    <3>2. CASE u # t
      <4>1. requests[u].name \in Names \ {n}
        BY <1>7, <2>1, <3>2
      <4> QED BY <1>5, <2>1, <4>1 DEF DownloadInv, Kept
    <3> QED BY <3>1, <3>2
  <2> QED BY <1>1, <1>7, <2>1 DEF DownloadInv, Kept
<1>10. Storing'
  BY <1>2 DEF Storing
<1>11. Stored'
  <2> PICK new : new = [download |-> t, content |-> c]
    OBVIOUS
  <2>1. \A r \in receipts : r.download # t /\ r.download \in Issued
    BY <1>3 DEF DownloadInv, Stored
  <2>2. receipts' = receipts \union {new} /\ new.download = t /\ new.content = c
    BY <1>1
  <2>3. \A r, s \in receipts' : r.download = s.download => r = s
    BY <2>1, <2>2 DEF DownloadInv, Stored
  <2>4. ASSUME NEW r \in receipts
        PROVE  /\ r.download \in Issued /\ records'[r.download].status = "quarantined"
               /\ requests[r.download].name # None
               /\ ~Shared(r.download) =>
                    /\ requests[r.download].stage = "finished" /\ r.content = Whole(r.download)
                    /\ artifacts'[requests[r.download].name] = Whole(r.download)
    <3>1. r.download \in Issued \ {t}
      BY <2>1
    <3> PICK u \in Issued \ {t} : u = r.download
      BY <3>1
    <3>2. /\ records'[u].status = "quarantined" /\ requests[u].name # None
      BY <1>6, TokensIssued DEF DownloadInv, Stored
    <3>3. ~Shared(u) =>
            /\ requests[u].stage = "finished" /\ r.content = Whole(u)
            /\ artifacts[requests[u].name] = Whole(u)
      BY DEF DownloadInv, Stored
    <3>4. ~Shared(u) => artifacts'[requests[u].name] = artifacts[requests[u].name]
      BY <1>5, <1>7, <3>2
    <3> QED BY <3>2, <3>3, <3>4
  <2>5. /\ new.download \in Issued /\ records'[new.download].status = "quarantined"
        /\ requests[new.download].name # None
        /\ ~Shared(new.download) =>
             /\ requests[new.download].stage = "finished" /\ new.content = Whole(new.download)
             /\ artifacts'[requests[new.download].name] = Whole(new.download)
    BY <1>2, <1>3, <1>5, <1>6, <2>2
  <2>6. \A r \in receipts' :
          /\ r.download \in Issued' /\ records'[r.download].status = "quarantined"
          /\ requests'[r.download].name # None
          /\ ~Shared(r.download)' =>
               /\ requests'[r.download].stage = "finished" /\ r.content = Whole(r.download)
               /\ artifacts'[requests'[r.download].name] = Whole(r.download)
    BY <1>1, <1>7, <2>2, <2>4, <2>5
  <2> QED BY <2>3, <2>6 DEF Stored
<1> QED BY <1>8, <1>9, <1>10, <1>11 DEF DownloadInv

LEMMA HostKeepsDownloads ==
  ASSUME Inv, DownloadInv, Host
  PROVE  DownloadInv'
<1>1. CASE \/ \E t \in Issued :
                ActPermission(t, Allow) \/ ActPermission(t, Deny) \/ ActDownload(t)
           \/ ActUpload \/ Await
  <2>1. /\ UNCHANGED <<wire, requests, files, artifacts, receipts, records>>
        /\ call'.stage # "store"
    BY <1>1, NoCallTypes
    DEF ActPermission, ActDownload, ActUpload, Await, Sends, adapter, evidence, CallType
  <2> QED BY <2>1, CallKeepsDownloads
<1>2. CASE ChooserArrives \/ Deadline \/ DrainEnds \/ DownloadRefused
  <2>1. /\ UNCHANGED <<wire, requests, files, artifacts, receipts, records>>
        /\ call'.stage # "store"
    BY <1>2, NoCallTypes
    DEF ChooserArrives, Deadline, DrainEnds, DownloadRefused, Sends, Stays, adapter,
        evidence, CallType, Inv, TypeInv, HostTypes
  <2> QED BY <2>1, CallKeepsDownloads
<1>3. CASE RequestRefused \/ Clicked \/ PermissionResolved \/ FileSelected \/ NameRead
  <2>1. /\ wire # <<>> /\ wire' = Tail(wire)
        /\ UNCHANGED <<requests, files, artifacts, receipts>>
        /\ UNCHANGED records \/ (call.stage = "decide" /\ Resolves(call.token))
        /\ \/ call' = NoCall
           \/ \E next \in {"chooser", "drain", "name"} : call' = [call EXCEPT !.stage = next]
    BY <1>3 DEF RequestRefused, Clicked, PermissionResolved, FileSelected, NameRead,
                Replied, ReplyIs, evidence
  <2>2. call'.stage # "store"
    BY <2>1, NoCallTypes DEF CallType, Inv, TypeInv, HostTypes
  <2> QED BY <2>1, <2>2, ReplyKeepsDownloads
<1>4. CASE RequestTimesOut \/ MeetsLateReply
  <2>1. \E frames : /\ GivesUp(frames)
                    /\ frames = wire \/ (wire # <<>> /\ frames = Tail(wire))
    BY <1>4 DEF RequestTimesOut, MeetsLateReply, ReplyIs
  <2> QED BY <2>1, GivesUpKeepsDownloads
<1>5. CASE TakeEvent
  BY <1>5, TakeEventKeepsDownloads
<1>6. CASE ReadsDownload
  BY <1>6, ReadsDownloadKeepsDownloads
<1>7. CASE StoresDownload
  BY <1>7, StoresDownloadKeepsDownloads
<1> QED BY <1>1, <1>2, <1>3, <1>4, <1>5, <1>6, <1>7 DEF Host

-----------------------------------------------------------------------------
(* Downloads: the adapter.                                                  *)

LEMMA RepliesKeepDownloads ==
  ASSUME Inv, DownloadInv, NEW m \in Message, m.kind = "reply", Emit(<<m>>),
         TransfersStay, UNCHANGED <<files, artifacts, receipts, records, call>>
  PROVE  DownloadInv'
<1>1. wire' = Append(wire, m)
  BY EmitsOne DEF Inv, TypeInv, AdapterTypes
<1> QED BY <1>1, WireAddsReply, DownloadsStay

LEMMA DecidesKeepDownloads ==
  ASSUME Inv, DownloadInv, OpPageDecide, UNCHANGED <<records, artifacts, receipts, call>>
  PROVE  DownloadInv'
<1> PICK r : r = Head(inbox)
  OBVIOUS
<1> PICK t, d : t = r.token /\ d = r.decision
  OBVIOUS
<1> PICK held : held = requests[t].held
  OBVIOUS
<1>1. /\ inbox # <<>> /\ inbox' = Tail(inbox) /\ r.op = "decide"
      /\ requests' = IF held
                     THEN [requests EXCEPT ![t].held = FALSE, ![t].answers = Append(@, d)]
                     ELSE requests
      /\ Emit(<<Reply(r, held)>>) /\ UNCHANGED files
  BY DEF OpPageDecide, Handles
<1>2. r \in RequestType /\ t \in Issued
  BY <1>1, Handled DEF WellFormed
<1>3. requests \in Seq(RaisedType) /\ requests[t] \in RaisedType
  BY <1>2, ElementOfSeq, LenProperties DEF Inv, TypeInv, AdapterTypes, Issued
<1>4. Reply(r, held) \in Message /\ Reply(r, held).kind = "reply"
  BY <1>2, <1>3, MessageTypes DEF RaisedType
<1>5. TransfersStay
  <2>1. CASE held
    <3>1. /\ Issued' = Issued
          /\ requests'[t].stage = requests[t].stage /\ requests'[t].name = requests[t].name
          /\ \A u \in Issued \ {t} : requests'[u] = requests[u]
      BY <1>1, <1>2, <1>3, <2>1 DEF RaisedType, Issued
    <3> QED BY <3>1 DEF TransfersStay
  <2>2. CASE ~held
    BY <1>1, <2>2, RequestsStay
  <2> QED BY <2>1, <2>2
<1> QED BY <1>1, <1>4, <1>5, RepliesKeepDownloads

LEMMA RaisesKeepsDownloads ==
  ASSUME Inv, DownloadInv, NEW kind, NEW cause \in 0..MaxUploads, Raises(kind, cause),
         UNCHANGED <<files, artifacts, receipts, records, call>>
  PROVE  DownloadInv'
<1> PICK t, q : t = Len(requests) + 1 /\ q = Raised(kind, cause)
  OBVIOUS
<1> PICK m : m = Event("raised", t)
  OBVIOUS
<1>1. /\ kind \in Kinds /\ Len(requests) < MaxRequests
      /\ requests' = Append(requests, q) /\ Emit(<<m>>)
  BY DEF Raises
<1>2. /\ q \in RaisedType /\ q.name = None /\ q.stage \in {"none", "started"}
  BY <1>1, RaisedTypes DEF Raised
<1>3. /\ t \in Nat /\ t \notin Issued /\ Issued' = Issued \union {t}
      /\ (\A u \in Issued : requests'[u] = requests[u]) /\ requests'[t] = q
  BY <1>1, <1>2, Appended DEF Inv, TypeInv, AdapterTypes, Issued
<1>4. t \in Tokens
  BY <1>1, <1>3, RequestsAssumption, LenProperties DEF Tokens, Inv, TypeInv, AdapterTypes
<1>5. m \in Message /\ m.kind = "raised" /\ m.token = t
  BY <1>4, MessageTypes
<1> PICK n : n = Len(wire) + 1
  OBVIOUS
<1>6. /\ DOMAIN wire = 1..Len(wire) /\ Len(wire) \in Nat
      /\ DOMAIN wire' = DOMAIN wire \union {n}
      /\ (\A i \in DOMAIN wire : wire'[i] = wire[i]) /\ wire'[n] = m
  <2>1. wire \in Seq(Message) /\ wire' = Append(wire, m)
    BY <1>1, <1>5, EmitsOne DEF Inv, TypeInv, AdapterTypes
  <2>2. DOMAIN wire = 1..Len(wire) /\ Len(wire) \in Nat
    BY <2>1, LenProperties
  <2> QED BY <1>5, <2>1, <2>2, WireGrows
<1>7. \A i \in DOMAIN wire : wire[i].kind # "reply" => wire[i].token \in Issued
  <2>1. \A i \in DOMAIN wire : wire[i] \in Message
    BY ElementOfSeq, LenProperties DEF Inv, TypeInv, AdapterTypes
  <2> QED BY <2>1, MessageParts DEF Inv, Announced
<1>8. ~HeardAll(t)
  BY <1>3, <1>4 DEF HeardAll, Inv, RecordsInv, Unknown
<1>9. Told'
  <2>1. InOrder'
    <3> SUFFICES ASSUME NEW i \in DOMAIN wire', NEW j \in DOMAIN wire', i < j,
                        wire'[i].kind # "reply", wire'[j].kind # "reply",
                        wire'[i].token = wire'[j].token
                 PROVE  Rank(wire'[i]) < Rank(wire'[j])
      BY DEF InOrder, IsEvent, Rank
    <3>1. i \in DOMAIN wire /\ j \in DOMAIN wire
      BY <1>3, <1>5, <1>6, <1>7
    <3> QED BY <1>6, <3>1 DEF DownloadInv, Told, InOrder, IsEvent
  <2>2. \A i \in DOMAIN wire' : wire'[i].kind \in {"finished", "failed"}
          => requests'[wire'[i].token].stage \in {"finished", "failed"}
    BY <1>3, <1>5, <1>6, <1>7 DEF DownloadInv, Told, Ended
  <2>3. ASSUME NEW u \in Issued', HeardAll(u)
        PROVE  /\ requests'[u].stage \in {"finished", "failed"}
               /\ \A i \in DOMAIN wire' : wire'[i].kind # "reply" => wire'[i].token # u
    BY <1>3, <1>5, <1>6, <1>8, <2>3 DEF DownloadInv, Told, Ended, IsEvent
  <2> QED BY <2>1, <2>2, <2>3 DEF Told, HeardAll, IsEvent, Ended
<1>10. \A u \in Issued : requests[u].name # None => (Shared(u)' <=> Shared(u))
  BY <1>2, <1>3 DEF Shared
<1>11. Kept'
  BY <1>2, <1>3, <1>10 DEF DownloadInv, Kept
<1>12. Storing'
  <2>1. call.stage = "store" => call.token \in Issued
    BY DEF Inv, CallInv
  <2> QED BY <1>3, <1>10, <2>1 DEF DownloadInv, Storing
<1>13. Stored'
  BY <1>3, <1>10 DEF DownloadInv, Stored
<1> QED BY <1>9, <1>11, <1>12, <1>13 DEF DownloadInv

\* The end of a transfer is announced after its beginning.
LEMMA TransferKeepsTold ==
  ASSUME Inv, Told, NEW t \in Issued, requests[t].stage \in {"started", "writing"},
         Issued' = Issued, \A u \in Issued \ {t} : requests'[u] = requests[u],
         UNCHANGED records,
         \A i \in DOMAIN wire' :
           /\ i \in Nat
           /\ \/ i \in DOMAIN wire /\ wire'[i] = wire[i]
              \/ /\ wire'[i].kind \in {"finished", "failed"} /\ wire'[i].token = t
                 /\ Ended(t)' /\ \A j \in DOMAIN wire : j < i,
         \A i, j \in DOMAIN wire' \ DOMAIN wire :
           i < j => Rank(wire'[i]) < Rank(wire'[j])
  PROVE  Told'
<1>1. ~HeardAll(t)
  BY DEF Told, Ended
<1>2. \A i \in DOMAIN wire : wire[i].kind # "reply" /\ wire[i].token = t => wire[i].kind = "raised"
  <2>1. \A i \in DOMAIN wire : wire[i] \in Message
    BY ElementOfSeq, LenProperties DEF Inv, TypeInv, AdapterTypes
  <2> QED BY <2>1, MessageParts DEF Told, Ended
<1>3. DOMAIN wire \subseteq Nat
  BY LenProperties DEF Inv, TypeInv, AdapterTypes
<1>4. InOrder'
  <2> SUFFICES ASSUME NEW i \in DOMAIN wire', NEW j \in DOMAIN wire', i < j,
                      wire'[i].kind # "reply", wire'[j].kind # "reply",
                      wire'[i].token = wire'[j].token
               PROVE  Rank(wire'[i]) < Rank(wire'[j])
    BY DEF InOrder, IsEvent, Rank
  <2>1. CASE i \in DOMAIN wire /\ wire'[i] = wire[i] /\ j \in DOMAIN wire /\ wire'[j] = wire[j]
    BY <2>1 DEF Told, InOrder, IsEvent
  <2>2. CASE /\ i \in DOMAIN wire /\ wire'[i] = wire[i]
             /\ wire'[j].kind \in {"finished", "failed"} /\ wire'[j].token = t
    <3>1. wire'[i].kind = "raised"
      BY <1>2, <2>2
    <3>2. Rank(wire'[i]) = 1 /\ Rank(wire'[j]) \in {2, 3}
      BY <2>2, <3>1, RankIs
    <3> QED BY <3>2
  <2>3. CASE i \notin DOMAIN wire
    <3>1. \A k \in DOMAIN wire : k < i
      BY <2>3
    <3>2. j \notin DOMAIN wire
      BY <1>3, <3>1
    <3> QED BY <2>3, <3>2
  <2> QED BY <2>1, <2>2, <2>3
<1>5. ASSUME NEW i \in DOMAIN wire', wire'[i].kind \in {"finished", "failed"}
      PROVE  requests'[wire'[i].token].stage \in {"finished", "failed"}
  <2>1. CASE i \in DOMAIN wire /\ wire'[i] = wire[i]
    <3>1. wire[i].token \in Issued /\ Ended(wire[i].token)
      BY <1>5, <2>1 DEF Told, Inv, Announced
    <3>2. wire[i].token # t
      BY <3>1 DEF Ended
    <3> QED BY <2>1, <3>1, <3>2 DEF Ended
  <2>2. CASE wire'[i].token = t /\ Ended(t)'
    BY <2>2 DEF Ended
  <2> QED BY <2>1, <2>2
<1>6. ASSUME NEW u \in Issued, HeardAll(u)
      PROVE  /\ Ended(u)'
             /\ \A i \in DOMAIN wire' : wire'[i].kind # "reply" => wire'[i].token # u
  BY <1>1, <1>6 DEF Told, Ended, IsEvent
<1> QED BY <1>4, <1>5, <1>6 DEF Told, HeardAll, IsEvent, Ended

LEMMA DestinationKeepsDownloads ==
  ASSUME Inv, DownloadInv, NEW t \in Issued, DecideDestination(t),
         UNCHANGED <<artifacts, receipts, records, call>>
  PROVE  DownloadInv'
<1>1. PICK n \in Names :
        /\ requests[t].stage = "started"
        /\ requests' = [requests EXCEPT ![t].stage = "writing", ![t].name = n]
        /\ files' = [files EXCEPT ![n] = Part(t)] /\ UNCHANGED wire
  BY DEF DecideDestination, Transfer
<1>2. requests \in Seq(RaisedType) /\ requests[t] \in RaisedType
  BY ElementOfSeq, LenProperties DEF Inv, TypeInv, AdapterTypes, Issued
<1>3. /\ Issued' = Issued /\ requests'[t].stage = "writing" /\ requests'[t].name = n
      /\ \A u \in Issued \ {t} : requests'[u] = requests[u]
  BY <1>1, <1>2 DEF RaisedType, Issued
<1>4. /\ files'[n] = Part(t) /\ \A m \in Names \ {n} : files'[m] = files[m]
  BY <1>1 DEF Inv, TypeInv, AdapterTypes
<1>5. Told'
  <2>1. \A i \in DOMAIN wire' : i \in Nat /\ i \in DOMAIN wire /\ wire'[i] = wire[i]
    BY <1>1, LenProperties DEF Inv, TypeInv, AdapterTypes
  <2> QED BY <1>1, <1>3, <2>1, TransferKeepsTold DEF DownloadInv
<1>6. /\ requests[t].name = None /\ n # None
      /\ \A u \in Issued : u # t /\ ~Shared(u)' => ~Shared(u) \/ requests[u].name = None
      /\ \A u \in Issued : u # t /\ ~Shared(u)' => requests[u].name # n
  <2>1. requests[t].name = None /\ n # None
    BY <1>1, RequestsAssumption DEF DownloadInv, Kept
  <2> QED BY <1>3, <2>1 DEF Shared
<1>7. \A u \in Issued : requests[u].name \in Names \union {None}
  <2> SUFFICES ASSUME NEW u \in Issued PROVE requests[u].name \in Names \union {None}
    OBVIOUS
  <2>1. requests[u] \in RaisedType
    BY ElementOfSeq, LenProperties DEF Inv, TypeInv, AdapterTypes, Issued
  <2> QED BY <2>1 DEF RaisedType
<1>8. Kept'
  <2> SUFFICES ASSUME NEW u \in Issued
               PROVE  /\ requests'[u].stage \in {"writing", "finished"} => requests'[u].name # None
                      /\ requests'[u].stage \in {"none", "started"} => requests'[u].name = None
                      /\ requests'[u].name # None /\ ~Shared(u)' =>
                           /\ requests'[u].stage = "finished" => files'[requests'[u].name] = Whole(u)
                           /\ requests'[u].stage = "failed" => files'[requests'[u].name] = NoFile
    BY <1>3 DEF Kept, Whole, NoFile
  <2>1. CASE u = t
    BY <1>3, <1>6, <2>1
  <2>2. CASE u # t
    <3>1. requests'[u] = requests[u]
      BY <1>3, <2>2
    <3>2. requests[u].name # None /\ ~Shared(u)'
            => ~Shared(u) /\ files'[requests[u].name] = files[requests[u].name]
      BY <1>4, <1>6, <1>7, <2>2
    <3> QED BY <3>1, <3>2 DEF DownloadInv, Kept
  <2> QED BY <2>1, <2>2
<1>9. Storing'
  <2> SUFFICES ASSUME call.stage = "store" PROVE Storing'
    BY DEF Storing
  <2> PICK u : u = call.token
    OBVIOUS
  <2>1. /\ u \in Issued /\ records[u].status = "completed" /\ requests[u].name # None
        /\ ~Shared(u) => requests[u].stage = "finished" /\ call.payload = Whole(u)
    BY DEF Inv, CallInv, DownloadInv, Storing
  <2>2. u # t
    BY <1>6, <2>1
  <2>3. requests'[u] = requests[u] /\ (~Shared(u)' => ~Shared(u))
    BY <1>3, <1>6, <2>1, <2>2
  <2> QED BY <2>1, <2>3 DEF Storing, Whole
<1>10. Stored'
  <2> SUFFICES ASSUME NEW r \in receipts
               PROVE  /\ r.download \in Issued' /\ records'[r.download].status = "quarantined"
                      /\ requests'[r.download].name # None
                      /\ ~Shared(r.download)' =>
                           /\ requests'[r.download].stage = "finished"
                           /\ r.content = Whole(r.download)
                           /\ artifacts'[requests'[r.download].name] = Whole(r.download)
    BY DEF DownloadInv, Stored
  <2> PICK u : u = r.download
    OBVIOUS
  <2>1. /\ u \in Issued /\ records[u].status = "quarantined" /\ requests[u].name # None
        /\ ~Shared(u) => /\ requests[u].stage = "finished" /\ r.content = Whole(u)
                         /\ artifacts[requests[u].name] = Whole(u)
    BY DEF DownloadInv, Stored
  <2>2. u # t
    BY <1>6, <2>1
  <2>3. requests'[u] = requests[u] /\ (~Shared(u)' => ~Shared(u))
    BY <1>3, <1>6, <2>1, <2>2
  <2> QED BY <1>3, <2>1, <2>3
<1> QED BY <1>5, <1>8, <1>9, <1>10 DEF DownloadInv

\* A transfer comes to its end, well or not: the file of no other is touched.
LEMMA EndKeepsFiles ==
  ASSUME Inv, DownloadInv, NEW t \in Issued, requests[t].stage \in {"started", "writing"},
         NEW stage \in {"finished", "failed"},
         requests' = [requests EXCEPT ![t].stage = stage],
         stage = "finished" => requests[t].name # None,
         \A n \in Names \ {requests[t].name} : files'[n] = files[n],
         requests[t].name \in Names =>
           files'[requests[t].name] = IF stage = "finished" THEN Whole(t) ELSE NoFile,
         UNCHANGED <<artifacts, receipts, records, call>>
  PROVE  Kept' /\ Storing' /\ Stored'
<1>1. requests \in Seq(RaisedType) /\ \A u \in Issued : requests[u] \in RaisedType
  BY ElementOfSeq, LenProperties DEF Inv, TypeInv, AdapterTypes, Issued
<1>2. /\ Issued' = Issued /\ requests'[t].stage = stage
      /\ requests'[t].name = requests[t].name
      /\ \A u \in Issued \ {t} : requests'[u] = requests[u]
  BY <1>1 DEF RaisedType, Issued
<1>3. /\ \A u \in Issued : requests[u].name \in Names \union {None}
      /\ \A u \in Issued : Shared(u)' <=> Shared(u)
      /\ \A u \in Issued \ {t} : ~Shared(u) => requests[u].name # requests[t].name
  <2>1. \A u \in Issued : requests[u].name \in Names \union {None}
    BY <1>1 DEF RaisedType
  <2>2. \A u \in Issued : requests'[u].name = requests[u].name
    BY <1>2
  <2>3. \A u \in Issued : Shared(u)' <=> Shared(u)
    BY <1>2, <2>2 DEF Shared
  <2>4. \A u \in Issued \ {t} : ~Shared(u) => requests[u].name # requests[t].name
    BY DEF Shared
  <2> QED BY <2>1, <2>3, <2>4
<1>4. ~HeardAll(t)
  BY DEF DownloadInv, Told, Ended
<1>5. Kept'
  <2> SUFFICES ASSUME NEW u \in Issued
               PROVE  /\ requests'[u].stage \in {"writing", "finished"} => requests'[u].name # None
                      /\ requests'[u].stage \in {"none", "started"} => requests'[u].name = None
                      /\ requests'[u].name # None /\ ~Shared(u)' =>
                           /\ requests'[u].stage = "finished" => files'[requests'[u].name] = Whole(u)
                           /\ requests'[u].stage = "failed" => files'[requests'[u].name] = NoFile
    BY <1>2 DEF Kept, Whole, NoFile
  <2>1. CASE u = t
    BY <1>2, <1>3, <2>1
  <2>2. CASE u # t
    <3>1. requests'[u] = requests[u]
      BY <1>2, <2>2
    <3>2. requests[u].name # None /\ ~Shared(u)
            => files'[requests[u].name] = files[requests[u].name]
      BY <1>3, <2>2
    <3> QED BY <1>3, <3>1, <3>2 DEF DownloadInv, Kept
  <2> QED BY <2>1, <2>2
<1>6. Storing'
  <2> SUFFICES ASSUME call.stage = "store" PROVE Storing'
    BY DEF Storing
  <2> PICK u : u = call.token
    OBVIOUS
  <2>1. /\ u \in Issued /\ records[u].status = "completed" /\ requests[u].name # None
        /\ ~Shared(u) => requests[u].stage = "finished" /\ call.payload = Whole(u)
    BY DEF Inv, CallInv, DownloadInv, Storing
  <2>2. u # t
    BY <1>4, <2>1 DEF HeardAll
  <2> QED BY <1>2, <1>3, <2>1, <2>2 DEF Storing, Whole
<1>7. Stored'
  <2> SUFFICES ASSUME NEW r \in receipts
               PROVE  /\ r.download \in Issued' /\ records'[r.download].status = "quarantined"
                      /\ requests'[r.download].name # None
                      /\ ~Shared(r.download)' =>
                           /\ requests'[r.download].stage = "finished"
                           /\ r.content = Whole(r.download)
                           /\ artifacts'[requests'[r.download].name] = Whole(r.download)
    BY DEF DownloadInv, Stored
  <2> PICK u : u = r.download
    OBVIOUS
  <2>1. /\ u \in Issued /\ records[u].status = "quarantined" /\ requests[u].name # None
        /\ ~Shared(u) => /\ requests[u].stage = "finished" /\ r.content = Whole(u)
                         /\ artifacts[requests[u].name] = Whole(u)
    BY DEF DownloadInv, Stored
  <2>2. u # t
    BY <1>4, <2>1 DEF HeardAll
  <2> QED BY <1>2, <1>3, <2>1, <2>2
<1> QED BY <1>5, <1>6, <1>7

LEMMA FinishKeepsDownloads ==
  ASSUME Inv, DownloadInv, NEW t \in Issued, DownloadFinishes(t),
         UNCHANGED <<artifacts, receipts, records, call>>
  PROVE  DownloadInv'
<1> PICK m : m = Event("finished", t)
  OBVIOUS
<1> PICK n : n = Len(wire) + 1
  OBVIOUS
<1>1. /\ requests[t].stage = "writing"
      /\ requests' = [requests EXCEPT ![t].stage = "finished"]
      /\ files' = [files EXCEPT ![requests[t].name] = Whole(t)] /\ Emit(<<m>>)
  BY DEF DownloadFinishes, Transfer
<1>2. requests \in Seq(RaisedType) /\ requests[t] \in RaisedType
  BY ElementOfSeq, LenProperties DEF Inv, TypeInv, AdapterTypes, Issued
<1>3. /\ Issued' = Issued /\ requests'[t].stage = "finished"
      /\ \A u \in Issued \ {t} : requests'[u] = requests[u]
  BY <1>1, <1>2 DEF RaisedType, Issued
<1>4. m \in Message /\ m.kind = "finished" /\ m.token = t
  BY MessageTypes, TokensIssued
<1>5. /\ DOMAIN wire = 1..Len(wire) /\ Len(wire) \in Nat
      /\ DOMAIN wire' = DOMAIN wire \union {n}
      /\ (\A i \in DOMAIN wire : wire'[i] = wire[i]) /\ wire'[n] = m
  <2>1. wire \in Seq(Message) /\ wire' = Append(wire, m)
    BY <1>1, <1>4, EmitsOne DEF Inv, TypeInv, AdapterTypes
  <2>2. DOMAIN wire = 1..Len(wire) /\ Len(wire) \in Nat
    BY <2>1, LenProperties
  <2> QED BY <1>4, <2>1, <2>2, WireGrows
<1>6. Told'
  <2>1. Ended(t)'
    BY <1>3 DEF Ended
  <2>2. \A i \in DOMAIN wire' :
          /\ i \in Nat
          /\ \/ i \in DOMAIN wire /\ wire'[i] = wire[i]
             \/ /\ wire'[i].kind \in {"finished", "failed"} /\ wire'[i].token = t
                /\ Ended(t)' /\ \A j \in DOMAIN wire : j < i
    BY <1>4, <1>5, <2>1
  <2>3. \A i, j \in DOMAIN wire' \ DOMAIN wire :
          i < j => Rank(wire'[i]) < Rank(wire'[j])
    BY <1>5
  <2> QED BY <1>1, <1>3, <2>2, <2>3, TransferKeepsTold DEF DownloadInv
<1>7. Kept' /\ Storing' /\ Stored'
  <2>1. requests[t].name # None /\ requests[t].name \in Names
    BY <1>1, <1>2 DEF DownloadInv, Kept, RaisedType
  <2>2. /\ \A k \in Names \ {requests[t].name} : files'[k] = files[k]
        /\ files'[requests[t].name] = Whole(t)
    BY <1>1, <2>1 DEF Inv, TypeInv, AdapterTypes
  <2> QED BY <1>1, <2>1, <2>2, EndKeepsFiles
<1> QED BY <1>6, <1>7 DEF DownloadInv

LEMMA FailKeepsDownloads ==
  ASSUME Inv, DownloadInv, NEW t \in Issued, DownloadFails(t),
         UNCHANGED <<artifacts, receipts, records, call>>
  PROVE  DownloadInv'
<1> PICK m, e : m = Event("failed", t) /\ e = Event("finished", t)
  OBVIOUS
<1> PICK n, s : n = Len(wire) + 1 /\ s = Append(wire, m)
  OBVIOUS
<1>1. /\ requests[t].stage \in {"started", "writing"}
      /\ requests' = [requests EXCEPT ![t].stage = "failed"]
      /\ files' = [k \in Names |-> IF k = requests[t].name THEN NoFile ELSE files[k]]
      /\ Emit(<<m, e>>)
  BY DEF DownloadFails, Transfer
<1>2. requests \in Seq(RaisedType) /\ requests[t] \in RaisedType
  BY ElementOfSeq, LenProperties DEF Inv, TypeInv, AdapterTypes, Issued
<1>3. /\ Issued' = Issued /\ requests'[t].stage = "failed"
      /\ \A u \in Issued \ {t} : requests'[u] = requests[u]
  BY <1>1, <1>2 DEF RaisedType, Issued
<1>4. /\ m \in Message /\ m.kind = "failed" /\ m.token = t
      /\ e \in Message /\ e.kind = "finished" /\ e.token = t
  BY MessageTypes, TokensIssued
<1>5. /\ DOMAIN wire = 1..Len(wire) /\ Len(wire) \in Nat
      /\ DOMAIN wire' = DOMAIN wire \union {n, n + 1}
      /\ (\A i \in DOMAIN wire : wire'[i] = wire[i]) /\ wire'[n] = m /\ wire'[n + 1] = e
  <2>1. wire \in Seq(Message) /\ wire' = Append(s, e)
    BY <1>1, <1>4, EmitsTwo DEF Inv, TypeInv, AdapterTypes
  <2>2. DOMAIN wire = 1..Len(wire) /\ Len(wire) \in Nat
    BY <2>1, LenProperties
  <2>3. /\ s \in Seq(Message) /\ DOMAIN s = DOMAIN wire \union {n} /\ Len(s) = n
        /\ (\A i \in DOMAIN wire : s[i] = wire[i]) /\ s[n] = m
    BY <1>4, <2>1, Appended
  <2>4. /\ DOMAIN wire' = DOMAIN s \union {n + 1}
        /\ (\A i \in DOMAIN s : wire'[i] = s[i]) /\ wire'[n + 1] = e
    BY <1>4, <2>1, <2>3, Appended
  <2> QED BY <2>2, <2>3, <2>4
<1>6. Told'
  <2>1. Ended(t)'
    BY <1>3 DEF Ended
  <2>2. \A i \in DOMAIN wire' :
          /\ i \in Nat
          /\ \/ i \in DOMAIN wire /\ wire'[i] = wire[i]
             \/ /\ wire'[i].kind \in {"finished", "failed"} /\ wire'[i].token = t
                /\ Ended(t)' /\ \A j \in DOMAIN wire : j < i
    BY <1>4, <1>5, <2>1
  <2>3. Rank(wire'[n]) = 2 /\ Rank(wire'[n + 1]) = 3
    BY <1>4, <1>5, RankIs
  <2>4. \A i, j \in DOMAIN wire' \ DOMAIN wire :
          i < j => Rank(wire'[i]) < Rank(wire'[j])
    BY <1>5, <2>3
  <2> QED BY <1>1, <1>3, <2>2, <2>4, TransferKeepsTold DEF DownloadInv
<1>7. Kept' /\ Storing' /\ Stored'
  BY <1>1, EndKeepsFiles
<1> QED BY <1>6, <1>7 DEF DownloadInv

LEMMA AdapterKeepsDownloads ==
  ASSUME Inv, DownloadInv, AdapterStep
  PROVE  DownloadInv'
<1>1. UNCHANGED <<records, artifacts, receipts, call>>
  BY DEF AdapterStep, evidence
<1>2. CASE OpPageEvaluate \/ ScriptRuns
  <2>1. UNCHANGED <<wire, requests, files>>
    BY <1>2 DEF OpPageEvaluate, ScriptRuns
  <2> QED BY <1>1, <2>1, CallKeepsDownloads
<1>3. CASE OpPageDecide
  BY <1>1, <1>3, DecidesKeepDownloads
<1>4. CASE PermissionRequest \/ RunFileChooser \/ DownloadStarted
  <2>1. 0 \in 0..MaxUploads /\ clicks \subseteq 0..MaxUploads
    BY RequestsAssumption DEF Inv, TypeInv, AdapterTypes
  <2>2. UNCHANGED files
    BY <1>4 DEF PermissionRequest, RunFileChooser, DownloadStarted
  <2>3. PICK kind \in {"permission", "chooser", "download"}, cause \in 0..MaxUploads :
          Raises(kind, cause)
    BY <1>4, <2>1 DEF PermissionRequest, RunFileChooser, DownloadStarted
  <2> QED BY <1>1, <2>2, <2>3, RaisesKeepsDownloads
<1>5. CASE \E t \in Issued :
             DecideDestination(t) \/ DownloadFinishes(t) \/ DownloadFails(t)
  <2>1. PICK t \in Issued : DecideDestination(t) \/ DownloadFinishes(t) \/ DownloadFails(t)
    BY <1>5
  <2> QED BY <1>1, <2>1, DestinationKeepsDownloads, FinishKeepsDownloads, FailKeepsDownloads
<1>6. CASE EvaluationReplies
  <2> PICK r : r = Head(evaluations).request
    OBVIOUS
  <2>1. /\ evaluations # <<>> /\ Emit(<<Reply(r, TRUE)>>) /\ UNCHANGED <<requests, files>>
    BY <1>6 DEF EvaluationReplies
  <2>2. r \in RequestType
    <3>1. Head(evaluations) \in EvaluationType
      BY <2>1, Taken DEF Inv, TypeInv, AdapterTypes
    <3> QED BY <3>1 DEF EvaluationType
  <2>3. Reply(r, TRUE) \in Message /\ Reply(r, TRUE).kind = "reply"
    BY <2>2, MessageTypes
  <2> QED BY <1>1, <2>1, <2>3, RequestsStay, RepliesKeepDownloads
<1> QED BY <1>2, <1>3, <1>4, <1>5, <1>6 DEF AdapterStep, Adapter

LEMMA DownloadsInvariant ==
  Spec => [](Inv /\ DownloadInv)
<1>1. Init => DownloadInv
  <2> SUFFICES ASSUME Init PROVE DownloadInv
    OBVIOUS
  <2>1. DOMAIN wire = {} /\ Issued = {} /\ receipts = {} /\ call.stage = "none"
    BY NoCallTypes DEF Init, Issued
  <2> QED BY <2>1 DEF DownloadInv, Told, InOrder, Kept, Storing, Stored
<1>2. Inv /\ DownloadInv /\ [Next]_vars => DownloadInv'
  <2> SUFFICES ASSUME Inv, DownloadInv, [Next]_vars PROVE DownloadInv'
    OBVIOUS
  <2>1. CASE UNCHANGED vars
    BY <2>1, CallKeepsDownloads DEF vars, adapter, evidence
  <2> QED BY <2>1, HostKeepsDownloads, AdapterKeepsDownloads DEF Next
<1> QED BY <1>1, <1>2, InvInductive, PTL DEF Spec

\* A download is quarantined once, and unless another of the same name comes
\* in, its receipt, its artifact's record and its file hold its bytes from then
\* on (_act_download, decide_destination).
THEOREM QuarantineHeld ==
  Spec => []QuarantineHoldsIt
<1>1. Inv /\ DownloadInv => QuarantineHoldsIt
  <2> SUFFICES ASSUME Inv, DownloadInv PROVE QuarantineHoldsIt
    OBVIOUS
  <2>1. \A r, s \in receipts : r.download = s.download => r = s
    BY DEF DownloadInv, Stored
  <2>2. ASSUME NEW r \in receipts, ~Shared(r.download)
        PROVE  /\ requests[r.download].stage = "finished" /\ r.content = Whole(r.download)
               /\ FileOf(r.download) = Whole(r.download)
               /\ artifacts[requests[r.download].name] = Whole(r.download)
    BY <2>2 DEF DownloadInv, Stored, Kept, FileOf
  <2> QED BY <2>1, <2>2 DEF QuarantineHoldsIt
<1> QED BY <1>1, DownloadsInvariant, PTL

-----------------------------------------------------------------------------
(* Uploads: one click, one chooser and one decision each.                   *)

Clicks(r, n) == r.op = "click" /\ r.decision.upload = n
ClicksIn(n) == {i \in DOMAIN inbox : Clicks(inbox[i], n)}
ClicksRun(n) ==
  {i \in DOMAIN evaluations : ~evaluations[i].ran /\ Clicks(evaluations[i].request, n)}
OpenedBy(n) == {t \in Issued : requests[t].cause = n}

\* The click of an upload is in one place at a time: on its way, to be run, in
\* the page, or in the chooser it opened.
ClickInv ==
  /\ \A n \in 1..MaxUploads :
       /\ \A i, j \in ClicksIn(n) : i = j
       /\ \A i, j \in ClicksRun(n) : i = j
       /\ \A t, u \in OpenedBy(n) : t = u
       /\ ClicksIn(n) # {} => ClicksRun(n) = {} /\ n \notin clicks /\ OpenedBy(n) = {}
       /\ ClicksRun(n) # {} => n \notin clicks /\ OpenedBy(n) = {}
       /\ n \in clicks => OpenedBy(n) = {}
       /\ n > uploads =>
            ClicksIn(n) = {} /\ ClicksRun(n) = {} /\ n \notin clicks /\ OpenedBy(n) = {}
  /\ \A t \in Issued :
       /\ requests[t].kind # "chooser" => requests[t].cause = 0
       /\ records[t] # Unknown => requests[t].cause <= records[t].since

SelectsIn(n) ==
  {i \in DOMAIN inbox : inbox[i].op = "decide" /\ inbox[i].decision = Select(n)}
Chosen(n) == {t \in Issued : Select(n) \in Given(t)}

\* Its decision goes to one chooser, which the host first heard of after it
\* made the upload.
Chooses(t, n) == requests[t].kind = "chooser" /\ records[t] # Unknown /\ records[t].since = n
Searching == call.stage \in {"click", "chooser"}
SelectInv ==
  /\ \A n \in 1..MaxUploads :
       /\ \A i, j \in SelectsIn(n) : i = j
       /\ \A t, u \in Chosen(n) : t = u
       /\ SelectsIn(n) = {} \/ Chosen(n) = {}
       /\ n > uploads \/ (Searching /\ n = uploads) => SelectsIn(n) = {} /\ Chosen(n) = {}
       /\ \A i \in SelectsIn(n) : Chooses(inbox[i].token, n)
       /\ \A t \in Chosen(n) : Chooses(t, n)
  /\ Searching =>
       /\ uploads \in 1..MaxUploads /\ call.decision = Select(uploads)
       /\ \A t \in Fresh : records[t].since = uploads

UploadInv == ClickInv /\ SelectInv

-----------------------------------------------------------------------------
(* Steps that are no news for an upload.                                    *)

\* A request in the inbox that was there before.
WasThere(i, k) ==
  /\ i + k \in DOMAIN inbox /\ inbox'[i].op = inbox[i + k].op
  /\ inbox'[i].token = inbox[i + k].token
  /\ inbox'[i].decision = inbox[i + k].decision

\* No click, and no decision of an upload, is sent.
NoClickSent ==
  \E k \in {0, 1} : \A i \in DOMAIN inbox' :
    i \in Nat /\ (inbox'[i].op = "click" => WasThere(i, k))
NoSelectSent ==
  \E k \in {0, 1} : \A i \in DOMAIN inbox' :
    /\ i \in Nat
    /\ inbox'[i].op = "decide" /\ inbox'[i].decision \notin {Allow, Deny} => WasThere(i, k)

EvaluationsStay ==
  \E k \in {0, 1} : \A i \in DOMAIN evaluations' :
    /\ i \in Nat /\ i + k \in DOMAIN evaluations
    /\ evaluations'[i].request.op = evaluations[i + k].request.op
    /\ evaluations'[i].request.decision = evaluations[i + k].request.decision
    /\ evaluations[i + k].ran => evaluations'[i].ran

\* A chooser is registered as of now, or stays as it was.
ChoosersStay ==
  \A t \in Issued : requests[t].kind = "chooser" =>
    \/ /\ records'[t] = Unknown <=> records[t] = Unknown
       /\ records'[t].since = records[t].since
    \/ records[t] = Unknown /\ records'[t] # Unknown /\ records'[t].since = uploads

LEMMA SelectIs ==
  /\ \A n \in 1..MaxUploads : Select(n) \notin {Allow, Deny}
  /\ \A n, m \in 1..MaxUploads : Select(n) = Select(m) => n = m
BY DEF Select, Allow, Deny

\* The upload that caused a chooser was made.
LEMMA CauseIsMade ==
  ASSUME Inv, ClickInv, NEW t \in Issued
  PROVE  requests[t].cause \in 0..MaxUploads /\ requests[t].cause <= uploads
<1>1. requests[t].cause \in 0..MaxUploads /\ uploads \in Nat
  <2>1. requests[t] \in RaisedType
    BY ElementOfSeq, LenProperties DEF Inv, TypeInv, AdapterTypes, Issued
  <2> QED BY <2>1 DEF RaisedType, Inv, TypeInv, HostTypes
<1>2. PICK n \in 0..MaxUploads : n = requests[t].cause
  BY <1>1
<1>3. ASSUME n > uploads PROVE FALSE
  <2>1. n \in 1..MaxUploads
    BY <1>1, <1>3
  <2>2. OpenedBy(n) = {}
    BY <1>3, <2>1 DEF ClickInv
  <2> QED BY <1>2, <2>2 DEF OpenedBy
<1> QED BY <1>1, <1>2, <1>3

LEMMA ClicksStay ==
  ASSUME Inv, Inv', ClickInv, NoClickSent, EvaluationsStay, ChoosersStay,
         UNCHANGED <<Issued, clicks, uploads>>,
         \A t \in Issued :
           requests'[t].kind = requests[t].kind /\ requests'[t].cause = requests[t].cause
  PROVE  ClickInv'
<1>1. PICK k \in {0, 1} : \A i \in DOMAIN inbox' :
        i \in Nat /\ (inbox'[i].op = "click" => WasThere(i, k))
  BY DEF NoClickSent
<1>2. PICK l \in {0, 1} : \A i \in DOMAIN evaluations' :
        /\ i \in Nat /\ i + l \in DOMAIN evaluations
        /\ evaluations'[i].request.op = evaluations[i + l].request.op
        /\ evaluations'[i].request.decision = evaluations[i + l].request.decision
        /\ evaluations[i + l].ran => evaluations'[i].ran
  BY DEF EvaluationsStay
<1>3. ASSUME NEW n \in 1..MaxUploads
      PROVE  /\ \A i \in ClicksIn(n)' : i \in Nat /\ i + k \in ClicksIn(n)
             /\ \A i \in ClicksRun(n)' : i \in Nat /\ i + l \in ClicksRun(n)
             /\ OpenedBy(n)' = OpenedBy(n)
  <2>1. \A i \in ClicksIn(n)' : i \in Nat /\ i + k \in ClicksIn(n)
    BY <1>1 DEF ClicksIn, Clicks, WasThere
  <2>2. \A i \in ClicksRun(n)' : i \in Nat /\ i + l \in ClicksRun(n)
    BY <1>2 DEF ClicksRun, Clicks
  <2>3. OpenedBy(n)' = OpenedBy(n)
    BY DEF OpenedBy
  <2> QED BY <2>1, <2>2, <2>3
<1>4. ASSUME NEW n \in 1..MaxUploads
      PROVE  /\ \A i, j \in ClicksIn(n)' : i = j
             /\ \A i, j \in ClicksRun(n)' : i = j
  <2>1. ASSUME NEW i \in ClicksIn(n)', NEW j \in ClicksIn(n)' PROVE i = j
    <3>1. i + k = j + k
      BY <1>3 DEF ClickInv
    <3> QED BY <1>3, <3>1
  <2>2. ASSUME NEW i \in ClicksRun(n)', NEW j \in ClicksRun(n)' PROVE i = j
    <3>1. i + l = j + l
      BY <1>3 DEF ClickInv
    <3> QED BY <1>3, <3>1
  <2> QED BY <2>1, <2>2
<1>5. ASSUME NEW n \in 1..MaxUploads
      PROVE  /\ ClicksIn(n)' # {} => ClicksIn(n) # {}
             /\ ClicksRun(n)' # {} => ClicksRun(n) # {}
  BY <1>3
<1>6. ASSUME NEW t \in Issued
      PROVE  /\ requests'[t].kind # "chooser" => requests'[t].cause = 0
             /\ records'[t] # Unknown => requests'[t].cause <= records'[t].since
  <2>1. CASE requests[t].kind # "chooser"
    <3>1. requests'[t].cause = 0
      BY <2>1 DEF ClickInv
    <3>2. records'[t].since \in Nat
      <4>1. t \in Tokens
        BY TokensIssued
      <4> QED BY <4>1 DEF Inv, TypeInv, HostTypes, RecordType
    <3> QED BY <2>1, <3>1, <3>2
  <2>2. CASE requests[t].kind = "chooser"
    <3>1. requests[t].cause <= uploads
      BY CauseIsMade
    <3> QED BY <2>2, <3>1 DEF ChoosersStay, ClickInv
  <2> QED BY <2>1, <2>2
<1> QED BY <1>3, <1>4, <1>5, <1>6 DEF ClickInv

LEMMA SelectsStay ==
  ASSUME Inv, SelectInv, NoSelectSent, ChoosersStay, UNCHANGED <<Issued, uploads>>,
         \A t \in Issued :
           requests'[t].kind = requests[t].kind /\ requests'[t].answers = requests[t].answers,
         Searching' => Searching /\ UNCHANGED <<call.decision, call.known>>
  PROVE  SelectInv'
<1>1. PICK k \in {0, 1} : \A i \in DOMAIN inbox' :
        /\ i \in Nat
        /\ inbox'[i].op = "decide" /\ inbox'[i].decision \notin {Allow, Deny}
             => WasThere(i, k)
  BY DEF NoSelectSent
<1>2. ASSUME NEW n \in 1..MaxUploads
      PROVE  /\ \A i \in SelectsIn(n)' : i \in Nat /\ i + k \in SelectsIn(n)
                                         /\ inbox'[i].token = inbox[i + k].token
             /\ Chosen(n)' = Chosen(n)
  <2>1. Select(n) \notin {Allow, Deny}
    BY SelectIs
  <2>2. \A i \in SelectsIn(n)' : i \in Nat /\ i + k \in SelectsIn(n)
                                 /\ inbox'[i].token = inbox[i + k].token
    BY <1>1, <2>1 DEF SelectsIn, WasThere
  <2>3. Chosen(n)' = Chosen(n)
    BY DEF Chosen, Given
  <2> QED BY <2>2, <2>3
<1>3. ASSUME NEW t \in Issued, NEW n \in 1..MaxUploads, Chooses(t, n)
      PROVE  Chooses(t, n)'
  BY <1>3 DEF Chooses, ChoosersStay
<1>4. ASSUME NEW n \in 1..MaxUploads
      PROVE  /\ \A i, j \in SelectsIn(n)' : i = j
             /\ \A i \in SelectsIn(n)' : Chooses(inbox[i].token, n)'
             /\ \A t \in Chosen(n)' : Chooses(t, n)'
  <2>1. ASSUME NEW i \in SelectsIn(n)', NEW j \in SelectsIn(n)' PROVE i = j
    <3>1. i + k = j + k
      BY <1>2 DEF SelectInv
    <3> QED BY <1>2, <3>1
  <2>2. ASSUME NEW i \in SelectsIn(n)' PROVE Chooses(inbox[i].token, n)'
    <3>1. i + k \in SelectsIn(n) /\ inbox'[i].token = inbox[i + k].token
      BY <1>2
    <3>2. Chooses(inbox[i + k].token, n) /\ inbox[i + k].token \in Issued
      BY <3>1 DEF SelectInv, SelectsIn, Inv, RequestsInv, WellFormed
    <3>3. PICK t \in Issued : t = inbox[i + k].token
      BY <3>2
    <3>4. Chooses(t, n)'
      BY <1>3, <3>2, <3>3
    <3> QED BY <3>1, <3>3, <3>4 DEF Chooses
  <2>3. ASSUME NEW t \in Chosen(n) PROVE Chooses(t, n)'
    <3>1. Chooses(t, n) /\ t \in Issued
      BY DEF SelectInv, Chosen
    <3> QED BY <1>3, <3>1
  <2> QED BY <1>2, <2>1, <2>2, <2>3
<1>5. ASSUME NEW n \in 1..MaxUploads PROVE SelectsIn(n)' # {} => SelectsIn(n) # {}
  BY <1>2
<1>6. ASSUME Searching'
      PROVE  /\ uploads' \in 1..MaxUploads /\ call'.decision = Select(uploads')
             /\ \A t \in Fresh' : records'[t].since = uploads'
  <2>1. /\ uploads \in 1..MaxUploads /\ call.decision = Select(uploads)
        /\ \A t \in Fresh : records[t].since = uploads
    BY <1>6 DEF SelectInv
  <2>2. ASSUME NEW t \in Fresh' PROVE records'[t].since = uploads
    <3>1. t \in Issued /\ requests[t].kind = "chooser" /\ records'[t] # Unknown
          /\ t \notin call.known
      BY <1>6 DEF Fresh, Registered
    <3>2. CASE records[t] = Unknown
      BY <3>1, <3>2 DEF ChoosersStay
    <3>3. CASE records[t] # Unknown
      <4>1. t \in Fresh
        BY <3>1, <3>3 DEF Fresh, Registered
      <4> QED BY <2>1, <3>1, <3>3, <4>1 DEF ChoosersStay
    <3> QED BY <3>2, <3>3
  <2> QED BY <1>6, <2>1, <2>2
<1> QED BY <1>2, <1>4, <1>5, <1>6 DEF SelectInv, Searching

-----------------------------------------------------------------------------
(* Uploads: the host.                                                       *)

LEMMA InboxStays ==
  ASSUME Inv, UNCHANGED inbox
  PROVE  NoClickSent /\ NoSelectSent
<1>1. \A i \in DOMAIN inbox' : i \in Nat /\ WasThere(i, 0)
  <2>1. DOMAIN inbox \subseteq Nat
    BY LenProperties DEF Inv, TypeInv, AdapterTypes
  <2>2. ASSUME NEW i \in DOMAIN inbox PROVE i \in Nat /\ i + 0 = i
    BY <2>1
  <2> QED BY <2>2 DEF WasThere
<1> QED BY <1>1 DEF NoClickSent, NoSelectSent

LEMMA InboxShrinks ==
  ASSUME Inv, inbox # <<>>, inbox' = Tail(inbox)
  PROVE  NoClickSent /\ NoSelectSent
<1>1. \A i \in DOMAIN inbox' : i \in Nat /\ WasThere(i, 1)
  BY InboxTaken DEF WasThere, Inv, TypeInv, AdapterTypes
<1> QED BY <1>1 DEF NoClickSent, NoSelectSent

LEMMA InboxAdds ==
  ASSUME Inv, NEW r \in RequestType, inbox' = Append(inbox, r)
  PROVE  /\ Len(inbox) + 1 \in Nat /\ Len(inbox) + 1 \notin DOMAIN inbox
         /\ DOMAIN inbox' = DOMAIN inbox \union {Len(inbox) + 1}
         /\ (\A i \in DOMAIN inbox : inbox'[i] = inbox[i]) /\ inbox'[Len(inbox) + 1] = r
         /\ r.op # "click" => NoClickSent
         /\ r.op # "decide" \/ r.decision \in {Allow, Deny} => NoSelectSent
<1> PICK n : n = Len(inbox) + 1
  OBVIOUS
<1>1. /\ n \in Nat /\ n \notin DOMAIN inbox /\ DOMAIN inbox = 1..Len(inbox)
      /\ DOMAIN inbox' = DOMAIN inbox \union {n}
      /\ (\A i \in DOMAIN inbox : inbox'[i] = inbox[i]) /\ inbox'[n] = r
  BY Appended DEF Inv, TypeInv, AdapterTypes
<1>2. \A i \in DOMAIN inbox : i \in Nat /\ i + 0 = i
  BY <1>1
<1>3. \A i \in DOMAIN inbox' : i \in Nat /\ (i = n \/ WasThere(i, 0))
  BY <1>1, <1>2 DEF WasThere
<1>4. r.op # "click" => NoClickSent
  BY <1>1, <1>3 DEF NoClickSent
<1>5. r.op # "decide" \/ r.decision \in {Allow, Deny} => NoSelectSent
  BY <1>1, <1>3 DEF NoSelectSent
<1> QED BY <1>1, <1>4, <1>5

LEMMA EvaluationsSame ==
  ASSUME Inv, UNCHANGED evaluations
  PROVE  EvaluationsStay
<1>1. DOMAIN evaluations \subseteq Nat
  BY LenProperties DEF Inv, TypeInv, AdapterTypes
<1>2. ASSUME NEW i \in DOMAIN evaluations PROVE i \in Nat /\ i + 0 = i
  BY <1>1
<1> QED BY <1>2 DEF EvaluationsStay

LEMMA RecordsSame ==
  UNCHANGED records => ChoosersStay
BY DEF ChoosersStay

\* What a call does to no request, no script and no chooser.
LEMMA UploadsStay ==
  ASSUME Inv, Inv', UploadInv, NoClickSent, NoSelectSent, EvaluationsStay, ChoosersStay,
         UNCHANGED <<requests, clicks, uploads>>,
         Searching' => Searching /\ UNCHANGED <<call.decision, call.known>>
  PROVE  UploadInv'
<1>1. UNCHANGED Issued
  BY DEF Issued
<1>2. ClickInv'
  BY <1>1, ClicksStay DEF UploadInv
<1>3. SelectInv'
  BY <1>1, SelectsStay DEF UploadInv
<1> QED BY <1>2, <1>3 DEF UploadInv

LEMMA CallKeepsUploads ==
  ASSUME Inv, Inv', UploadInv, UNCHANGED <<inbox, evaluations, requests, clicks, uploads, records>>,
         Searching' => Searching /\ UNCHANGED <<call.decision, call.known>>
  PROVE  UploadInv'
BY InboxStays, EvaluationsSame, RecordsSame, UploadsStay

LEMMA ResolvesKeepsChoosers ==
  ASSUME Inv, call.stage = "decide", Resolves(call.token)
  PROVE  ChoosersStay
<1> PICK t : t = call.token
  OBVIOUS
<1>1. /\ t \in Issued /\ t \in Tokens /\ records[t] # Unknown
      /\ records \in [Tokens -> RecordType]
      /\ call.decision \in Decision
  BY TokensIssued DEF Inv, CallInv, TypeInv, HostTypes
<1>2. records' = [records EXCEPT ![t].status = "resolved", ![t].decision = call.decision]
  BY DEF Resolves
<1>3. /\ records'[t].since = records[t].since /\ records'[t].status = "resolved"
      /\ \A u \in Tokens \ {t} : records'[u] = records[u]
  BY <1>1, <1>2 DEF RecordType
<1>4. records'[t] # Unknown
  BY <1>3 DEF Unknown
<1> QED BY <1>1, <1>3, <1>4, TokensIssued DEF ChoosersStay

LEMMA GivesUpKeepsUploads ==
  ASSUME Inv, Inv', UploadInv, NEW frames, GivesUp(frames)
  PROVE  UploadInv'
<1>1. /\ inbox' = [i \in DOMAIN inbox |-> [inbox[i] EXCEPT !.fresh = FALSE]]
      /\ evaluations' = [i \in DOMAIN evaluations |->
                           [evaluations[i] EXCEPT !.request.fresh = FALSE]]
      /\ call' = NoCall /\ UNCHANGED <<requests, clicks, records, uploads>>
  BY DEF GivesUp
<1>2. \A i \in DOMAIN inbox : i \in Nat /\ i + 0 = i /\ inbox[i] \in RequestType
  BY LenProperties, ElementOfSeq DEF Inv, TypeInv, AdapterTypes
<1>3. \A i \in DOMAIN inbox' : i \in Nat /\ WasThere(i, 0)
  BY <1>1, <1>2 DEF WasThere, RequestType
<1>4. \A i \in DOMAIN evaluations : i \in Nat /\ i + 0 = i /\ evaluations[i] \in EvaluationType
  BY LenProperties, ElementOfSeq DEF Inv, TypeInv, AdapterTypes
<1>5. ASSUME NEW i \in DOMAIN evaluations
      PROVE  /\ evaluations'[i].ran = evaluations[i].ran
             /\ evaluations'[i].request.op = evaluations[i].request.op
             /\ evaluations'[i].request.decision = evaluations[i].request.decision
  <2>1. evaluations'[i] = [evaluations[i] EXCEPT !.request.fresh = FALSE]
    BY <1>1
  <2>2. evaluations[i] \in EvaluationType /\ evaluations[i].request \in RequestType
    BY <1>4 DEF EvaluationType
  <2> QED BY <2>1, <2>2 DEF EvaluationType, RequestType
<1>6. EvaluationsStay
  <2>1. DOMAIN evaluations' = DOMAIN evaluations
    BY <1>1
  <2>2. \A i \in DOMAIN evaluations' :
          /\ i \in Nat /\ i + 0 \in DOMAIN evaluations
          /\ evaluations'[i].request.op = evaluations[i + 0].request.op
          /\ evaluations'[i].request.decision = evaluations[i + 0].request.decision
          /\ evaluations[i + 0].ran => evaluations'[i].ran
    BY <1>4, <1>5, <2>1
  <2> QED BY <2>2 DEF EvaluationsStay
<1>7. ~Searching'
  BY <1>1, NoCallTypes DEF Searching
<1> QED BY <1>1, <1>3, <1>6, <1>7, RecordsSame, UploadsStay DEF NoClickSent, NoSelectSent

LEMMA TakeEventKeepsUploads ==
  ASSUME Inv, Inv', UploadInv, TakeEvent
  PROVE  UploadInv'
<1> PICK e : e = Head(wire)
  OBVIOUS
<1>1. /\ wire # <<>> /\ e.kind # "reply"
      /\ records' = [records EXCEPT ![e.token] = RegisterPending(e)]
      /\ UNCHANGED <<inbox, evaluations, clicks, requests, uploads, call>>
  BY DEF TakeEvent
<1>2. 1 \in DOMAIN wire /\ e = wire[1] /\ e \in Message
  BY <1>1, Taken DEF Inv, TypeInv, AdapterTypes
<1>3. e \in EventType /\ e.token \in Tokens /\ e.kind \in {"raised", "finished", "failed"}
  BY <1>1, <1>2, MessageParts
<1>4. /\ records'[e.token] = RegisterPending(e)
      /\ \A t \in Tokens \ {e.token} : records'[t] = records[t]
  BY <1>1, <1>3 DEF Inv, TypeInv, HostTypes
<1>5. e.kind # "raised" => e.token \in Issued /\ requests[e.token].kind = "download"
  BY <1>2, <1>3 DEF Inv, Announced
<1>6. e.kind = "raised" =>
        /\ records'[e.token] # Unknown /\ records'[e.token].since = uploads
        /\ requests[e.token].kind # "download" => records[e.token] = Unknown
  <2>1. e.kind = "raised" => RegisterPending(e).since = uploads
                             /\ RegisterPending(e).status = "pending"
    BY DEF RegisterPending, Unknown
  <2>2. Unknown.status = "absent"
    BY DEF Unknown
  <2> QED BY <1>2, <1>4, <2>1, <2>2 DEF Inv, Announced
<1>7. ChoosersStay
  BY <1>4, <1>5, <1>6, TokensIssued DEF ChoosersStay
<1> QED BY <1>1, <1>7, InboxStays, EvaluationsSame, UploadsStay DEF Searching

LEMMA StoresDownloadKeepsUploads ==
  ASSUME Inv, Inv', UploadInv, StoresDownload
  PROVE  UploadInv'
<1> PICK t : t = call.token
  OBVIOUS
<1>1. /\ call.stage = "store" /\ records' = [records EXCEPT ![t].status = "quarantined"]
      /\ call' = [call EXCEPT !.stage = "drain"]
      /\ UNCHANGED <<inbox, evaluations, clicks, requests, uploads>>
  BY DEF StoresDownload
<1>2. /\ t \in Issued /\ requests[t].kind = "download" /\ call'.stage = "drain"
  BY <1>1 DEF Inv, CallInv, TypeInv, HostTypes, CallType
<1>3. ChoosersStay
  BY <1>1, <1>2, TokensIssued DEF ChoosersStay, Inv, TypeInv, HostTypes
<1> QED BY <1>1, <1>2, <1>3, InboxStays, EvaluationsSame, UploadsStay DEF Searching

LEMMA ActPermissionKeepsUploads ==
  ASSUME Inv, Inv', UploadInv, NEW t \in Issued, NEW d \in {Allow, Deny}, ActPermission(t, d)
  PROVE  UploadInv'
<1> PICK r : r = Request("decide", t, d)
  OBVIOUS
<1>1. /\ inbox' = Append(inbox, r)
      /\ call' = [NoCall EXCEPT !.op = "permission", !.stage = "decide",
                                !.token = t, !.decision = d]
      /\ UNCHANGED <<evaluations, clicks, requests, records, uploads>>
  BY DEF ActPermission, Sends
<1>2. r \in RequestType /\ r.op = "decide" /\ r.decision = d
  <2>1. t \in 0..MaxRequests
    BY TokensIssued, RequestsAssumption DEF Tokens
  <2> QED BY <2>1, DecisionTypes, RequestTypes DEF DecisionOrNone
<1>3. NoClickSent /\ NoSelectSent
  BY <1>1, <1>2, InboxAdds
<1>4. ~Searching'
  BY <1>1, NoCallTypes DEF Searching, CallType
<1> QED BY <1>1, <1>3, <1>4, EvaluationsSame, RecordsSame, UploadsStay

\* The click of a new upload is the first that is about it.
LEMMA ActUploadKeepsUploads ==
  ASSUME Inv, Inv', UploadInv, ActUpload
  PROVE  UploadInv'
<1> PICK n : n = uploads + 1
  OBVIOUS
<1> PICK r : r = Request("click", 0, Select(n))
  OBVIOUS
<1> PICK k : k = Len(inbox) + 1
  OBVIOUS
<1>1. /\ uploads < MaxUploads /\ uploads' = n /\ inbox' = Append(inbox, r)
      /\ call' = [NoCall EXCEPT !.op = "upload", !.stage = "click",
                                !.decision = Select(n), !.known = Registered("chooser")]
      /\ UNCHANGED <<evaluations, clicks, requests, records>>
  BY DEF ActUpload, Sends
<1>2. n \in 1..MaxUploads /\ uploads \in Nat /\ 0 \in 0..MaxRequests
  BY <1>1, RequestsAssumption DEF Inv, TypeInv, HostTypes
<1>3. /\ r \in RequestType /\ r.op = "click" /\ r.decision.upload = n
  <2>1. Select(n) \in DecisionOrNone /\ Select(n).upload = n
    BY <1>2, DecisionTypes DEF DecisionOrNone
  <2> QED BY <1>2, <2>1, RequestTypes
<1>4. /\ k \notin DOMAIN inbox /\ DOMAIN inbox' = DOMAIN inbox \union {k}
      /\ (\A i \in DOMAIN inbox : inbox'[i] = inbox[i]) /\ inbox'[k] = r /\ NoSelectSent
  BY <1>1, <1>3, InboxAdds
<1>5. /\ UNCHANGED Issued
      /\ \A m \in 1..MaxUploads :
           /\ ClicksIn(m)' = IF m = n THEN ClicksIn(m) \union {k} ELSE ClicksIn(m)
           /\ ClicksRun(m)' = ClicksRun(m) /\ OpenedBy(m)' = OpenedBy(m)
           /\ m > n => m > uploads
  <2>1. UNCHANGED Issued
    BY <1>1 DEF Issued
  <2>2. ASSUME NEW m \in 1..MaxUploads
        PROVE  ClicksIn(m)' = IF m = n THEN ClicksIn(m) \union {k} ELSE ClicksIn(m)
    <3>1. Clicks(r, m) <=> m = n
      BY <1>3 DEF Clicks
    <3> QED BY <1>4, <3>1 DEF ClicksIn, Clicks
  <2>3. ASSUME NEW m \in 1..MaxUploads
        PROVE  ClicksRun(m)' = ClicksRun(m) /\ OpenedBy(m)' = OpenedBy(m)
    BY <1>1, <2>1 DEF ClicksRun, OpenedBy
  <2> QED BY <1>2, <2>1, <2>2, <2>3
<1>6. ClicksIn(n) = {} /\ ClicksRun(n) = {} /\ n \notin clicks /\ OpenedBy(n) = {}
  BY <1>2 DEF UploadInv, ClickInv
<1>7. ClickInv'
  <2>1. ASSUME NEW m \in 1..MaxUploads, m # n
        PROVE  /\ ClicksIn(m)' = ClicksIn(m) /\ ClicksRun(m)' = ClicksRun(m)
               /\ OpenedBy(m)' = OpenedBy(m) /\ (m > n => m > uploads)
    BY <1>5, <2>1
  <2>2. ClicksIn(n)' = {k} /\ ClicksRun(n)' = {} /\ OpenedBy(n)' = {} /\ ~(n > n)
    BY <1>2, <1>5, <1>6
  <2>3. \A t \in Issued :
          /\ requests[t].kind # "chooser" => requests[t].cause = 0
          /\ records[t] # Unknown => requests[t].cause <= records[t].since
    BY DEF UploadInv, ClickInv
  <2>4. ASSUME NEW m \in 1..MaxUploads, m # n
        PROVE  /\ \A i, j \in ClicksIn(m)' : i = j
               /\ \A i, j \in ClicksRun(m)' : i = j
               /\ \A t, u \in OpenedBy(m)' : t = u
               /\ ClicksIn(m)' # {} => ClicksRun(m)' = {} /\ m \notin clicks /\ OpenedBy(m)' = {}
               /\ ClicksRun(m)' # {} => m \notin clicks /\ OpenedBy(m)' = {}
               /\ m \in clicks => OpenedBy(m)' = {}
               /\ m > n =>
                    ClicksIn(m)' = {} /\ ClicksRun(m)' = {} /\ m \notin clicks /\ OpenedBy(m)' = {}
    BY <2>1, <2>4 DEF UploadInv, ClickInv
  <2>5. /\ \A i, j \in ClicksIn(n)' : i = j
        /\ \A i, j \in ClicksRun(n)' : i = j
        /\ \A t, u \in OpenedBy(n)' : t = u
        /\ ClicksRun(n)' = {} /\ n \notin clicks /\ OpenedBy(n)' = {} /\ ~(n > n)
    BY <1>6, <2>2
  <2> QED BY <1>1, <1>5, <2>3, <2>4, <2>5 DEF ClickInv
<1>8. SelectInv'
  <2>1. call'.decision = Select(n) /\ call'.known = Registered("chooser")
    BY <1>1, NoCallTypes DEF CallType
  <2>2. Fresh' = {}
    BY <1>1, <1>5, <2>1 DEF Fresh, Registered
  <2>3. ASSUME NEW m \in 1..MaxUploads
        PROVE  /\ SelectsIn(m)' = SelectsIn(m) /\ Chosen(m)' = Chosen(m)
               /\ \A i \in SelectsIn(m) : inbox'[i].token = inbox[i].token
    <3>1. r.op # "decide"
      BY <1>3
    <3> QED BY <1>1, <1>4, <1>5, <3>1 DEF SelectsIn, Chosen, Given
  <2>4. ASSUME NEW m \in 1..MaxUploads, m > n \/ m = n
        PROVE  SelectsIn(m)' = {} /\ Chosen(m)' = {}
    <3>1. m > uploads
      BY <1>2, <2>4
    <3> QED BY <2>3, <3>1 DEF UploadInv, SelectInv
  <2>5. \A t, m : Chooses(t, m)' <=> Chooses(t, m)
    BY <1>1 DEF Chooses
  <2>6. ASSUME NEW m \in 1..MaxUploads
        PROVE  /\ \A i, j \in SelectsIn(m)' : i = j
               /\ \A t, u \in Chosen(m)' : t = u
               /\ SelectsIn(m)' = {} \/ Chosen(m)' = {}
               /\ m > uploads' \/ (Searching' /\ m = uploads')
                    => SelectsIn(m)' = {} /\ Chosen(m)' = {}
               /\ \A i \in SelectsIn(m)' : Chooses(inbox[i].token, m)'
               /\ \A t \in Chosen(m)' : Chooses(t, m)'
    <3>1. /\ \A i, j \in SelectsIn(m) : i = j
          /\ \A t, u \in Chosen(m) : t = u
          /\ SelectsIn(m) = {} \/ Chosen(m) = {}
          /\ \A i \in SelectsIn(m) : Chooses(inbox[i].token, m)
          /\ \A t \in Chosen(m) : Chooses(t, m)
      BY DEF UploadInv, SelectInv
    <3>2. \A i \in SelectsIn(m)' : Chooses(inbox[i].token, m)'
      <4> SUFFICES ASSUME NEW i \in SelectsIn(m) PROVE Chooses(inbox[i].token, m)'
        BY <2>3
      <4>1. Chooses(inbox[i].token, m) /\ inbox'[i].token = inbox[i].token
        BY <2>3, <3>1
      <4> QED BY <1>1, <4>1 DEF Chooses
    <3> QED BY <1>1, <2>3, <2>4, <2>5, <3>1, <3>2
  <2>7. uploads' \in 1..MaxUploads /\ call'.decision = Select(uploads)'
    BY <1>1, <1>2, <2>1 DEF Select
  <2> QED BY <2>2, <2>6, <2>7 DEF SelectInv
<1> QED BY <1>7, <1>8 DEF UploadInv

\* The decision of an upload goes to a chooser that came after it.
LEMMA ChooserArrivesKeepsUploads ==
  ASSUME Inv, Inv', UploadInv, ChooserArrives
  PROVE  UploadInv'
<1>a. PICK t : t = CHOOSE f \in Fresh : \A g \in Fresh : f <= g
  OBVIOUS
<1> PICK n, d : n = uploads /\ d = call.decision
  OBVIOUS
<1> PICK r : r = Request("decide", t, d)
  OBVIOUS
<1> PICK k : k = Len(inbox) + 1
  OBVIOUS
<1>1. /\ call.stage = "chooser" /\ Fresh # {} /\ inbox' = Append(inbox, r)
      /\ call' = [call EXCEPT !.stage = "decide", !.token = t]
      /\ UNCHANGED <<evaluations, clicks, requests, records, uploads>>
  BY <1>a DEF ChooserArrives, Sends, Stays
<1>2. t \in Fresh
  <2>1. Fresh \subseteq Nat
    BY LenProperties DEF Fresh, Registered, Issued, Inv, TypeInv, AdapterTypes
  <2> QED BY <1>1, <1>a, <2>1, Least
<1>3. n \in 1..MaxUploads /\ d = Select(n) /\ t \in Issued /\ Chooses(t, n)
  BY <1>1, <1>2 DEF UploadInv, SelectInv, Searching, Fresh, Registered, Chooses
<1>4. /\ r \in RequestType /\ r.op = "decide" /\ r.token = t /\ r.decision = Select(n)
  <2>1. Select(n) \in DecisionOrNone /\ t \in 0..MaxRequests
    BY <1>3, DecisionTypes, TokensIssued, RequestsAssumption DEF DecisionOrNone, Tokens
  <2> QED BY <1>3, <2>1, RequestTypes
<1>5. /\ k \notin DOMAIN inbox /\ DOMAIN inbox' = DOMAIN inbox \union {k}
      /\ (\A i \in DOMAIN inbox : inbox'[i] = inbox[i]) /\ inbox'[k] = r /\ NoClickSent
  BY <1>1, <1>4, InboxAdds
<1>6. UNCHANGED Issued /\ ~Searching'
  BY <1>1 DEF Issued, Searching, Inv, TypeInv, HostTypes, CallType
<1>7. ClickInv'
  BY <1>1, <1>5, <1>6, EvaluationsSame, RecordsSame, ClicksStay DEF UploadInv
<1>8. /\ SelectsIn(n) = {} /\ Chosen(n) = {}
  BY <1>1, <1>3 DEF UploadInv, SelectInv, Searching
<1>9. ASSUME NEW m \in 1..MaxUploads
      PROVE  /\ SelectsIn(m)' = IF m = n THEN {k} ELSE SelectsIn(m)
             /\ Chosen(m)' = Chosen(m)
             /\ \A i \in SelectsIn(m) : inbox'[i] = inbox[i]
  <2>1. Select(m) = Select(n) <=> m = n
    BY <1>3, SelectIs
  <2>2. SelectsIn(m)' = IF m = n THEN SelectsIn(m) \union {k} ELSE SelectsIn(m)
    BY <1>4, <1>5, <2>1 DEF SelectsIn
  <2>3. Chosen(m)' = Chosen(m)
    BY <1>1, <1>6 DEF Chosen, Given
  <2>4. \A i \in SelectsIn(m) : inbox'[i] = inbox[i]
    BY <1>5 DEF SelectsIn
  <2> QED BY <1>8, <2>2, <2>3, <2>4
<1>10. \A u, m : Chooses(u, m)' <=> Chooses(u, m)
  BY <1>1 DEF Chooses
<1>11. ASSUME NEW m \in 1..MaxUploads
       PROVE  /\ \A i, j \in SelectsIn(m)' : i = j
              /\ \A u, v \in Chosen(m)' : u = v
              /\ SelectsIn(m)' = {} \/ Chosen(m)' = {}
              /\ m > uploads' => SelectsIn(m)' = {} /\ Chosen(m)' = {}
              /\ \A i \in SelectsIn(m)' : Chooses(inbox[i].token, m)'
              /\ \A u \in Chosen(m)' : Chooses(u, m)'
  <2>1. /\ \A i, j \in SelectsIn(m) : i = j
        /\ \A u, v \in Chosen(m) : u = v
        /\ SelectsIn(m) = {} \/ Chosen(m) = {}
        /\ m > uploads => SelectsIn(m) = {} /\ Chosen(m) = {}
        /\ \A i \in SelectsIn(m) : Chooses(inbox[i].token, m)
        /\ \A u \in Chosen(m) : Chooses(u, m)
    BY DEF UploadInv, SelectInv
  <2>2. CASE m = n
    <3>1. SelectsIn(m)' = {k} /\ Chosen(m)' = {} /\ ~(m > uploads')
      BY <1>1, <1>3, <1>8, <1>9, <2>2
    <3>2. Chooses(inbox[k].token, m)'
      BY <1>1, <1>3, <1>4, <1>5, <2>2 DEF Chooses
    <3> QED BY <3>1, <3>2
  <2>3. CASE m # n
    <3>1. SelectsIn(m)' = SelectsIn(m) /\ Chosen(m)' = Chosen(m)
      BY <1>9, <2>3
    <3>2. \A i \in SelectsIn(m)' : Chooses(inbox[i].token, m)'
      <4> SUFFICES ASSUME NEW i \in SelectsIn(m) PROVE Chooses(inbox[i].token, m)'
        BY <3>1
      <4>1. Chooses(inbox[i].token, m) /\ inbox'[i] = inbox[i]
        BY <1>9, <2>1
      <4> QED BY <1>1, <4>1 DEF Chooses
    <3> QED BY <1>1, <1>10, <2>1, <3>1, <3>2
  <2> QED BY <2>2, <2>3
<1>12. SelectInv'
  BY <1>6, <1>11 DEF SelectInv, Searching
<1> QED BY <1>7, <1>12 DEF UploadInv

LEMMA RepliesKeepUploads ==
  ASSUME Inv, Inv', UploadInv,
         RequestRefused \/ Clicked \/ PermissionResolved \/ FileSelected \/ NameRead
  PROVE  UploadInv'
<1>1. UNCHANGED <<evaluations, clicks, requests, uploads>>
  BY DEF RequestRefused, Clicked, PermissionResolved, FileSelected, NameRead, Replied
<1>2. ChoosersStay
  <2>1. UNCHANGED records \/ (call.stage = "decide" /\ Resolves(call.token))
    BY DEF RequestRefused, Clicked, PermissionResolved, FileSelected, NameRead, Replied
  <2> QED BY <2>1, RecordsSame, ResolvesKeepsChoosers
<1>3. NoClickSent /\ NoSelectSent
  <2>1. \/ UNCHANGED inbox
        \/ inbox' = Append(inbox, Request("name", 0, Undecided))
    BY DEF RequestRefused, Clicked, PermissionResolved, FileSelected, NameRead
  <2>2. /\ Request("name", 0, Undecided) \in RequestType
        /\ Request("name", 0, Undecided).op = "name"
    BY RequestTypes, RequestsAssumption DEF DecisionOrNone
  <2> QED BY <2>1, <2>2, InboxStays, InboxAdds
<1>4. Searching' => Searching /\ UNCHANGED <<call.decision, call.known>>
  <2>1. \/ call' = NoCall
        \/ \E next \in {"drain", "name"} : call' = [call EXCEPT !.stage = next]
        \/ call.stage = "click" /\ call' = [call EXCEPT !.stage = "chooser"]
    BY DEF RequestRefused, Clicked, PermissionResolved, FileSelected, NameRead, Replied
  <2>2. call \in CallType
    BY DEF Inv, TypeInv, HostTypes
  <2> QED BY <2>1, <2>2, NoCallTypes DEF Searching, CallType
<1> QED BY <1>1, <1>2, <1>3, <1>4, EvaluationsSame, UploadsStay

LEMMA HostKeepsUploads ==
  ASSUME Inv, Inv', UploadInv, Host
  PROVE  UploadInv'
<1>1. CASE \E t \in Issued : ActPermission(t, Allow) \/ ActPermission(t, Deny)
  BY <1>1, ActPermissionKeepsUploads
<1>2. CASE (\E t \in Issued : ActDownload(t)) \/ Await \/ Deadline \/ DrainEnds
  <2>1. UNCHANGED <<inbox, evaluations, requests, clicks, uploads, records>>
    BY <1>2 DEF ActDownload, Await, Deadline, DrainEnds, Stays, adapter
  <2>2. call'.stage \in {"none", "transfer", "drain"}
    BY <1>2, NoCallTypes DEF ActDownload, Await, Deadline, DrainEnds, CallType
  <2> QED BY <2>1, <2>2, CallKeepsUploads DEF Searching
<1>3. CASE DownloadRefused \/ ReadsDownload
  <2>1. UNCHANGED <<inbox, evaluations, requests, clicks, uploads, records>>
    BY <1>3 DEF DownloadRefused, ReadsDownload, Stays, adapter
  <2> PICK c : c = FileOf(call.token)
    OBVIOUS
  <2>2. call' = NoCall \/ call' = [call EXCEPT !.stage = "store", !.payload = c]
    BY <1>3 DEF DownloadRefused, ReadsDownload
  <2>3. call'.stage \in {"none", "store"}
    BY <2>2, NoCallTypes DEF CallType, Inv, TypeInv, HostTypes
  <2> QED BY <2>1, <2>3, CallKeepsUploads DEF Searching
<1>4. CASE RequestTimesOut \/ MeetsLateReply
  BY <1>4, GivesUpKeepsUploads DEF RequestTimesOut, MeetsLateReply
<1> QED
  BY <1>1, <1>2, <1>3, <1>4, ActUploadKeepsUploads, TakeEventKeepsUploads,
     RepliesKeepUploads, ChooserArrivesKeepsUploads, StoresDownloadKeepsUploads DEF Host

-----------------------------------------------------------------------------
(* Uploads: the adapter.                                                    *)

\* What is not about choosers or clicks.
LEMMA AdapterStaysUploads ==
  ASSUME Inv, Inv', UploadInv, UNCHANGED <<inbox, clicks, records, call, uploads, Issued>>,
         EvaluationsStay,
         \A t \in Issued :
           requests'[t].kind = requests[t].kind /\ requests'[t].cause = requests[t].cause
           /\ requests'[t].answers = requests[t].answers
  PROVE  UploadInv'
<1>1. NoClickSent /\ NoSelectSent /\ ChoosersStay
  BY InboxStays, RecordsSame
<1>2. ClickInv'
  BY <1>1, ClicksStay DEF UploadInv
<1>3. SelectInv'
  BY <1>1, SelectsStay DEF UploadInv, Searching
<1> QED BY <1>2, <1>3 DEF UploadInv

\* The click leaves the inbox for the page.
LEMMA OpPageEvaluateKeepsUploads ==
  ASSUME Inv, Inv', UploadInv, OpPageEvaluate, UNCHANGED <<records, call, uploads>>
  PROVE  UploadInv'
<1> PICK r : r = Head(inbox)
  OBVIOUS
<1> PICK e : e = [request |-> r, ran |-> FALSE]
  OBVIOUS
<1> PICK k : k = Len(evaluations) + 1
  OBVIOUS
<1>1. /\ inbox # <<>> /\ inbox' = Tail(inbox) /\ evaluations' = Append(evaluations, e)
      /\ UNCHANGED <<requests, clicks>>
  BY DEF OpPageEvaluate, Handles
<1>2. /\ 1 \in DOMAIN inbox /\ r = inbox[1] /\ r \in RequestType
      /\ \A i \in DOMAIN inbox' :
           i \in Nat /\ i + 1 \in DOMAIN inbox /\ i + 1 # 1 /\ inbox'[i] = inbox[i + 1]
  BY <1>1, InboxTaken DEF Inv, TypeInv, AdapterTypes
<1>3. /\ e \in EvaluationType /\ e.request = r /\ ~e.ran
  BY <1>2 DEF EvaluationType
<1>4. /\ k \notin DOMAIN evaluations /\ DOMAIN evaluations' = DOMAIN evaluations \union {k}
      /\ (\A i \in DOMAIN evaluations : evaluations'[i] = evaluations[i])
      /\ evaluations'[k] = e
  BY <1>1, <1>3, Appended DEF Inv, TypeInv, AdapterTypes
<1>5. UNCHANGED Issued
  BY <1>1 DEF Issued
<1>6. ASSUME NEW m \in 1..MaxUploads
      PROVE  /\ \A i \in ClicksIn(m)' : i \in Nat /\ i + 1 # 1 /\ i + 1 \in ClicksIn(m)
             /\ ClicksRun(m)' = IF Clicks(r, m) THEN ClicksRun(m) \union {k} ELSE ClicksRun(m)
             /\ OpenedBy(m)' = OpenedBy(m)
             /\ Clicks(r, m) => 1 \in ClicksIn(m)
  <2>1. \A i \in ClicksIn(m)' : i \in Nat /\ i + 1 # 1 /\ i + 1 \in ClicksIn(m)
    BY <1>2 DEF ClicksIn
  <2>2. ClicksRun(m)' = IF Clicks(r, m) THEN ClicksRun(m) \union {k} ELSE ClicksRun(m)
    BY <1>3, <1>4 DEF ClicksRun, Clicks
  <2>3. OpenedBy(m)' = OpenedBy(m) /\ (Clicks(r, m) => 1 \in ClicksIn(m))
    BY <1>1, <1>2, <1>5 DEF OpenedBy, ClicksIn
  <2> QED BY <2>1, <2>2, <2>3
<1>7. ASSUME NEW m \in 1..MaxUploads
      PROVE  /\ \A i, j \in ClicksIn(m)' : i = j
             /\ \A i, j \in ClicksRun(m)' : i = j
             /\ \A t, u \in OpenedBy(m)' : t = u
             /\ ClicksIn(m)' # {} => ClicksRun(m)' = {} /\ m \notin clicks /\ OpenedBy(m)' = {}
             /\ ClicksRun(m)' # {} => m \notin clicks /\ OpenedBy(m)' = {}
             /\ m \in clicks => OpenedBy(m)' = {}
             /\ m > uploads =>
                  ClicksIn(m)' = {} /\ ClicksRun(m)' = {} /\ m \notin clicks /\ OpenedBy(m)' = {}
  <2>1. /\ \A i, j \in ClicksIn(m) : i = j
        /\ \A i, j \in ClicksRun(m) : i = j
        /\ \A t, u \in OpenedBy(m) : t = u
        /\ ClicksIn(m) # {} => ClicksRun(m) = {} /\ m \notin clicks /\ OpenedBy(m) = {}
        /\ ClicksRun(m) # {} => m \notin clicks /\ OpenedBy(m) = {}
        /\ m \in clicks => OpenedBy(m) = {}
        /\ m > uploads =>
             ClicksIn(m) = {} /\ ClicksRun(m) = {} /\ m \notin clicks /\ OpenedBy(m) = {}
    BY DEF UploadInv, ClickInv
  <2>2. /\ \A i, j \in ClicksIn(m)' : i = j
        /\ ClicksIn(m)' # {} => ClicksIn(m) # {}
    <3>1. ASSUME NEW i \in ClicksIn(m)', NEW j \in ClicksIn(m)' PROVE i = j
      <4>1. i + 1 = j + 1 /\ i \in Nat /\ j \in Nat
        BY <1>6, <2>1
      <4> QED BY <4>1
    <3>2. ClicksIn(m)' # {} => ClicksIn(m) # {}
      BY <1>6
    <3> QED BY <3>1, <3>2
  <2>3. CASE Clicks(r, m)
    <3>1. 1 \in ClicksIn(m) /\ ClicksRun(m) = {}
      BY <1>6, <2>1, <2>3
    <3>2. ClicksIn(m)' = {}
      BY <1>6, <2>1, <3>1
    <3>3. ClicksRun(m)' = {k}
      BY <1>6, <2>3, <3>1
    <3>4. m \notin clicks /\ OpenedBy(m)' = {} /\ ~(m > uploads)
      BY <1>6, <2>1, <3>1
    <3> QED BY <3>2, <3>3, <3>4
  <2>4. CASE ~Clicks(r, m)
    <3>1. ClicksRun(m)' = ClicksRun(m) /\ OpenedBy(m)' = OpenedBy(m)
      BY <1>6, <2>4
    <3>2. m > uploads => ClicksIn(m)' = {}
      BY <2>1, <2>2
    <3> QED BY <2>1, <2>2, <3>1, <3>2
  <2> QED BY <2>3, <2>4
<1>8. ClickInv'
  <2>1. \A t \in Issued :
          /\ requests[t].kind # "chooser" => requests[t].cause = 0
          /\ records[t] # Unknown => requests[t].cause <= records[t].since
    BY DEF UploadInv, ClickInv
  <2> QED BY <1>1, <1>5, <1>7, <2>1 DEF ClickInv
<1>9. SelectInv'
  BY <1>1, <1>5, InboxShrinks, RecordsSame, SelectsStay DEF UploadInv, Searching
<1> QED BY <1>8, <1>9 DEF UploadInv

\* The click is in the page: it may open a chooser.
LEMMA ScriptRunsKeepsUploads ==
  ASSUME Inv, Inv', UploadInv, ScriptRuns, UNCHANGED <<records, call, uploads>>
  PROVE  UploadInv'
<1>1. PICK k \in DOMAIN evaluations :
        /\ ~evaluations[k].ran /\ evaluations' = [evaluations EXCEPT ![k].ran = TRUE]
        /\ clicks' = IF evaluations[k].request.op = "click"
                     THEN clicks \union {evaluations[k].request.decision.upload} ELSE clicks
        /\ UNCHANGED <<inbox, requests>>
  BY DEF ScriptRuns
<1> PICK r : r = evaluations[k].request
  OBVIOUS
<1>2. /\ evaluations \in Seq(EvaluationType) /\ evaluations[k] \in EvaluationType
      /\ DOMAIN evaluations \subseteq Nat
  BY ElementOfSeq, LenProperties DEF Inv, TypeInv, AdapterTypes
<1>3. /\ DOMAIN evaluations' = DOMAIN evaluations
      /\ evaluations'[k].ran = TRUE /\ evaluations'[k].request = r
      /\ \A i \in DOMAIN evaluations \ {k} : evaluations'[i] = evaluations[i]
  BY <1>1, <1>2 DEF EvaluationType
<1>4. UNCHANGED Issued
  BY <1>1 DEF Issued
<1>5. SelectInv'
  BY <1>1, <1>4, InboxStays, RecordsSame, SelectsStay DEF UploadInv, Searching
<1>6. ASSUME NEW m \in 1..MaxUploads
      PROVE  /\ ClicksIn(m)' = ClicksIn(m) /\ OpenedBy(m)' = OpenedBy(m)
             /\ ClicksRun(m)' = ClicksRun(m) \ {k}
             /\ m \in clicks' <=> m \in clicks \/ Clicks(r, m)
             /\ Clicks(r, m) => k \in ClicksRun(m)
  <2>1. ClicksIn(m)' = ClicksIn(m) /\ OpenedBy(m)' = OpenedBy(m)
    BY <1>1, <1>4 DEF ClicksIn, OpenedBy
  <2>2. ClicksRun(m)' = ClicksRun(m) \ {k}
    BY <1>1, <1>3 DEF ClicksRun
  <2>3. /\ m \in clicks' <=> m \in clicks \/ Clicks(r, m)
        /\ Clicks(r, m) => k \in ClicksRun(m)
    BY <1>1 DEF ClicksRun, Clicks
  <2> QED BY <2>1, <2>2, <2>3
<1>7. ASSUME NEW m \in 1..MaxUploads
      PROVE  /\ \A i, j \in ClicksIn(m)' : i = j
             /\ \A i, j \in ClicksRun(m)' : i = j
             /\ \A t, u \in OpenedBy(m)' : t = u
             /\ ClicksIn(m)' # {} => ClicksRun(m)' = {} /\ m \notin clicks' /\ OpenedBy(m)' = {}
             /\ ClicksRun(m)' # {} => m \notin clicks' /\ OpenedBy(m)' = {}
             /\ m \in clicks' => OpenedBy(m)' = {}
             /\ m > uploads =>
                  ClicksIn(m)' = {} /\ ClicksRun(m)' = {} /\ m \notin clicks' /\ OpenedBy(m)' = {}
  <2>1. /\ \A i, j \in ClicksIn(m) : i = j
        /\ \A i, j \in ClicksRun(m) : i = j
        /\ \A t, u \in OpenedBy(m) : t = u
        /\ ClicksIn(m) # {} => ClicksRun(m) = {} /\ m \notin clicks /\ OpenedBy(m) = {}
        /\ ClicksRun(m) # {} => m \notin clicks /\ OpenedBy(m) = {}
        /\ m \in clicks => OpenedBy(m) = {}
        /\ m > uploads =>
             ClicksIn(m) = {} /\ ClicksRun(m) = {} /\ m \notin clicks /\ OpenedBy(m) = {}
    BY DEF UploadInv, ClickInv
  <2>2. CASE Clicks(r, m)
    <3>1. k \in ClicksRun(m)
      BY <1>6, <2>2
    <3>2. ClicksRun(m)' = {}
      BY <1>6, <2>1, <3>1
    <3>3. ClicksIn(m)' = {} /\ OpenedBy(m)' = {} /\ ~(m > uploads)
      BY <1>6, <2>1, <3>1
    <3> QED BY <3>2, <3>3
  <2>3. CASE ~Clicks(r, m)
    <3>1. ClicksIn(m)' = ClicksIn(m) /\ OpenedBy(m)' = OpenedBy(m)
          /\ ClicksRun(m)' \subseteq ClicksRun(m) /\ (m \in clicks' <=> m \in clicks)
      BY <1>6, <2>3
    <3> QED BY <2>1, <3>1
  <2> QED BY <2>2, <2>3
<1>8. ClickInv'
  <2>1. \A t \in Issued :
          /\ requests[t].kind # "chooser" => requests[t].cause = 0
          /\ records[t] # Unknown => requests[t].cause <= records[t].since
    BY DEF UploadInv, ClickInv
  <2> QED BY <1>1, <1>4, <1>7, <2>1 DEF ClickInv
<1> QED BY <1>5, <1>8 DEF UploadInv

\* A request is raised; a chooser may be what a click has opened.
LEMMA RaisesKeepsUploads ==
  ASSUME Inv, Inv', UploadInv, NEW kind, NEW c \in 0..MaxUploads, Raises(kind, c),
         c = 0 \/ c \in clicks, kind # "chooser" => c = 0, clicks' = clicks \ {c},
         UNCHANGED <<inbox, evaluations, records, call, uploads>>
  PROVE  UploadInv'
<1> PICK t, q : t = Len(requests) + 1 /\ q = Raised(kind, c)
  OBVIOUS
<1>1. kind \in Kinds /\ Len(requests) < MaxRequests /\ requests' = Append(requests, q)
  BY DEF Raises
<1>2. q \in RaisedType /\ q.answers = <<>> /\ q.kind = kind /\ q.cause = c
  BY <1>1, RaisedTypes DEF Raised
<1>3. /\ t \notin Issued /\ Issued' = Issued \union {t} /\ t \in Nat
      /\ (\A u \in Issued : requests'[u] = requests[u]) /\ requests'[t] = q
  BY <1>1, <1>2, Appended DEF Inv, TypeInv, AdapterTypes, Issued
<1>4. t \in Tokens
  BY <1>1, <1>3, RequestsAssumption, LenProperties DEF Tokens, Inv, TypeInv, AdapterTypes
<1>5. records[t] = Unknown
  BY <1>3, <1>4 DEF Inv, RecordsInv
<1>6. ASSUME NEW m \in 1..MaxUploads
      PROVE  /\ ClicksIn(m)' = ClicksIn(m) /\ ClicksRun(m)' = ClicksRun(m)
             /\ OpenedBy(m)' = IF m = c THEN OpenedBy(m) \union {t} ELSE OpenedBy(m)
             /\ m \in clicks' <=> m \in clicks /\ m # c
             /\ m = c => m \in clicks
  <2>1. ClicksIn(m)' = ClicksIn(m) /\ ClicksRun(m)' = ClicksRun(m)
    BY DEF ClicksIn, ClicksRun
  <2>2. OpenedBy(m)' = IF m = c THEN OpenedBy(m) \union {t} ELSE OpenedBy(m)
    BY <1>2, <1>3 DEF OpenedBy
  <2> QED BY <2>1, <2>2
<1>7. ASSUME NEW m \in 1..MaxUploads
      PROVE  /\ \A i, j \in ClicksIn(m)' : i = j
             /\ \A i, j \in ClicksRun(m)' : i = j
             /\ \A u, v \in OpenedBy(m)' : u = v
             /\ ClicksIn(m)' # {} => ClicksRun(m)' = {} /\ m \notin clicks' /\ OpenedBy(m)' = {}
             /\ ClicksRun(m)' # {} => m \notin clicks' /\ OpenedBy(m)' = {}
             /\ m \in clicks' => OpenedBy(m)' = {}
             /\ m > uploads =>
                  ClicksIn(m)' = {} /\ ClicksRun(m)' = {} /\ m \notin clicks' /\ OpenedBy(m)' = {}
  <2>1. /\ \A i, j \in ClicksIn(m) : i = j
        /\ \A i, j \in ClicksRun(m) : i = j
        /\ \A u, v \in OpenedBy(m) : u = v
        /\ ClicksIn(m) # {} => ClicksRun(m) = {} /\ m \notin clicks /\ OpenedBy(m) = {}
        /\ ClicksRun(m) # {} => m \notin clicks /\ OpenedBy(m) = {}
        /\ m \in clicks => OpenedBy(m) = {}
        /\ m > uploads =>
             ClicksIn(m) = {} /\ ClicksRun(m) = {} /\ m \notin clicks /\ OpenedBy(m) = {}
    BY DEF UploadInv, ClickInv
  <2>2. CASE m = c
    <3>1. m \in clicks /\ m \notin clicks' /\ OpenedBy(m)' = {t}
      BY <1>6, <2>1, <2>2
    <3>2. ClicksIn(m)' = {} /\ ClicksRun(m)' = {} /\ ~(m > uploads)
      BY <1>6, <2>1, <3>1
    <3> QED BY <3>1, <3>2
  <2>3. CASE m # c
    BY <1>6, <2>1, <2>3
  <2> QED BY <2>2, <2>3
<1>8. ClickInv'
  <2>1. \A u \in Issued :
          /\ requests[u].kind # "chooser" => requests[u].cause = 0
          /\ records[u] # Unknown => requests[u].cause <= records[u].since
    BY DEF UploadInv, ClickInv
  <2>2. \A u \in Issued' :
          /\ requests'[u].kind # "chooser" => requests'[u].cause = 0
          /\ records[u] # Unknown => requests'[u].cause <= records[u].since
    BY <1>2, <1>3, <1>5, <2>1
  <2> QED BY <1>7, <2>2 DEF ClickInv
<1>9. SelectInv'
  <2>1. ASSUME NEW m \in 1..MaxUploads
        PROVE  /\ SelectsIn(m)' = SelectsIn(m) /\ Chosen(m)' = Chosen(m)
               /\ \A i \in SelectsIn(m) : inbox[i].token \in Issued
    <3>1. SelectsIn(m)' = SelectsIn(m)
      BY DEF SelectsIn
    <3>2. Given(t)' = {}
      BY <1>2, <1>3 DEF Given
    <3>3. \A u \in Issued : Given(u)' = Given(u)
      BY <1>3 DEF Given
    <3>4. Chosen(m)' = Chosen(m)
      BY <1>3, <3>2, <3>3 DEF Chosen
    <3>5. \A i \in SelectsIn(m) : inbox[i].token \in Issued
      BY DEF SelectsIn, Inv, RequestsInv, WellFormed
    <3> QED BY <3>1, <3>4, <3>5
  <2>2. \A u \in Issued : \A m : Chooses(u, m)' <=> Chooses(u, m)
    BY <1>3 DEF Chooses
  <2>3. Fresh' = Fresh /\ Fresh \subseteq Issued /\ (Searching' <=> Searching)
    BY <1>3, <1>5 DEF Fresh, Registered, Searching
  <2>4. ASSUME NEW m \in 1..MaxUploads
        PROVE  /\ \A i, j \in SelectsIn(m)' : i = j
               /\ \A u, v \in Chosen(m)' : u = v
               /\ SelectsIn(m)' = {} \/ Chosen(m)' = {}
               /\ m > uploads' \/ (Searching' /\ m = uploads')
                    => SelectsIn(m)' = {} /\ Chosen(m)' = {}
               /\ \A i \in SelectsIn(m)' : Chooses(inbox[i].token, m)'
               /\ \A u \in Chosen(m)' : Chooses(u, m)'
    <3>1. /\ \A i, j \in SelectsIn(m) : i = j
          /\ \A u, v \in Chosen(m) : u = v
          /\ SelectsIn(m) = {} \/ Chosen(m) = {}
          /\ m > uploads \/ (Searching /\ m = uploads) => SelectsIn(m) = {} /\ Chosen(m) = {}
          /\ \A i \in SelectsIn(m) : Chooses(inbox[i].token, m)
          /\ \A u \in Chosen(m) : Chooses(u, m)
      BY DEF UploadInv, SelectInv
    <3>2. \A i \in SelectsIn(m)' : Chooses(inbox[i].token, m)'
      <4> SUFFICES ASSUME NEW i \in SelectsIn(m) PROVE Chooses(inbox[i].token, m)'
        BY <2>1
      <4>1. Chooses(inbox[i].token, m) /\ inbox[i].token \in Issued
        BY <2>1, <3>1
      <4>2. requests'[inbox[i].token] = requests[inbox[i].token]
        BY <1>3, <4>1
      <4> QED BY <4>1, <4>2 DEF Chooses
    <3>3. \A u \in Chosen(m)' : Chooses(u, m)'
      <4>1. Chosen(m) \subseteq Issued
        BY DEF Chosen
      <4> QED BY <2>1, <2>2, <3>1, <4>1
    <3> QED BY <2>1, <2>3, <3>1, <3>2, <3>3
  <2>5. Searching' =>
          /\ uploads' \in 1..MaxUploads /\ call'.decision = Select(uploads)'
          /\ \A u \in Fresh' : records'[u].since = uploads'
    <3>1. Searching =>
            /\ uploads \in 1..MaxUploads /\ call.decision = Select(uploads)
            /\ \A u \in Fresh : records[u].since = uploads
      BY DEF UploadInv, SelectInv
    <3> QED BY <2>3, <3>1 DEF Select
  <2> QED BY <2>4, <2>5 DEF SelectInv
<1> QED BY <1>8, <1>9 DEF UploadInv

\* The decision of an upload reaches the engine at one chooser.
LEMMA OpPageDecideKeepsUploads ==
  ASSUME Inv, Inv', UploadInv, OpPageDecide, UNCHANGED <<records, call, uploads>>
  PROVE  UploadInv'
<1> PICK r : r = Head(inbox)
  OBVIOUS
<1> PICK t, d : t = r.token /\ d = r.decision
  OBVIOUS
<1> PICK held : held = requests[t].held
  OBVIOUS
<1>1. /\ inbox # <<>> /\ inbox' = Tail(inbox) /\ r.op = "decide"
      /\ requests' = IF held
                     THEN [requests EXCEPT ![t].held = FALSE, ![t].answers = Append(@, d)]
                     ELSE requests
      /\ UNCHANGED <<evaluations, clicks>>
  BY DEF OpPageDecide, Handles
<1>2. /\ 1 \in DOMAIN inbox /\ r = inbox[1]
      /\ \A i \in DOMAIN inbox' :
           i \in Nat /\ i + 1 \in DOMAIN inbox /\ i + 1 # 1 /\ inbox'[i] = inbox[i + 1]
  BY <1>1, InboxTaken DEF Inv, TypeInv, AdapterTypes
<1>3. t \in Issued /\ d \in Decision
  BY <1>1, Handled DEF WellFormed
<1>4. requests \in Seq(RaisedType) /\ requests[t] \in RaisedType
  BY <1>3, ElementOfSeq, LenProperties DEF Inv, TypeInv, AdapterTypes, Issued
<1>5. NoClickSent /\ NoSelectSent /\ EvaluationsStay /\ ChoosersStay
  BY <1>1, InboxShrinks, EvaluationsSame, RecordsSame
<1>6. CASE ~held
  <2>1. UNCHANGED requests
    BY <1>1, <1>6
  <2> QED BY <1>1, <1>5, <2>1, UploadsStay DEF Searching
<1>7. CASE held
  <2>1. requests[t].answers = <<>>
    BY <1>3, <1>7 DEF Inv, Settled
  <2>2. Append(requests[t].answers, d) = <<d>>
    BY <2>1, <1>3
  <2>3. /\ UNCHANGED Issued /\ requests'[t].answers = Append(requests[t].answers, d)
        /\ requests'[t].kind = requests[t].kind /\ requests'[t].cause = requests[t].cause
        /\ \A u \in Issued \ {t} : requests'[u] = requests[u]
    BY <1>1, <1>3, <1>4, <1>7 DEF RaisedType, Issued
  <2>4. \A u \in Issued :
          requests'[u].kind = requests[u].kind /\ requests'[u].cause = requests[u].cause
    BY <2>3
  <2>5. ClickInv'
    BY <1>1, <1>5, <2>3, <2>4, ClicksStay DEF UploadInv
  <2>6. Given(t) = {} /\ Given(t)' = {d} /\ \A u \in Issued \ {t} : Given(u)' = Given(u)
    <3>1. Given(t) = {}
      BY <2>1 DEF Given
    <3>2. Given(t)' = {d}
      BY <2>2, <2>3 DEF Given
    <3>3. \A u \in Issued \ {t} : Given(u)' = Given(u)
      BY <2>3 DEF Given
    <3> QED BY <3>1, <3>2, <3>3
  <2>7. ASSUME NEW m \in 1..MaxUploads
        PROVE  /\ \A i \in SelectsIn(m)' : /\ i \in Nat /\ i + 1 # 1 /\ i + 1 \in SelectsIn(m)
                                           /\ inbox'[i] = inbox[i + 1]
               /\ Chosen(m)' = IF d = Select(m) THEN Chosen(m) \union {t} ELSE Chosen(m)
               /\ d = Select(m) => 1 \in SelectsIn(m)
    <3>1. \A i \in SelectsIn(m)' : /\ i \in Nat /\ i + 1 # 1 /\ i + 1 \in SelectsIn(m)
                                   /\ inbox'[i] = inbox[i + 1]
      BY <1>2 DEF SelectsIn
    <3>2. Chosen(m)' = IF d = Select(m) THEN Chosen(m) \union {t} ELSE Chosen(m)
      BY <1>3, <2>3, <2>6 DEF Chosen
    <3>3. d = Select(m) => 1 \in SelectsIn(m)
      BY <1>1, <1>2 DEF SelectsIn
    <3> QED BY <3>1, <3>2, <3>3
  <2>8. \A u \in Issued : \A m : Chooses(u, m)' <=> Chooses(u, m)
    BY <2>4 DEF Chooses
  <2>9. ASSUME NEW m \in 1..MaxUploads
        PROVE  /\ \A i, j \in SelectsIn(m)' : i = j
               /\ \A u, v \in Chosen(m)' : u = v
               /\ SelectsIn(m)' = {} \/ Chosen(m)' = {}
               /\ m > uploads \/ (Searching /\ m = uploads)
                    => SelectsIn(m)' = {} /\ Chosen(m)' = {}
               /\ \A i \in SelectsIn(m)' : Chooses(inbox[i].token, m)'
               /\ \A u \in Chosen(m)' : Chooses(u, m)'
    <3>1. /\ \A i, j \in SelectsIn(m) : i = j
          /\ \A u, v \in Chosen(m) : u = v
          /\ SelectsIn(m) = {} \/ Chosen(m) = {}
          /\ m > uploads \/ (Searching /\ m = uploads) => SelectsIn(m) = {} /\ Chosen(m) = {}
          /\ \A i \in SelectsIn(m) : Chooses(inbox[i].token, m)
          /\ \A u \in Chosen(m) : Chooses(u, m)
      BY DEF UploadInv, SelectInv
    <3>2. CASE d = Select(m)
      <4>1. 1 \in SelectsIn(m) /\ Chosen(m) = {} /\ Chooses(t, m)
        BY <1>2, <2>7, <3>1, <3>2
      <4>2. SelectsIn(m)' = {}
        BY <2>7, <3>1, <4>1
      <4>3. Chosen(m)' = {t} /\ Chooses(t, m)'
        BY <1>3, <2>7, <2>8, <3>2, <4>1
      <4> QED BY <3>1, <4>1, <4>2, <4>3
    <3>3. CASE d # Select(m)
      <4>1. Chosen(m)' = Chosen(m) /\ Chosen(m) \subseteq Issued
        BY <2>7, <3>3 DEF Chosen
      <4>2. ASSUME NEW i \in SelectsIn(m)', NEW j \in SelectsIn(m)' PROVE i = j
        <5>1. i + 1 = j + 1 /\ i \in Nat /\ j \in Nat
          BY <2>7, <3>1
        <5> QED BY <5>1
      <4>3. SelectsIn(m)' # {} => SelectsIn(m) # {}
        BY <2>7
      <4>4. ASSUME NEW i \in SelectsIn(m)' PROVE Chooses(inbox[i].token, m)'
        <5>1. i + 1 \in SelectsIn(m) /\ inbox'[i] = inbox[i + 1]
          BY <2>7
        <5>2. Chooses(inbox[i + 1].token, m) /\ inbox[i + 1].token \in Issued
          BY <3>1, <5>1 DEF SelectsIn, Inv, RequestsInv, WellFormed
        <5>3. requests'[inbox[i + 1].token].kind = requests[inbox[i + 1].token].kind
          BY <2>4, <5>2
        <5> QED BY <5>1, <5>2, <5>3 DEF Chooses
      <4> QED BY <2>8, <3>1, <4>1, <4>2, <4>3, <4>4
    <3> QED BY <3>2, <3>3
  <2>10. Searching =>
           /\ uploads \in 1..MaxUploads /\ call.decision = Select(uploads)
           /\ \A u \in Fresh' : records[u].since = uploads
    <3>1. Fresh' = Fresh
      BY <2>3, <2>4 DEF Fresh, Registered
    <3> QED BY <3>1 DEF UploadInv, SelectInv
  <2>11. SelectInv'
    BY <2>9, <2>10 DEF SelectInv, Searching, Select
  <2> QED BY <2>5, <2>11 DEF UploadInv
<1> QED BY <1>6, <1>7

LEMMA AdapterKeepsUploads ==
  ASSUME Inv, Inv', UploadInv, AdapterStep
  PROVE  UploadInv'
<1>1. UNCHANGED <<records, call, uploads>>
  BY DEF AdapterStep
<1>2. CASE OpPageEvaluate
  BY <1>1, <1>2, OpPageEvaluateKeepsUploads
<1>3. CASE OpPageDecide
  BY <1>1, <1>3, OpPageDecideKeepsUploads
<1>4. CASE PermissionRequest \/ DownloadStarted
  <2>1. PICK kind \in {"permission", "download"} : Raises(kind, 0)
    BY <1>4 DEF PermissionRequest, DownloadStarted
  <2>2. UNCHANGED <<inbox, evaluations, clicks>>
    BY <1>4 DEF PermissionRequest, DownloadStarted
  <2>3. clicks' = clicks \ {0} /\ 0 \in 0..MaxUploads
    BY <2>2, RequestsAssumption DEF Inv, TypeInv, AdapterTypes
  <2> QED BY <1>1, <2>1, <2>2, <2>3, RaisesKeepsUploads
<1>5. CASE RunFileChooser
  <2>1. clicks \union {0} \subseteq 0..MaxUploads
    BY RequestsAssumption DEF Inv, TypeInv, AdapterTypes
  <2>2. PICK c \in clicks \union {0} :
          /\ Raises("chooser", c) /\ clicks' = clicks \ {c} /\ UNCHANGED <<inbox, evaluations>>
    BY <1>5 DEF RunFileChooser
  <2> QED BY <1>1, <2>1, <2>2, RaisesKeepsUploads
<1>6. CASE \E t \in Issued :
             DecideDestination(t) \/ DownloadFinishes(t) \/ DownloadFails(t)
  <2>1. PICK t \in Issued : DecideDestination(t) \/ DownloadFinishes(t) \/ DownloadFails(t)
    BY <1>6
  <2>2. requests \in Seq(RaisedType) /\ requests[t] \in RaisedType
    BY ElementOfSeq, LenProperties DEF Inv, TypeInv, AdapterTypes, Issued
  <2>3. \E stage, name :
          \/ requests' = [requests EXCEPT ![t].stage = stage]
          \/ requests' = [requests EXCEPT ![t].stage = stage, ![t].name = name]
    BY <2>1 DEF DecideDestination, DownloadFinishes, DownloadFails
  <2>4. /\ UNCHANGED Issued
        /\ requests'[t].answers = requests[t].answers /\ requests'[t].kind = requests[t].kind
        /\ requests'[t].cause = requests[t].cause
        /\ \A u \in Issued \ {t} : requests'[u] = requests[u]
    BY <2>2, <2>3 DEF RaisedType, Issued
  <2>5. \A u \in Issued :
          /\ requests'[u].kind = requests[u].kind /\ requests'[u].cause = requests[u].cause
          /\ requests'[u].answers = requests[u].answers
    BY <2>4
  <2>6. UNCHANGED <<inbox, evaluations, clicks>>
    BY <2>1 DEF DecideDestination, DownloadFinishes, DownloadFails, Transfer
  <2> QED BY <1>1, <2>4, <2>5, <2>6, EvaluationsSame, AdapterStaysUploads
<1>7. CASE ScriptRuns
  BY <1>1, <1>7, ScriptRunsKeepsUploads
<1>8. CASE EvaluationReplies
  <2>1. /\ evaluations # <<>> /\ evaluations' = Tail(evaluations)
        /\ UNCHANGED <<inbox, requests, clicks>>
    BY <1>8 DEF EvaluationReplies
  <2>2. \A i \in DOMAIN Tail(evaluations) :
          i + 1 \in DOMAIN evaluations /\ Tail(evaluations)[i] = evaluations[i + 1]
    BY <2>1, Taken DEF Inv, TypeInv, AdapterTypes
  <2>3. DOMAIN Tail(evaluations) \subseteq Nat
    <3>1. Tail(evaluations) \in Seq(EvaluationType)
      BY <2>1, Taken DEF Inv, TypeInv, AdapterTypes
    <3> QED BY <3>1, LenProperties
  <2>4. EvaluationsStay
    <3>1. \A i \in DOMAIN evaluations' :
            /\ i \in Nat /\ i + 1 \in DOMAIN evaluations
            /\ evaluations'[i].request.op = evaluations[i + 1].request.op
            /\ evaluations'[i].request.decision = evaluations[i + 1].request.decision
            /\ evaluations[i + 1].ran => evaluations'[i].ran
      BY <2>1, <2>2, <2>3
    <3> QED BY <3>1 DEF EvaluationsStay
  <2> QED BY <1>1, <2>1, <2>4, AdapterStaysUploads DEF Issued
<1> QED BY <1>2, <1>3, <1>4, <1>5, <1>6, <1>7, <1>8 DEF AdapterStep, Adapter

LEMMA UploadsInvariant ==
  Spec => [](Inv /\ UploadInv)
<1>1. Init => UploadInv
  <2> SUFFICES ASSUME Init PROVE UploadInv
    OBVIOUS
  <2>1. /\ DOMAIN inbox = {} /\ DOMAIN evaluations = {} /\ Issued = {} /\ clicks = {}
        /\ call.stage = "none"
    BY NoCallTypes DEF Init, Issued
  <2>2. \A n \in 1..MaxUploads :
          /\ ClicksIn(n) = {} /\ ClicksRun(n) = {} /\ OpenedBy(n) = {}
          /\ SelectsIn(n) = {} /\ Chosen(n) = {}
    BY <2>1 DEF ClicksIn, ClicksRun, OpenedBy, SelectsIn, Chosen
  <2> QED BY <2>1, <2>2 DEF UploadInv, ClickInv, SelectInv, Searching
<1>2. Inv /\ UploadInv /\ [Next]_vars /\ Inv' => UploadInv'
  <2> SUFFICES ASSUME Inv, UploadInv, [Next]_vars, Inv' PROVE UploadInv'
    OBVIOUS
  <2>1. CASE UNCHANGED vars
    BY <2>1, CallKeepsUploads DEF vars, adapter, Searching
  <2> QED BY <2>1, HostKeepsUploads, AdapterKeepsUploads DEF Next
<1> QED BY <1>1, <1>2, InvInductive, PTL DEF Spec

-----------------------------------------------------------------------------
(* The choosers of a chain of uploads.                                      *)

\* While no page opens a chooser of its own, an upload none before which was
\* given up finds the chooser of its own click: the first one that did not
\* would have taken that of an earlier one, which has its file already.
LEMMA SelectedInTurn ==
  ASSUME Inv, UploadInv, \A u \in Issued : requests[u].kind = "chooser" => requests[u].cause # 0,
         NEW c \in 1..MaxUploads, \A m \in 1..c : Selected(m)
  PROVE  \E u \in Chosen(c) : requests[u].cause = c
<1> DEFINE T == {m \in 1..c : \E u \in Chosen(m) : requests[u].cause # m}
<1>0. c \in Nat /\ MaxUploads \in Nat /\ 1..c \subseteq 1..MaxUploads
  BY RequestsAssumption
<1>1. ASSUME NEW m \in 1..c, NEW u \in Chosen(m)
      PROVE  u \in Issued /\ requests[u].cause \in 1..m
  <2>1. m \in 1..MaxUploads
    BY <1>0
  <2>2. u \in Issued /\ Chooses(u, m)
    BY <2>1 DEF UploadInv, SelectInv, Chosen
  <2>3. requests[u].cause \in 0..MaxUploads
    BY <2>2, CauseIsMade DEF UploadInv
  <2>4. requests[u].cause # 0 /\ requests[u].cause <= m
    BY <2>2 DEF UploadInv, ClickInv, Chooses
  <2>5. m \in Nat
    BY <1>0
  <2> QED BY <1>0, <2>2, <2>3, <2>4, <2>5
<1>2. T = {}
  <2> SUFFICES ASSUME T # {} PROVE FALSE
    OBVIOUS
  <2>1. PICK x \in T : \A y \in T : x <= y
    <3>1. T \in SUBSET Nat
      OBVIOUS
    <3> HIDE DEF T
    <3> QED BY <3>1, Least
  <2>2. x \in 1..c /\ \E u \in Chosen(x) : requests[u].cause # x
    OBVIOUS
  <2> PICK u \in Chosen(x) : requests[u].cause # x
    BY <2>2
  <2>3. PICK y \in 1..c : y = requests[u].cause /\ y < x
    <3>1. requests[u].cause \in 1..x /\ x \in Nat
      BY <1>0, <1>1, <2>2
    <3> QED BY <1>0, <2>2, <3>1
  <2>4. PICK v \in Chosen(y) : TRUE
    BY DEF Selected, Chosen
  <2>5. y \notin T
    <3>1. ~(x <= y)
      BY <1>0, <2>2, <2>3
    <3> HIDE DEF T
    <3> QED BY <2>1, <3>1
  <2>6. requests[v].cause = y /\ v \in Issued /\ u \in Issued
    BY <1>1, <2>2, <2>4, <2>5
  <2>7. u = v
    <3>1. y \in 1..MaxUploads /\ u \in OpenedBy(y) /\ v \in OpenedBy(y)
      BY <1>0, <2>3, <2>6 DEF OpenedBy
    <3> QED BY <3>1 DEF UploadInv, ClickInv
  <2>8. Select(x) \in Given(u) /\ Select(y) \in Given(u)
    BY <2>4, <2>7 DEF Chosen
  <2>9. Select(x) = Select(y)
    BY <2>6, <2>8 DEF Given, Inv, Settled
  <2>10. x \in 1..MaxUploads /\ y \in 1..MaxUploads /\ x # y
    BY <1>0, <2>2, <2>3
  <2> QED BY <2>9, <2>10, SelectIs
<1>3. PICK u \in Chosen(c) : TRUE
  BY DEF Selected, Chosen
<1> QED BY <1>2, <1>3

\* The file of an upload goes to one chooser, which came after it; and unless
\* the page opens choosers of its own, to that of its click or of an earlier
\* upload's, when an upload up to that was given up (_act_upload, _await_token).
THEOREM UploadsAnswered ==
  Spec => []UploadAnswersItsClick
<1>1. Inv /\ UploadInv => UploadAnswersItsClick
  <2> SUFFICES ASSUME Inv, UploadInv, NEW t \in Issued, NEW n \in 1..MaxUploads,
                      Select(n) \in Given(t)
               PROVE  /\ \A u \in Issued \ {t} : Select(n) \notin Given(u)
                      /\ records[t].since = n
                      /\ LET cause == requests[t].cause
                         IN  \/ \E u \in Issued : requests[u].kind = "chooser"
                                                  /\ requests[u].cause = 0
                             \/ cause = n
                             \/ cause \in 1..(n - 1) /\ \E m \in 1..cause : ~Selected(m)
    BY DEF UploadAnswersItsClick
  <2>1. t \in Chosen(n) /\ Chooses(t, n)
    BY DEF UploadInv, SelectInv, Chosen
  <2>2. \A u \in Issued \ {t} : Select(n) \notin Given(u)
    BY <2>1 DEF UploadInv, SelectInv, Chosen
  <2> PICK c : c = requests[t].cause
    OBVIOUS
  <2>3. c \in 0..n
    <3>1. c \in 0..MaxUploads
      BY CauseIsMade DEF UploadInv
    <3> QED BY <2>1, <3>1 DEF UploadInv, ClickInv, Chooses
  <2>4. ASSUME \A u \in Issued : requests[u].kind = "chooser" => requests[u].cause # 0,
               c # n
        PROVE  c \in 1..(n - 1) /\ \E m \in 1..c : ~Selected(m)
    <3>1. c \in 1..(n - 1) /\ c \in 1..MaxUploads
      <4>1. c # 0
        BY <2>1, <2>4 DEF Chooses
      <4> QED BY <2>3, <2>4, <4>1, RequestsAssumption
    <3>2. ASSUME \A m \in 1..c : Selected(m) PROVE FALSE
      <4>1. PICK u \in Chosen(c) : requests[u].cause = c
        BY <2>4, <3>1, <3>2, SelectedInTurn
      <4>2. u = t
        BY <3>1, <4>1 DEF UploadInv, ClickInv, OpenedBy, Chosen
      <4>3. Select(c) \in Given(t)
        BY <4>1, <4>2 DEF Chosen
      <4>4. Select(c) = Select(n)
        BY <4>3 DEF Given, Inv, Settled
      <4> QED BY <3>1, <4>4, SelectIs
    <3> QED BY <3>1, <3>2
  <2> QED BY <2>1, <2>2, <2>4 DEF Chooses
<1> QED BY <1>1, UploadsInvariant, PTL
=============================================================================
