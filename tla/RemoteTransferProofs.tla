------------------------ MODULE RemoteTransferProofs ------------------------
(***************************************************************************)
(* Proofs about RemoteTransfer, for every set of callers, addresses,       *)
(* graphs and limits: an operation is in the machine exactly while its     *)
(* caller waits for it, and what the machine, its callers and the recorded *)
(* publications say of the peer is so, over every loss and delay.          *)
(***************************************************************************)
EXTENDS RemoteTransfer, SequenceTheorems, FiniteSetTheorems, TLAPS

(* What a caller is doing, field by field.  The statuses a peer told and    *)
(* the reply on the wire are told apart by the steps, not by their kind.   *)
Verbing == {"none", "put", "stream", "load", "missing", "push", "publish"}
Stages  == {"idle", "probe", "load", "upload", "negotiate", "entry", "publish", "wire", "admit"}

CallTyped(r) ==
    r \in [verb : Verbing, pc : Stages, key : Ids \cup {NoOp}, closure : SUBSET Ids,
           plan : Seq(Ids), batch : Seq(Ids), said : {r.said}, attempt : 1..MaxAttempts,
           once : BOOLEAN, reply : {r.reply}]

MachineTyped(m) ==
    m \in [inFlight : [Ops -> {NoOp} \cup Operations], cache : SUBSET Ids,
           rejected : SUBSET (Ids \X Ids), present : SUBSET Ids, confirmed : SUBSET Ids,
           published : SUBSET Ids]

(* The node a call uploads next.                                           *)
Subject(r) == IF r.verb = "push" THEN Head(r.batch) ELSE r.key

(* Which verbs reach which stage, and what they still have to do there.    *)
PlacedAt(r, pc) ==
    /\ pc # "idle" => r.key \in Ids /\ r.verb # "none"
    /\ r.verb = "push" => r.closure = Elements(Listing[r.key]) \ {r.key}
    /\ pc = "probe" /\ r.verb \in {"push", "missing"} => r.plan # <<>>
    /\ pc = "load" => r.verb = "load"
    /\ pc = "upload" => r.verb \in {"put", "stream", "push"}
    /\ pc = "negotiate" => r.verb \in {"push", "missing"} /\ r.plan # <<>>
    /\ pc = "entry" => r.verb = "push"
    /\ pc = "publish" => r.verb \in {"push", "publish"}
    /\ pc = "admit" => r.verb \in {"load", "put", "stream", "push"}
    /\ r.verb = "push" /\ pc \in {"entry", "upload", "admit"} => r.batch # <<>>

(* The operation in flight is the one the caller waits for.                *)
Fits(r, q, H) ==
    /\ q.tag = "Load" => r.verb = "load" /\ q.key = r.key
    /\ q.tag = "FindMissing" => r.verb \in {"push", "missing"} /\ q.keys # <<>>
    /\ q.tag = "Upload" => /\ r.verb \in {"put", "stream", "push"}
                           /\ r.verb = "push" => r.batch # <<>>
                           /\ q.key = Subject(r) /\ q.bytes = Subject(r)
    /\ q.tag = "Publish" => /\ r.verb \in {"push", "publish"}
                            /\ q.key = r.key /\ q.closure = r.closure
                            /\ {q.key} \cup q.closure \subseteq H

PairedAt(r, pc, q) ==
    q # NoOp <=> pc = "wire" \/ (pc = "admit" /\ r.verb = "load")

(* What a peer says it has done, it has done: H is what it holds and R the *)
(* publications it recorded.                                               *)
Done(q, reply, H, R) ==
    /\ reply.tag = "Ok" =>
        /\ q.tag = "Load" => q.key \in H
        /\ q.tag = "Upload" => q.bytes \in H
        /\ q.tag = "Publish" => <<q.key, q.closure>> \in R
    /\ q.tag = "FindMissing" /\ reply.tag = "BatchResult" =>
        \A j \in DOMAIN reply.results :
            reply.results[j].status = "present" => reply.results[j].key \in H

Established(r, q, H, R) ==
    /\ r.pc = "wire" /\ r.reply # NoReply => Done(q, r.reply, H, R)
    /\ r.pc = "admit" => Subject(r) \in H

CallSound(r, q, H, R) ==
    /\ CallTyped(r) /\ PlacedAt(r, r.pc) /\ PairedAt(r, r.pc, q)
    /\ q # NoOp => Fits(r, q, H)
    /\ Established(r, q, H, R)

(* What the machine counts on, the peer holds.                             *)
Believed(m, H, R) ==
    /\ m.present \cup m.cache \cup m.confirmed \cup m.published \subseteq H
    /\ \A k \in m.published : \E root \in R : root[1] = k

(* A request left on the wire publishes only over what the peer holds.     *)
StraySound(S, H) ==
    /\ S \subseteq Operations
    /\ \A q \in S : q.tag = "Publish" => {q.key} \cup q.closure \subseteq H

PeerSound(S, H, R) ==
    /\ StraySound(S, H)
    /\ \A root \in R : {root[1]} \cup root[2] \subseteq H

IInv ==
    /\ local \subseteq Ids /\ held \subseteq Ids
    /\ MachineTyped(machine) /\ Believed(machine, held, roots)
    /\ DOMAIN op = Ops
    /\ \A c \in Ops : CallSound(op[c], machine.inFlight[c], held, roots)
    /\ PeerSound(stray, held, roots)
    /\ AnswersTrue

(* What stays in the machine for ever: loads and uploads, of calls whose   *)
(* hash failed while the machine had them.                                 *)
LeftBehind ==
    /\ failures \in Nat /\ IsFiniteSet(left) /\ Cardinality(left) <= failures
    /\ \A q \in left : q.tag \in {"Load", "Upload"}

-----------------------------------------------------------------------------
(* The machine.                                                            *)

(* A machine field by field.                                               *)
Machine(f, ca, re, pr, co, pu) ==
    [inFlight |-> f, cache |-> ca, rejected |-> re, present |-> pr, confirmed |-> co,
     published |-> pu]

LEMMA MachineItself ==
    ASSUME NEW m, MachineTyped(m)
    PROVE  m = Machine(m.inFlight, m.cache, m.rejected, m.present, m.confirmed, m.published)
  BY DEF MachineTyped, Machine

(* One operation leaves or enters; the rest of the machine may grow.       *)
Changed(m, n, c, q) ==
    /\ MachineTyped(n)
    /\ n.inFlight[c] = q
    /\ \A d \in Ops : d # c => n.inFlight[d] = m.inFlight[d]

LEMMA FlightSets ==
    ASSUME NEW m, MachineTyped(m), NEW c \in Ops, NEW q \in {NoOp} \cup Operations,
           NEW n, n = [m EXCEPT !.inFlight[c] = q]
    PROVE  /\ Changed(m, n, c, q)
           /\ n.cache = m.cache /\ n.rejected = m.rejected /\ n.present = m.present
           /\ n.confirmed = m.confirmed /\ n.published = m.published
<1> DEFINE f == [m.inFlight EXCEPT ![c] = q]
<1>1. m.inFlight \in [Ops -> {NoOp} \cup Operations]
  BY DEF MachineTyped
<1>2. /\ f \in [Ops -> {NoOp} \cup Operations] /\ f[c] = q
      /\ \A d \in Ops : d # c => f[d] = m.inFlight[d]
  BY <1>1
<1>3. n = [m EXCEPT !.inFlight = f]
  OBVIOUS
<1> HIDE DEF f
<1>4. n.inFlight = f /\ MachineTyped(n)
  BY <1>2, <1>3 DEF MachineTyped
<1>5. /\ n.cache = m.cache /\ n.rejected = m.rejected /\ n.present = m.present
      /\ n.confirmed = m.confirmed /\ n.published = m.published
  BY <1>3 DEF MachineTyped
<1>6. QED BY <1>2, <1>4, <1>5 DEF Changed

LEMMA StaysSame ==
    ASSUME NEW m, MachineTyped(m), NEW c \in Ops
    PROVE  Changed(m, m, c, m.inFlight[c])
  BY DEF Changed, MachineTyped

(* A machine that remembers a refusal, presence or a publication.          *)
LEMMA RejectedSets ==
    ASSUME NEW m, MachineTyped(m), NEW pair \in Ids \X Ids,
           NEW n, n = [m EXCEPT !.rejected = @ \cup {pair}]
    PROVE  /\ MachineTyped(n) /\ n.inFlight = m.inFlight
           /\ n.cache = m.cache /\ n.present = m.present
           /\ n.confirmed = m.confirmed /\ n.published = m.published
  BY DEF MachineTyped

LEMMA PresentSets ==
    ASSUME NEW m, MachineTyped(m), NEW S, S \subseteq Ids,
           NEW n, n = [m EXCEPT !.present = @ \cup S]
    PROVE  /\ MachineTyped(n) /\ n.inFlight = m.inFlight
           /\ n.cache = m.cache /\ n.present = m.present \cup S
           /\ n.confirmed = m.confirmed /\ n.published = m.published
  BY DEF MachineTyped

LEMMA ConfirmedSets ==
    ASSUME NEW m, MachineTyped(m), NEW k \in Ids,
           NEW n, n = [m EXCEPT !.confirmed = @ \cup {k}]
    PROVE  /\ MachineTyped(n) /\ n.inFlight = m.inFlight
           /\ n.cache = m.cache /\ n.present = m.present
           /\ n.confirmed = m.confirmed \cup {k} /\ n.published = m.published
  BY DEF MachineTyped

LEMMA CacheSets ==
    ASSUME NEW m, MachineTyped(m), NEW k \in Ids,
           NEW n, n = [m EXCEPT !.cache = @ \cup {k}]
    PROVE  /\ MachineTyped(n) /\ n.inFlight = m.inFlight
           /\ n.cache = m.cache \cup {k} /\ n.present = m.present
           /\ n.confirmed = m.confirmed /\ n.published = m.published
  BY DEF MachineTyped

LEMMA PublishedSets ==
    ASSUME NEW m, MachineTyped(m), NEW k \in Ids,
           NEW n, n = [m EXCEPT !.published = @ \cup {k}]
    PROVE  /\ MachineTyped(n) /\ n.inFlight = m.inFlight
           /\ n.cache = m.cache /\ n.present = m.present
           /\ n.confirmed = m.confirmed /\ n.published = m.published \cup {k}
  BY DEF MachineTyped

(* An operation that is over leaves the machine.                           *)
LEMMA Settles ==
    ASSUME NEW m, MachineTyped(m), NEW c \in Ops, NEW result, NEW H, NEW R, Believed(m, H, R),
           NEW n, n = Settle(m, c, result).machine
    PROVE  Changed(m, n, c, NoOp) /\ Believed(n, H, R)
<1>1. n = [m EXCEPT !.inFlight[c] = NoOp]
  BY DEF Settle, Stay
<1>2. /\ Changed(m, n, c, NoOp) /\ n.cache = m.cache /\ n.present = m.present
      /\ n.confirmed = m.confirmed /\ n.published = m.published
  BY <1>1, FlightSets
<1>3. QED BY <1>2 DEF Believed

(* ... the verified answer of a key with it.                               *)
LEMMA SettledTells ==
    ASSUME NEW m, MachineTyped(m), NEW c \in Ops, NEW k \in Ids, NEW result,
           NEW H, NEW R, Believed(m, H, R), k \in H,
           NEW n, n = Settled(m, c, k, result).machine
    PROVE  Changed(m, n, c, NoOp) /\ Believed(n, H, R)
<1> DEFINE out == Settle(m, c, result)
           s == out.machine
           u == [s EXCEPT !.cache = @ \cup {k}]
<1>1. Changed(m, s, c, NoOp) /\ Believed(s, H, R)
  BY Settles
<1>2. MachineTyped(s)
  BY <1>1 DEF Changed
<1>3. n = [[s EXCEPT !.cache = @ \cup {k}] EXCEPT !.confirmed = s.confirmed \cup {k}]
  <2>1. out = [machine |-> s, result |-> result]
    BY DEF Settle, Stay
  <2>2. ASSUME NEW x, NEW y, NEW z, x = [machine |-> y, result |-> z]
        PROVE  [x EXCEPT !.machine.cache = @ \cup {k}, !.machine.confirmed = @ \cup {k}].machine
                 = [[y EXCEPT !.cache = @ \cup {k}] EXCEPT !.confirmed = @ \cup {k}]
    BY <2>2
  <2> HIDE DEF out
  <2>3. n = [[s EXCEPT !.cache = @ \cup {k}] EXCEPT !.confirmed = @ \cup {k}]
    BY <2>1, <2>2 DEF Settled, out
  <2>4. u.confirmed = s.confirmed
    BY <1>2, CacheSets
  <2>5. QED BY <2>3, <2>4
<1> HIDE DEF s
<1>4. /\ MachineTyped(u) /\ u.inFlight = s.inFlight /\ u.cache = s.cache \cup {k}
      /\ u.present = s.present /\ u.confirmed = s.confirmed /\ u.published = s.published
  BY <1>2, CacheSets
<1>5. n = [u EXCEPT !.confirmed = @ \cup {k}]
  BY <1>3, <1>4
<1> HIDE DEF u
<1>6. /\ MachineTyped(n) /\ n.inFlight = u.inFlight /\ n.cache = u.cache /\ n.present = u.present
      /\ n.confirmed = u.confirmed \cup {k} /\ n.published = u.published
  BY <1>4, <1>5, ConfirmedSets
<1>7. Changed(m, n, c, NoOp)
  BY <1>1, <1>4, <1>6 DEF Changed
<1>8. Believed(n, H, R)
  BY <1>1, <1>4, <1>6 DEF Believed
<1>9. QED BY <1>7, <1>8

-----------------------------------------------------------------------------
(* An event of the wire takes the operation out, and what it adds to the   *)
(* machine's beliefs the peer has done.                                    *)
Earned(q, event, verified, H, R) ==
    /\ q.tag = "Load" /\ event.tag = "Ok" /\ verified => q.key \in H
    /\ q.tag = "Upload" /\ event.tag = "Ok" => q.key \in H
    /\ q.tag = "Publish" /\ event.tag = "Ok" => q.key \in H /\ <<q.key, q.closure>> \in R
    /\ q.tag = "FindMissing" /\ event.tag = "BatchResult" =>
        \A j \in DOMAIN event.results :
            event.results[j].status = "present" => event.results[j].key \in H

LEMMA LoadHeard ==
    ASSUME NEW m, MachineTyped(m), NEW c \in Ops, NEW k \in Ids, NEW event, NEW verified,
           NEW H, NEW R, Believed(m, H, R), event.tag = "Ok" /\ verified => k \in H,
           NEW n, n = LoadEvent(m, c, k, event, verified).machine
    PROVE  Changed(m, n, c, NoOp) /\ Believed(n, H, R)
<1>1. \/ \E result : n = Settle(m, c, result).machine
      \/ event.tag = "Ok" /\ verified /\ \E result : n = Settled(m, c, k, result).machine
  BY DEF LoadEvent
<1>2. QED BY <1>1, Settles, SettledTells

LEMMA UploadHeard ==
    ASSUME NEW m, MachineTyped(m), NEW c \in Ops, NEW k \in Ids, NEW b \in Ids, NEW event,
           NEW verified, NEW H, NEW R, Believed(m, H, R), event.tag = "Ok" => k \in H,
           NEW n, n = UploadEvent(m, c, k, b, event, verified).machine
    PROVE  Changed(m, n, c, NoOp) /\ Believed(n, H, R)
<1> DEFINE u == [m EXCEPT !.rejected = @ \cup {<<k, b>>}]
<1>1. \/ \E result : n = Settle(m, c, result).machine
      \/ event.tag = "Ok" /\ \E result : n = Settled(m, c, k, result).machine
      \/ \E result : n = Settle(u, c, result).machine
  BY DEF UploadEvent
<1>2. CASE \E result : n = Settle(m, c, result).machine
  BY <1>2, Settles
<1>3. CASE event.tag = "Ok" /\ \E result : n = Settled(m, c, k, result).machine
  BY <1>3, SettledTells
<1>4. CASE \E result : n = Settle(u, c, result).machine
  <2>1. /\ MachineTyped(u) /\ u.inFlight = m.inFlight /\ u.cache = m.cache
        /\ u.present = m.present /\ u.confirmed = m.confirmed /\ u.published = m.published
    <3>1. <<k, b>> \in Ids \X Ids
      OBVIOUS
    <3>2. QED BY <3>1, RejectedSets
  <2> HIDE DEF u
  <2>2. Believed(u, H, R)
    BY <2>1 DEF Believed
  <2>3. Changed(u, n, c, NoOp) /\ Believed(n, H, R)
    BY <1>4, <2>1, <2>2, Settles
  <2>4. QED BY <2>1, <2>3 DEF Changed
<1>5. QED BY <1>1, <1>2, <1>3, <1>4

LEMMA BatchHeard ==
    ASSUME NEW m, MachineTyped(m), NEW c \in Ops, NEW keys, NEW event,
           NEW H, H \subseteq Ids, NEW R, Believed(m, H, R),
           event.tag = "BatchResult" => \A j \in DOMAIN event.results :
               event.results[j].status = "present" => event.results[j].key \in H,
           NEW n, n = BatchEvent(m, c, keys, event).machine
    PROVE  Changed(m, n, c, NoOp) /\ Believed(n, H, R)
<1> DEFINE S == {event.results[i].key :
                   i \in {j \in DOMAIN event.results : event.results[j].status = "present"}}
           u == [m EXCEPT !.present = @ \cup S]
<1>1. \/ \E result : n = Settle(m, c, result).machine
      \/ event.tag = "BatchResult" /\ \E result : n = Settle(u, c, result).machine
  BY DEF BatchEvent, NotePresence
<1>2. CASE \E result : n = Settle(m, c, result).machine
  BY <1>2, Settles
<1>3. CASE event.tag = "BatchResult" /\ \E result : n = Settle(u, c, result).machine
  <2>1. S \subseteq H
    BY <1>3
  <2>2. S \subseteq Ids
    BY <2>1
  <2> HIDE DEF S
  <2>3. /\ MachineTyped(u) /\ u.inFlight = m.inFlight /\ u.cache = m.cache
        /\ u.present = m.present \cup S /\ u.confirmed = m.confirmed /\ u.published = m.published
    BY <2>2, PresentSets
  <2> HIDE DEF u
  <2>4. Believed(u, H, R)
    BY <2>1, <2>3 DEF Believed
  <2>5. Changed(u, n, c, NoOp) /\ Believed(n, H, R)
    BY <1>3, <2>3, <2>4, Settles
  <2>6. QED BY <2>3, <2>5 DEF Changed
<1>4. QED BY <1>1, <1>2, <1>3

LEMMA PublishHeard ==
    ASSUME NEW m, MachineTyped(m), NEW c \in Ops, NEW k \in Ids, NEW event,
           NEW H, NEW R, Believed(m, H, R),
           event.tag = "Ok" => k \in H /\ \E closure : <<k, closure>> \in R,
           NEW n, n = PublishEvent(m, c, k, event).machine
    PROVE  Changed(m, n, c, NoOp) /\ Believed(n, H, R)
<1> DEFINE u == [m EXCEPT !.published = @ \cup {k}]
<1>1. \/ \E result : n = Settle(m, c, result).machine
      \/ event.tag = "Ok" /\ \E result : n = Settle(u, c, result).machine
  BY DEF PublishEvent
<1>2. CASE \E result : n = Settle(m, c, result).machine
  BY <1>2, Settles
<1>3. CASE event.tag = "Ok" /\ \E result : n = Settle(u, c, result).machine
  <2>1. /\ MachineTyped(u) /\ u.inFlight = m.inFlight /\ u.cache = m.cache
        /\ u.present = m.present /\ u.confirmed = m.confirmed
        /\ u.published = m.published \cup {k}
    BY PublishedSets
  <2> HIDE DEF u
  <2>2. PICK closure : <<k, closure>> \in R
    BY <1>3
  <2>3. <<k, closure>>[1] = k
    OBVIOUS
  <2>4. Believed(u, H, R)
    BY <1>3, <2>1, <2>2, <2>3 DEF Believed
  <2>5. Changed(u, n, c, NoOp) /\ Believed(n, H, R)
    BY <1>3, <2>1, <2>4, Settles
  <2>6. QED BY <2>1, <2>5 DEF Changed
<1>4. QED BY <1>1, <1>2, <1>3

LEMMA OperationKinds ==
    ASSUME NEW q \in Operations
    PROVE  \/ q.tag = "Load" /\ q.key \in Ids
           \/ q.tag = "FindMissing" /\ q.keys \in Seq(Ids)
           \/ q.tag = "Upload" /\ q.key \in Ids /\ q.bytes \in Ids
           \/ q.tag = "Publish" /\ q.key \in Ids /\ q.closure \in SUBSET Ids
  BY DEF Operations

LEMMA Heard ==
    ASSUME NEW m, MachineTyped(m), NEW c \in Ops, NEW event, NEW verified,
           NEW H, H \subseteq Ids, NEW R, Believed(m, H, R),
           m.inFlight[c] # NoOp => Earned(m.inFlight[c], event, verified, H, R),
           NEW n, n = FromWire(m, c, event, verified).machine
    PROVE  Changed(m, n, c, NoOp) /\ Believed(n, H, R)
<1> DEFINE q == m.inFlight[c]
<1>1. CASE q = NoOp
  <2>1. n = m
    BY <1>1 DEF FromWire, Stay
  <2>2. QED BY <1>1, <2>1, StaysSame
<1>2. CASE q # NoOp
  <2>1. q \in Operations
    BY <1>2 DEF MachineTyped
  <2>2. Earned(q, event, verified, H, R)
    BY <1>2
  <2>3. CASE q.tag = "Load"
    <3>1. n = LoadEvent(m, c, q.key, event, verified).machine
      BY <1>2, <2>3 DEF FromWire
    <3>2. q.key \in Ids
      BY <2>1, <2>3, OperationKinds
    <3> HIDE DEF q
    <3>3. event.tag = "Ok" /\ verified => q.key \in H
      BY <2>2, <2>3 DEF Earned
    <3>4. QED BY <3>1, <3>2, <3>3, LoadHeard
  <2>4. CASE q.tag = "FindMissing"
    <3>1. n = BatchEvent(m, c, q.keys, event).machine
      BY <1>2, <2>4 DEF FromWire
    <3> HIDE DEF q
    <3>2. event.tag = "BatchResult" => \A j \in DOMAIN event.results :
               event.results[j].status = "present" => event.results[j].key \in H
      BY <2>2, <2>4 DEF Earned
    <3>3. QED BY <3>1, <3>2, BatchHeard
  <2>5. CASE q.tag = "Upload"
    <3>1. n = UploadEvent(m, c, q.key, q.bytes, event, verified).machine
      BY <1>2, <2>5 DEF FromWire
    <3>2. q.key \in Ids /\ q.bytes \in Ids
      BY <2>1, <2>5, OperationKinds
    <3> HIDE DEF q
    <3>3. event.tag = "Ok" => q.key \in H
      BY <2>2, <2>5 DEF Earned
    <3>4. QED BY <3>1, <3>2, <3>3, UploadHeard
  <2>6. CASE q.tag = "Publish"
    <3>1. n = PublishEvent(m, c, q.key, event).machine
      BY <1>2, <2>6 DEF FromWire
    <3>2. q.key \in Ids
      BY <2>1, <2>6, OperationKinds
    <3> HIDE DEF q
    <3>3. event.tag = "Ok" => q.key \in H /\ \E closure : <<q.key, closure>> \in R
      BY <2>2, <2>6 DEF Earned
    <3>4. QED BY <3>1, <3>2, <3>3, PublishHeard
  <2>7. QED BY <2>1, <2>3, <2>4, <2>5, <2>6, OperationKinds
<1>3. QED BY <1>1, <1>2

(* Silence, interrupts and refusals earn nothing.                          *)
LEMMA Cleared ==
    ASSUME NEW m, MachineTyped(m), NEW c \in Ops, NEW tag, tag \in {"Silence", "Interrupted"},
           NEW H, H \subseteq Ids, NEW R, Believed(m, H, R),
           NEW n, n = FromWire(m, c, [tag |-> tag], FALSE).machine
    PROVE  Changed(m, n, c, NoOp) /\ Believed(n, H, R)
<1> DEFINE event == [tag |-> tag]
<1>1. event.tag \notin {"Ok", "BatchResult"}
  OBVIOUS
<1> HIDE DEF event
<1>2. Earned(m.inFlight[c], event, FALSE, H, R)
  BY <1>1 DEF Earned
<1>3. QED BY <1>2, Heard DEF event

-----------------------------------------------------------------------------
(* Requests of a caller that has nothing in flight.                        *)

LEMMA Issues ==
    ASSUME NEW m, MachineTyped(m), NEW c \in Ops, NEW q \in Operations,
           NEW H, NEW R, Believed(m, H, R), NEW n, n = Issue(m, c, q).machine
    PROVE  Changed(m, n, c, q) /\ Believed(n, H, R)
<1>1. n = [m EXCEPT !.inFlight[c] = q]
  BY DEF Issue, Stay
<1>2. /\ Changed(m, n, c, q) /\ n.cache = m.cache /\ n.present = m.present
      /\ n.confirmed = m.confirmed /\ n.published = m.published
  BY <1>1, FlightSets
<1>3. QED BY <1>2 DEF Believed

LEMMA Loads ==
    ASSUME NEW m, MachineTyped(m), NEW c \in Ops, m.inFlight[c] = NoOp, NEW k \in Ids,
           NEW H, NEW R, Believed(m, H, R), NEW out, out = RequestLoad(m, c, k)
    PROVE  /\ Changed(m, out.machine, c, [tag |-> "Load", key |-> k])
           /\ Believed(out.machine, H, R)
<1> DEFINE q == [tag |-> "Load", key |-> k]
<1>1. q \in Operations
  BY DEF Operations
<1>2. out = Issue(m, c, q)
  BY DEF RequestLoad, Unless
<1> HIDE DEF q
<1>3. Changed(m, out.machine, c, q) /\ Believed(out.machine, H, R)
  BY <1>1, <1>2, Issues
<1>4. QED BY <1>3 DEF q

LEMMA Asks ==
    ASSUME NEW m, MachineTyped(m), NEW c \in Ops, m.inFlight[c] = NoOp,
           NEW keys \in Seq(Ids), NEW most, NEW H, NEW R, Believed(m, H, R),
           NEW out, out = RequestMissing(m, c, keys, most)
    PROVE  /\ Believed(out.machine, H, R)
           /\ \/ out.result # "Commanded" /\ Changed(m, out.machine, c, NoOp)
              \/ /\ out.result = "Commanded"
                 /\ Changed(m, out.machine, c, [tag |-> "FindMissing", keys |-> keys])
<1> DEFINE q == [tag |-> "FindMissing", keys |-> keys]
<1>1. q \in Operations
  BY DEF Operations
<1>2. out = Issue(m, c, q) \/ out = Stay(m, "KeyBudgetRejected")
  BY DEF RequestMissing, Unless
<1> HIDE DEF q
<1>3. CASE out = Issue(m, c, q)
  <2>1. out.result = "Commanded"
    BY <1>3 DEF Issue, Stay
  <2>2. Changed(m, out.machine, c, q) /\ Believed(out.machine, H, R)
    BY <1>1, <1>3, Issues
  <2>3. QED BY <2>1, <2>2 DEF q
<1>4. CASE out = Stay(m, "KeyBudgetRejected")
  <2>1. out.result # "Commanded" /\ out.machine = m
    BY <1>4 DEF Stay
  <2>2. QED BY <2>1, StaysSame
<1>5. QED BY <1>2, <1>3, <1>4

LEMMA UploadSays ==
    ASSUME NEW m, MachineTyped(m), NEW c \in Ops, m.inFlight[c] = NoOp,
           NEW k \in Ids, NEW H, NEW R, Believed(m, H, R),
           NEW q, q = [tag |-> "Upload", key |-> k, bytes |-> k],
           NEW out, \/ out = Issue(m, c, q)
                    \/ out = Stay(m, "Uploaded") /\ k \in m.cache
                    \/ out = Stay(m, "BudgetRejected") \/ out = Stay(m, "RepeatRefused")
    PROVE  /\ Believed(out.machine, H, R)
           /\ \/ /\ out.result = "Commanded"
                 /\ Changed(m, out.machine, c, q)
              \/ out.result = "Uploaded" /\ Changed(m, out.machine, c, NoOp) /\ k \in H
              \/ /\ out.result \notin {"Commanded", "Uploaded"}
                 /\ Changed(m, out.machine, c, NoOp)
<1>1. q \in Operations
  BY DEF Operations
<1>2. CASE out = Issue(m, c, q)
  <2>1. out.result = "Commanded"
    BY <1>2 DEF Issue, Stay
  <2>2. Changed(m, out.machine, c, q) /\ Believed(out.machine, H, R)
    BY <1>1, <1>2, Issues
  <2>3. QED BY <2>1, <2>2
<1>3. CASE out = Stay(m, "Uploaded") /\ k \in m.cache
  <2>1. out.result = "Uploaded" /\ out.machine = m
    BY <1>3 DEF Stay
  <2>2. k \in H
    BY <1>3 DEF Believed
  <2>3. QED BY <2>1, <2>2, StaysSame
<1>4. CASE out = Stay(m, "BudgetRejected") \/ out = Stay(m, "RepeatRefused")
  <2>1. out.result \notin {"Commanded", "Uploaded"} /\ out.machine = m
    BY <1>4 DEF Stay
  <2>2. QED BY <2>1, StaysSame
<1>5. QED BY <1>2, <1>3, <1>4

(* The node sent is the one its address names.                             *)
UploadRequested(m, c, k) == RequestUpload(m, c, k, k, TRUE)

LEMMA Uploads ==
    ASSUME NEW m, MachineTyped(m), NEW c \in Ops, m.inFlight[c] = NoOp,
           NEW k \in Ids, NEW H, NEW R, Believed(m, H, R),
           NEW out, out = UploadRequested(m, c, k)
    PROVE  /\ Believed(out.machine, H, R)
           /\ \/ /\ out.result = "Commanded"
                 /\ Changed(m, out.machine, c, [tag |-> "Upload", key |-> k, bytes |-> k])
              \/ out.result = "Uploaded" /\ Changed(m, out.machine, c, NoOp) /\ k \in H
              \/ /\ out.result \notin {"Commanded", "Uploaded"}
                 /\ Changed(m, out.machine, c, NoOp)
<1> DEFINE q == [tag |-> "Upload", key |-> k, bytes |-> k]
<1>1. \/ out = Issue(m, c, q)
      \/ out = Stay(m, "Uploaded") /\ k \in m.cache
      \/ out = Stay(m, "BudgetRejected") \/ out = Stay(m, "RepeatRefused")
  BY DEF UploadRequested, RequestUpload, Unless
<1> HIDE DEF q
<1>2. q = [tag |-> "Upload", key |-> k, bytes |-> k]
  BY DEF q
<1>3. /\ Believed(out.machine, H, R)
      /\ \/ out.result = "Commanded" /\ Changed(m, out.machine, c, q)
         \/ out.result = "Uploaded" /\ Changed(m, out.machine, c, NoOp) /\ k \in H
         \/ out.result \notin {"Commanded", "Uploaded"} /\ Changed(m, out.machine, c, NoOp)
  BY <1>1, <1>2, UploadSays
<1>4. QED BY <1>2, <1>3

LEMMA Attests ==
    ASSUME NEW m, MachineTyped(m), NEW c \in Ops, m.inFlight[c] = NoOp,
           NEW k \in Ids, NEW H, NEW R, Believed(m, H, R),
           NEW out, out = RequestAttest(m, c, k, TRUE)
    PROVE  Believed(out.machine, H, R) /\ Changed(m, out.machine, c, NoOp)
<1> DEFINE u == [m EXCEPT !.confirmed = @ \cup {k}]
<1>1. out.machine = m \/ (out.machine = u /\ k \in m.present)
  BY DEF RequestAttest, Unless, Stay
<1>2. CASE out.machine = m
  BY <1>2, StaysSame
<1>3. CASE out.machine = u /\ k \in m.present
  <2>1. /\ MachineTyped(u) /\ u.inFlight = m.inFlight /\ u.cache = m.cache
        /\ u.present = m.present /\ u.confirmed = m.confirmed \cup {k}
        /\ u.published = m.published
    BY ConfirmedSets
  <2> HIDE DEF u
  <2>2. Believed(u, H, R)
    BY <1>3, <2>1 DEF Believed
  <2>3. QED BY <1>3, <2>1, <2>2 DEF Changed
<1>4. QED BY <1>1, <1>2, <1>3

LEMMA Publishes ==
    ASSUME NEW m, MachineTyped(m), NEW c \in Ops, m.inFlight[c] = NoOp,
           NEW k \in Ids, NEW closure \in SUBSET Ids, NEW H, NEW R, Believed(m, H, R),
           NEW out, out = RequestPublish(m, c, k, closure)
    PROVE  /\ Believed(out.machine, H, R)
           /\ \/ out.result # "Commanded" /\ Changed(m, out.machine, c, NoOp)
              \/ /\ out.result = "Commanded" /\ {k} \cup closure \subseteq H
                 /\ Changed(m, out.machine, c,
                            [tag |-> "Publish", key |-> k, closure |-> closure])
<1> DEFINE q == [tag |-> "Publish", key |-> k, closure |-> closure]
<1>1. q \in Operations
  BY DEF Operations
<1>2. \/ out = Issue(m, c, q) /\ {k} \cup closure \subseteq m.confirmed
      \/ out = Stay(m, "OrderingRefused")
  BY DEF RequestPublish, PublishEntitled, Unless
<1> HIDE DEF q
<1>3. CASE out = Issue(m, c, q) /\ {k} \cup closure \subseteq m.confirmed
  <2>1. out.result = "Commanded"
    BY <1>3 DEF Issue, Stay
  <2>2. Changed(m, out.machine, c, q) /\ Believed(out.machine, H, R)
    BY <1>1, <1>3, Issues
  <2>3. {k} \cup closure \subseteq H
    BY <1>3 DEF Believed
  <2>4. QED BY <2>1, <2>2, <2>3 DEF q
<1>4. CASE out = Stay(m, "OrderingRefused")
  <2>1. out.result # "Commanded" /\ out.machine = m
    BY <1>4 DEF Stay
  <2>2. QED BY <2>1, StaysSame
<1>5. QED BY <1>2, <1>3, <1>4

-----------------------------------------------------------------------------
(* The record of a call, one field set at a time.                          *)

(* What no step of a call changes until it ends.                           *)
SameCall(n, r) == n.verb = r.verb /\ n.key = r.key /\ n.closure = r.closure /\ n.once = r.once

LEMMA CallPc ==
    ASSUME NEW r, CallTyped(r), NEW v \in Stages, NEW n, n = [r EXCEPT !.pc = v]
    PROVE  /\ CallTyped(n) /\ SameCall(n, r) /\ n.pc = v /\ n.plan = r.plan /\ n.batch = r.batch
           /\ n.said = r.said /\ n.attempt = r.attempt /\ n.reply = r.reply
  BY DEF CallTyped, SameCall

LEMMA CallReply ==
    ASSUME NEW r, CallTyped(r), NEW v, NEW n, n = [r EXCEPT !.reply = v]
    PROVE  /\ CallTyped(n) /\ SameCall(n, r) /\ n.pc = r.pc /\ n.plan = r.plan /\ n.batch = r.batch
           /\ n.said = r.said /\ n.attempt = r.attempt /\ n.reply = v
  BY DEF CallTyped, SameCall

LEMMA CallBatch ==
    ASSUME NEW r, CallTyped(r), NEW v \in Seq(Ids), NEW n, n = [r EXCEPT !.batch = v]
    PROVE  /\ CallTyped(n) /\ SameCall(n, r) /\ n.pc = r.pc /\ n.plan = r.plan /\ n.batch = v
           /\ n.said = r.said /\ n.attempt = r.attempt /\ n.reply = r.reply
  BY DEF CallTyped, SameCall

LEMMA CallPlan ==
    ASSUME NEW r, CallTyped(r), NEW v \in Seq(Ids), NEW n, n = [r EXCEPT !.plan = v]
    PROVE  /\ CallTyped(n) /\ SameCall(n, r) /\ n.pc = r.pc /\ n.plan = v /\ n.batch = r.batch
           /\ n.said = r.said /\ n.attempt = r.attempt /\ n.reply = r.reply
  BY DEF CallTyped, SameCall

LEMMA CallSaid ==
    ASSUME NEW r, CallTyped(r), NEW v, NEW n, n = [r EXCEPT !.said = v]
    PROVE  /\ CallTyped(n) /\ SameCall(n, r) /\ n.pc = r.pc /\ n.plan = r.plan /\ n.batch = r.batch
           /\ n.said = v /\ n.attempt = r.attempt /\ n.reply = r.reply
  BY DEF CallTyped, SameCall

LEMMA CallAttempt ==
    ASSUME NEW r, CallTyped(r), NEW v \in 1..MaxAttempts, NEW n, n = [r EXCEPT !.attempt = v]
    PROVE  /\ CallTyped(n) /\ SameCall(n, r) /\ n.pc = r.pc /\ n.plan = r.plan /\ n.batch = r.batch
           /\ n.said = r.said /\ n.attempt = v /\ n.reply = r.reply
  BY DEF CallTyped, SameCall

(* The fields the steps of a call set together.                            *)
Gone(r, pc) == [r EXCEPT !.pc = pc, !.reply = NoReply]

LEMMA GoneTyped ==
    ASSUME NEW r, CallTyped(r), NEW v \in Stages, NEW n, n = Gone(r, v)
    PROVE  /\ CallTyped(n) /\ SameCall(n, r) /\ n.pc = v /\ n.plan = r.plan /\ n.batch = r.batch
           /\ n.reply = NoReply
<1> DEFINE m == [r EXCEPT !.pc = v]
<1>1. /\ CallTyped(m) /\ SameCall(m, r) /\ m.pc = v /\ m.plan = r.plan /\ m.batch = r.batch
  BY CallPc
<1>2. n = [m EXCEPT !.reply = NoReply]
  BY DEF Gone
<1> HIDE DEF m
<1>3. QED BY <1>1, <1>2, CallReply DEF SameCall

Advanced(r, rest, pc) == [r EXCEPT !.batch = rest, !.reply = NoReply, !.pc = pc]

LEMMA AdvancedTyped ==
    ASSUME NEW r, CallTyped(r), NEW rest \in Seq(Ids), NEW v \in Stages,
           NEW n, n = Advanced(r, rest, v)
    PROVE  /\ CallTyped(n) /\ SameCall(n, r) /\ n.pc = v /\ n.plan = r.plan /\ n.batch = rest
           /\ n.reply = NoReply
<1> DEFINE m == [r EXCEPT !.batch = rest]
<1>1. CallTyped(m) /\ SameCall(m, r) /\ m.plan = r.plan /\ m.batch = rest
  BY CallBatch
<1>2. n = Gone(m, v)
  BY DEF Advanced, Gone
<1> HIDE DEF m
<1>3. /\ CallTyped(n) /\ SameCall(n, m) /\ n.pc = v /\ n.plan = m.plan /\ n.batch = m.batch
      /\ n.reply = NoReply
  BY <1>1, <1>2, GoneTyped
<1>4. QED BY <1>1, <1>3 DEF SameCall

Retried(r, attempt) == [r EXCEPT !.attempt = attempt, !.pc = "upload", !.reply = NoReply]

LEMMA RetriedTyped ==
    ASSUME NEW r, CallTyped(r), NEW v \in 1..MaxAttempts, NEW n, n = Retried(r, v)
    PROVE  /\ CallTyped(n) /\ SameCall(n, r) /\ n.pc = "upload" /\ n.plan = r.plan
           /\ n.batch = r.batch /\ n.reply = NoReply
<1> DEFINE m == [r EXCEPT !.attempt = v]
<1>1. CallTyped(m) /\ SameCall(m, r) /\ m.plan = r.plan /\ m.batch = r.batch
  BY CallAttempt
<1>2. n = Gone(m, "upload")
  BY DEF Retried, Gone
<1> HIDE DEF m
<1>3. "upload" \in Stages
  BY DEF Stages
<1>4. QED BY <1>1, <1>2, <1>3, GoneTyped DEF SameCall

Told(r, pc, batch, plan, said) ==
    [r EXCEPT !.pc = pc, !.reply = NoReply, !.batch = batch, !.plan = plan, !.said = said]

LEMMA ToldTyped ==
    ASSUME NEW r, CallTyped(r), NEW v \in Stages, NEW batch \in Seq(Ids), NEW plan \in Seq(Ids),
           NEW said, NEW n, n = Told(r, v, batch, plan, said)
    PROVE  /\ CallTyped(n) /\ SameCall(n, r) /\ n.pc = v /\ n.plan = plan
           /\ n.batch = batch /\ n.reply = NoReply
<1> DEFINE m == Gone(r, v)
           k == [m EXCEPT !.batch = batch]
           l == [k EXCEPT !.plan = plan]
<1>1. CallTyped(m) /\ SameCall(m, r) /\ m.pc = v /\ m.reply = NoReply
  BY GoneTyped
<1>2. n = [l EXCEPT !.said = said]
  BY DEF Told, Gone
<1> HIDE DEF m
<1>3. CallTyped(k) /\ SameCall(k, m) /\ k.pc = v /\ k.reply = NoReply /\ k.batch = batch
  BY <1>1, CallBatch
<1> HIDE DEF k
<1>4. /\ CallTyped(l) /\ SameCall(l, k) /\ l.pc = v /\ l.reply = NoReply /\ l.batch = batch
      /\ l.plan = plan
  BY <1>3, CallPlan
<1> HIDE DEF l
<1>5. /\ CallTyped(n) /\ SameCall(n, l) /\ n.pc = l.pc /\ n.reply = l.reply
      /\ n.batch = l.batch /\ n.plan = l.plan
  BY <1>2, <1>4, CallSaid
<1>6. QED BY <1>1, <1>3, <1>4, <1>5 DEF SameCall

Begun(verb, key, closure, plan, once) ==
    [Idle EXCEPT !.verb = verb, !.pc = "probe", !.key = key,
                 !.closure = closure, !.plan = plan, !.once = once]

(* A caller that rests, and one that begins.                               *)
LEMMA IdleTyped == CallTyped(Idle) /\ Idle.pc = "idle" /\ Idle.verb = "none"
<1>1. PICK none : none = <<>>
  OBVIOUS
<1>2. none \in Seq(Ids)
  BY <1>1
<1>3. MaxAttempts \in Nat \ {0}
  BY TransferAssumption
<1>4. Idle = [verb |-> "none", pc |-> "idle", key |-> NoOp, closure |-> {}, plan |-> none,
              batch |-> none, said |-> none, attempt |-> 1, once |-> FALSE, reply |-> NoReply]
  BY <1>1 DEF Idle
<1>5. 1 \in 1..MaxAttempts
  BY <1>3
<1>6. QED BY <1>2, <1>4, <1>5 DEF CallTyped, Verbing, Stages

LEMMA BegunTyped ==
    ASSUME NEW verb \in Verbing, NEW key \in Ids, NEW closure \in SUBSET Ids,
           NEW plan \in Seq(Ids), NEW once \in BOOLEAN, NEW n,
           n = Begun(verb, key, closure, plan, once)
    PROVE  /\ CallTyped(n) /\ n.verb = verb /\ n.pc = "probe" /\ n.key = key
           /\ n.closure = closure /\ n.plan = plan
<1> DEFINE m == [Idle EXCEPT !.verb = verb]
           k == [m EXCEPT !.key = key]
           l == [k EXCEPT !.closure = closure]
           u == [l EXCEPT !.once = once]
           v == [u EXCEPT !.pc = "probe"]
<1>1. CallTyped(m) /\ m.verb = verb
  BY IdleTyped DEF CallTyped
<1>2. n = [v EXCEPT !.plan = plan]
  BY DEF Begun
<1> HIDE DEF m
<1>3. CallTyped(k) /\ k.verb = verb /\ k.key = key
  BY <1>1 DEF CallTyped
<1> HIDE DEF k
<1>4. CallTyped(l) /\ l.verb = verb /\ l.key = key /\ l.closure = closure
  BY <1>3 DEF CallTyped
<1> HIDE DEF l
<1>5. CallTyped(u) /\ u.verb = verb /\ u.key = key /\ u.closure = closure
  BY <1>4 DEF CallTyped
<1> HIDE DEF u
<1>6. CallTyped(v) /\ SameCall(v, u) /\ v.pc = "probe"
  BY <1>5, CallPc DEF Stages
<1> HIDE DEF v
<1>7. CallTyped(n) /\ SameCall(n, v) /\ n.pc = "probe" /\ n.plan = plan
  BY <1>2, <1>6, CallPlan
<1>8. QED BY <1>5, <1>6, <1>7 DEF SameCall

-----------------------------------------------------------------------------
(* A call stays sound as the peer takes more in.                           *)
LEMMA CallGrows ==
    ASSUME NEW r, NEW q, NEW H, NEW R, CallSound(r, q, H, R), NEW H2, H \subseteq H2,
           NEW R2, R \subseteq R2
    PROVE  CallSound(r, q, H2, R2)
<1>1. q # NoOp => Fits(r, q, H2)
  BY DEF CallSound, Fits
<1>2. Done(q, r.reply, H, R) => Done(q, r.reply, H2, R2)
  BY DEF Done
<1>3. Established(r, q, H2, R2)
  BY <1>2 DEF CallSound, Established
<1>4. QED BY <1>1, <1>3 DEF CallSound

LEMMA BeliefGrows ==
    ASSUME NEW m, NEW H, NEW R, Believed(m, H, R), NEW H2, H \subseteq H2, NEW R2, R \subseteq R2
    PROVE  Believed(m, H2, R2)
  BY DEF Believed

(* A call that goes on to a stage at which it may be.                      *)
LEMMA CallGoes ==
    ASSUME NEW r, NEW q, NEW H, NEW R, CallTyped(r), r.reply = NoReply,
           PlacedAt(r, r.pc), PairedAt(r, r.pc, q), q # NoOp => Fits(r, q, H),
           r.pc = "admit" => Subject(r) \in H
    PROVE  CallSound(r, q, H, R)
  BY DEF CallSound, Established

LEMMA IdleSound ==
    ASSUME NEW H, NEW R
    PROVE  CallSound(Idle, NoOp, H, R)
<1>1. CallTyped(Idle) /\ Idle.pc = "idle" /\ Idle.verb = "none"
  BY IdleTyped
<1>2. PlacedAt(Idle, Idle.pc) /\ PairedAt(Idle, Idle.pc, NoOp)
  BY <1>1 DEF PlacedAt, PairedAt
<1>3. Established(Idle, NoOp, H, R)
  BY <1>1 DEF Established
<1>4. QED BY <1>1, <1>2, <1>3 DEF CallSound

(* A step of one caller, with what it does to the machine and to the peer. *)
LEMMA CallerSteps ==
    ASSUME IInv, NEW c \in Ops, NEW r, op' = [op EXCEPT ![c] = r],
           NEW q, Changed(machine, machine', c, q), CallSound(r, q, held', roots'),
           Believed(machine', held', roots'),
           held \subseteq held', held' \subseteq Ids, roots \subseteq roots', local' \subseteq Ids,
           PeerSound(stray', held', roots'), AnswersTrue'
    PROVE  IInv'
<1>1. MachineTyped(machine')
  BY DEF Changed
<1>2. DOMAIN op' = Ops /\ op'[c] = r /\ \A d \in Ops : d # c => op'[d] = op[d]
  BY DEF IInv
<1>3. ASSUME NEW d \in Ops PROVE CallSound(op'[d], machine'.inFlight[d], held', roots')
  <2>1. CASE d = c
    BY <2>1, <1>2 DEF Changed
  <2>2. CASE d # c
    <3>1. op'[d] = op[d] /\ machine'.inFlight[d] = machine.inFlight[d]
      BY <2>2, <1>2 DEF Changed
    <3>2. CallSound(op[d], machine.inFlight[d], held, roots)
      BY DEF IInv
    <3>3. CallSound(op[d], machine.inFlight[d], held', roots')
      BY <3>2, CallGrows
    <3>4. QED BY <3>1, <3>3
  <2>3. QED BY <2>1, <2>2
<1>4. QED BY <1>1, <1>2, <1>3 DEF IInv

(* A step of one caller that leaves the peer alone and ends no call well.  *)
LEMMA CallerMoves ==
    ASSUME IInv, NEW c \in Ops, NEW r, op' = [op EXCEPT ![c] = r],
           NEW q, Changed(machine, machine', c, q), CallSound(r, q, held, roots),
           Believed(machine', held, roots), UNCHANGED <<held, roots>>, local' \subseteq Ids,
           StraySound(stray', held), answered' = NoOp
    PROVE  IInv'
<1>1. PeerSound(stray', held', roots')
  BY DEF IInv, PeerSound
<1>2. AnswersTrue'
  BY DEF AnswersTrue
<1>3. held' = held /\ roots' = roots /\ held \subseteq Ids
  BY DEF IInv
<1>4. QED BY <1>1, <1>2, <1>3, CallerSteps

(* A call that ends badly: its operation has left the machine.             *)
LEMMA CallFails ==
    ASSUME IInv, NEW c \in Ops, Fail(c), Changed(machine, machine', c, NoOp),
           Believed(machine', held, roots), UNCHANGED <<held, roots, local>>,
           StraySound(stray', held)
    PROVE  IInv'
<1>1. op' = [op EXCEPT ![c] = Idle] /\ answered' = NoOp
  BY DEF Fail, Becomes
<1>2. CallSound(Idle, NoOp, held, roots)
  BY IdleSound
<1>3. local' \subseteq Ids
  BY DEF IInv
<1>4. QED BY <1>1, <1>2, <1>3, CallerMoves

(* One that ends well: what it answers is so.                              *)
LEMMA CallSucceeds ==
    ASSUME IInv, NEW c \in Ops, Succeed(c), Changed(machine, machine', c, NoOp),
           Believed(machine', held, roots), UNCHANGED <<held, roots, stray>>,
           local' \subseteq Ids, AnswersTrue'
    PROVE  IInv'
<1>1. op' = [op EXCEPT ![c] = Idle]
  BY DEF Succeed, Becomes
<1>2. CallSound(Idle, NoOp, held', roots')
  BY IdleSound
<1>3. held' = held /\ roots' = roots /\ stray' = stray /\ held \subseteq Ids
  BY DEF IInv
<1>4. PeerSound(stray', held', roots') /\ Believed(machine', held', roots')
  BY <1>3 DEF IInv
<1>5. QED BY <1>1, <1>2, <1>3, <1>4, CallerSteps

(* One that goes on.                                                       *)
LEMMA CallGoesOn ==
    ASSUME IInv, NEW c \in Ops, NEW pc \in Stages, Go(c, pc),
           NEW q, Changed(machine, machine', c, q), Believed(machine', held, roots),
           UNCHANGED <<held, roots, local>>, StraySound(stray', held),
           PlacedAt(op[c], pc), PairedAt(op[c], pc, q), q # NoOp => Fits(op[c], q, held),
           pc = "admit" => Subject(op[c]) \in held
    PROVE  IInv'
<1> DEFINE r == op[c]
           n == Gone(r, pc)
<1>1. CallTyped(r)
  BY DEF IInv, CallSound
<1>2. op' = [op EXCEPT ![c] = n] /\ answered' = NoOp
  BY DEF Go, Becomes, Gone
<1>3. /\ CallTyped(n) /\ SameCall(n, r) /\ n.pc = pc /\ n.plan = r.plan /\ n.batch = r.batch
      /\ n.reply = NoReply
  BY <1>1, GoneTyped
<1> HIDE DEF n
<1>4. Subject(n) = Subject(r)
  BY <1>3 DEF Subject, SameCall
<1>5. PlacedAt(n, n.pc) /\ PairedAt(n, n.pc, q)
  BY <1>3 DEF PlacedAt, PairedAt, SameCall
<1>6. q # NoOp => Fits(n, q, held)
  BY <1>3, <1>4 DEF Fits, SameCall
<1>7. CallSound(n, q, held, roots)
  BY <1>3, <1>4, <1>5, <1>6, CallGoes
<1>8. local' \subseteq Ids
  BY DEF IInv
<1>9. QED BY <1>2, <1>7, <1>8, CallerMoves

(* What is known of a caller that has nothing in flight, and of one that   *)
(* waits.                                                                  *)
LEMMA Quietly ==
    ASSUME IInv, NEW c \in Ops, UNCHANGED machine
    PROVE  /\ Changed(machine, machine', c, machine.inFlight[c])
           /\ Believed(machine', held, roots)
  BY StaysSame DEF IInv

LEMMA StrayStays ==
    ASSUME IInv, UNCHANGED stray
    PROVE  StraySound(stray', held)
  BY DEF IInv, PeerSound

LEMMA NothingFlies ==
    ASSUME IInv, NEW c \in Ops,
           op[c].pc \notin {"wire", "admit"} \/ (op[c].pc = "admit" /\ op[c].verb # "load")
    PROVE  machine.inFlight[c] = NoOp
  BY DEF IInv, CallSound, PairedAt

LEMMA CallerKnown ==
    ASSUME IInv, NEW c \in Ops
    PROVE  /\ CallTyped(op[c]) /\ PlacedAt(op[c], op[c].pc)
           /\ CallSound(op[c], machine.inFlight[c], held, roots)
           /\ MachineTyped(machine) /\ Believed(machine, held, roots) /\ held \subseteq Ids
           /\ local \subseteq Ids
  BY DEF IInv, CallSound

LEMMA WaitersOperation ==
    ASSUME IInv, NEW c \in Ops, machine.inFlight[c] # NoOp
    PROVE  machine.inFlight[c] \in Operations /\ Fits(op[c], machine.inFlight[c], held)
  BY DEF IInv, CallSound, MachineTyped

LEMMA Flying ==
    ASSUME IInv, NEW c \in Ops, op[c].pc = "wire" \/ (op[c].pc = "admit" /\ op[c].verb = "load")
    PROVE  machine.inFlight[c] # NoOp
  BY DEF IInv, CallSound, PairedAt

-----------------------------------------------------------------------------
(* Key lists.                                                              *)

LEMMA ElementsIn ==
    ASSUME NEW s \in Seq(Ids)
    PROVE  Elements(s) \in SUBSET Ids
  BY ElementOfSeq, LenProperties DEF Elements

LEMMA FirstIn ==
    ASSUME NEW s \in Seq(Ids), s # <<>>
    PROVE  Head(s) \in Ids /\ Tail(s) \in Seq(Ids)
  BY HeadTailProperties

LEMMA PartIn ==
    ASSUME NEW s \in Seq(Ids), NEW i \in 1..(Len(s) + 1), NEW j \in 1..Len(s)
    PROVE  SubSeq(s, i, j) \in Seq(Ids) /\ (i <= j => SubSeq(s, i, j) # <<>>)
<1>1. Len(s) \in Nat /\ \A k \in 1..Len(s) : s[k] \in Ids
  BY LenProperties, ElementOfSeq
<1>2. \A k \in i..j : s[k] \in Ids
  BY <1>1
<1>3. i \in Int /\ j \in Int
  BY <1>1
<1>4. /\ SubSeq(s, i, j) \in Seq(Ids)
      /\ Len(SubSeq(s, i, j)) = IF i <= j THEN j - i + 1 ELSE 0
  BY <1>2, <1>3, SubSeqProperties
<1>5. i <= j => Len(SubSeq(s, i, j)) # 0
  BY <1>3, <1>4
<1>6. QED BY <1>4, <1>5, EmptySeq

-----------------------------------------------------------------------------
(* Calls begin.                                                            *)

LEMMA StartKeeps ==
    ASSUME IInv, NEW c \in Ops, op[c] = Idle, NEW verb \in Verbing \ {"none"}, NEW key \in Ids,
           NEW closure \in SUBSET Ids, NEW plan \in Seq(Ids), NEW once \in BOOLEAN,
           verb = "push" => closure = Elements(Listing[key]) \ {key},
           verb \in {"push", "missing"} => plan # <<>>,
           Start(c, verb, key, closure, plan, once)
    PROVE  IInv'
<1> DEFINE n == Begun(verb, key, closure, plan, once)
<1>1. op' = [op EXCEPT ![c] = n] /\ answered' = NoOp /\ UNCHANGED <<machine, local, peer>>
  BY DEF Start, Becomes, Begun
<1>2. /\ CallTyped(n) /\ n.verb = verb /\ n.pc = "probe" /\ n.key = key
      /\ n.closure = closure /\ n.plan = plan
  BY BegunTyped
<1>3. machine.inFlight[c] = NoOp
  BY IdleTyped, NothingFlies
<1> HIDE DEF n
<1>4. PlacedAt(n, n.pc) /\ PairedAt(n, n.pc, NoOp) /\ Established(n, NoOp, held, roots)
  BY <1>2 DEF PlacedAt, PairedAt, Established
<1>5. CallSound(n, NoOp, held, roots)
  BY <1>2, <1>4 DEF CallSound
<1>6. UNCHANGED <<held, roots, stray>>
  BY <1>1 DEF peer
<1>7. StraySound(stray', held) /\ local' \subseteq Ids
  BY <1>1, <1>6, StrayStays, CallerKnown
<1>8. Changed(machine, machine', c, NoOp) /\ Believed(machine', held, roots)
  BY <1>1, <1>3, Quietly
<1>9. QED BY <1>1, <1>5, <1>6, <1>7, <1>8, CallerMoves

LEMMA BeginKeeps ==
    ASSUME IInv, NEW c \in Ops, Begin(c)
    PROVE  IInv'
<1>1. PICK none : none = <<>>
  OBVIOUS
<1>2. none \in Seq(Ids) /\ {} \in SUBSET Ids
  BY <1>1
<1>3. op[c] = Idle
  BY DEF Begin
<1>4. PICK k \in Ids :
        \/ BeginPut(c, k) \/ BeginLoad(c, k) \/ BeginMissing(c, k) \/ BeginPush(c, k)
        \/ \E once \in BOOLEAN : BeginStream(c, k, once)
        \/ \E closure \in Closures : BeginPublish(c, k, closure)
  BY DEF Begin
<1>5. Listing[k] \in Seq(Ids) /\ Listing[k] # <<>>
  BY TransferAssumption
<1>6. ASSUME NEW verb \in {"put", "load", "stream"}, NEW once \in BOOLEAN,
             Start(c, verb, k, {}, none, once)
      PROVE  IInv'
  <2>1. verb \in Verbing \ {"none"} /\ verb \notin {"push", "missing"}
    BY DEF Verbing
  <2>2. QED BY <1>2, <1>3, <1>6, <2>1, StartKeeps
<1>7. CASE BeginPut(c, k)
  <2>1. Start(c, "put", k, {}, none, FALSE)
    BY <1>1, <1>7 DEF BeginPut
  <2>2. QED BY <1>6, <2>1
<1>8. CASE BeginLoad(c, k)
  <2>1. Start(c, "load", k, {}, none, FALSE)
    BY <1>1, <1>8 DEF BeginLoad
  <2>2. QED BY <1>6, <2>1
<1>9. CASE \E once \in BOOLEAN : BeginStream(c, k, once)
  <2>1. PICK once \in BOOLEAN : Start(c, "stream", k, {}, none, once)
    BY <1>1, <1>9 DEF BeginStream
  <2>2. QED BY <1>6, <2>1
<1>10. CASE BeginMissing(c, k)
  <2>1. Start(c, "missing", k, {}, Listing[k], FALSE)
    BY <1>10 DEF BeginMissing
  <2>2. "missing" \in Verbing \ {"none"}
    BY DEF Verbing
  <2>3. QED BY <1>2, <1>3, <1>5, <2>1, <2>2, StartKeeps
<1>11. CASE BeginPush(c, k)
  <2>1. Start(c, "push", k, Elements(Listing[k]) \ {k}, Listing[k], FALSE)
    BY <1>11 DEF BeginPush
  <2>2. "push" \in Verbing \ {"none"}
    BY DEF Verbing
  <2>3. Elements(Listing[k]) \ {k} \in SUBSET Ids
    BY <1>5, ElementsIn
  <2>4. QED BY <1>3, <1>5, <2>1, <2>2, <2>3, StartKeeps
<1>12. CASE \E closure \in Closures : BeginPublish(c, k, closure)
  <2>1. PICK closure \in Closures : Start(c, "publish", k, closure, none, FALSE)
    BY <1>1, <1>12 DEF BeginPublish
  <2>2. closure \in SUBSET Ids
    BY TransferAssumption
  <2>3. "publish" \in Verbing \ {"none"}
    BY DEF Verbing
  <2>4. QED BY <1>2, <1>3, <2>1, <2>2, <2>3, StartKeeps
<1>13. QED BY <1>4, <1>7, <1>8, <1>9, <1>10, <1>11, <1>12

(* A put of the mirror's own, and an interrupt.                            *)
LEMMA PutLocallyKeeps ==
    ASSUME IInv, NEW c \in Ops, NEW k \in Ids, PutLocally(c, k)
    PROVE  IInv'
<1>1. UNCHANGED <<machine, op, held, roots, stray>> /\ answered' = NoOp
      /\ local' = local \cup {k}
  BY DEF PutLocally, peer
<1>2. AnswersTrue'
  BY <1>1 DEF AnswersTrue
<1>3. QED BY <1>1, <1>2 DEF IInv

(* A request left on the wire is one that was in flight.                   *)
LEMMA Abandons ==
    ASSUME IInv, NEW c \in Ops, Abandon(c)
    PROVE  StraySound(stray', held)
<1>1. StraySound(stray, held)
  BY DEF IInv, PeerSound
<1>2. stray' = stray \/ (op[c].pc = "wire" /\ stray' = stray \cup {machine.inFlight[c]})
  BY DEF Abandon, Waiting
<1>3. CASE op[c].pc = "wire" /\ stray' = stray \cup {machine.inFlight[c]}
  <2>1. machine.inFlight[c] \in Operations /\ Fits(op[c], machine.inFlight[c], held)
    BY <1>3, Flying, WaitersOperation
  <2>2. machine.inFlight[c].tag = "Publish" =>
          {machine.inFlight[c].key} \cup machine.inFlight[c].closure \subseteq held
    BY <2>1 DEF Fits
  <2>3. QED BY <1>1, <1>3, <2>1, <2>2 DEF StraySound
<1>4. QED BY <1>1, <1>2, <1>3

LEMMA Clears ==
    ASSUME IInv, NEW c \in Ops, NEW tag, tag \in {"Silence", "Interrupted"}, Clear(c, tag)
    PROVE  Changed(machine, machine', c, NoOp) /\ Believed(machine', held, roots)
  BY Cleared, CallerKnown DEF Clear

LEMMA InterruptKeeps ==
    ASSUME IInv, NEW c \in Ops, Interrupt(c)
    PROVE  IInv'
<1>1. Fail(c) /\ UNCHANGED <<held, roots, local>>
  BY DEF Interrupt
<1>2. Changed(machine, machine', c, NoOp) /\ Believed(machine', held, roots)
  BY Clears DEF Interrupt
<1>3. StraySound(stray', held)
  BY Abandons DEF Interrupt
<1>4. QED BY <1>1, <1>2, <1>3, CallFails

(* A call that fails and tells the machine nothing.                        *)
LEMMA ForgetKeeps ==
    ASSUME IInv, NEW c \in Ops, Forget(c), UNCHANGED <<held, roots, stray, local>>
    PROVE  IInv'
<1>1. Fail(c) /\ machine' = [machine EXCEPT !.inFlight[c] = NoOp]
  BY DEF Forget, Breaks
<1>2. MachineTyped(machine) /\ Believed(machine, held, roots)
  BY CallerKnown
<1>3. /\ Changed(machine, machine', c, NoOp)
      /\ machine'.cache = machine.cache /\ machine'.present = machine.present
      /\ machine'.confirmed = machine.confirmed /\ machine'.published = machine.published
  BY <1>1, <1>2, FlightSets
<1>4. Believed(machine', held, roots)
  BY <1>2, <1>3 DEF Believed
<1>5. QED BY <1>1, <1>3, <1>4, StrayStays, CallFails

LEMMA FailuresKeep ==
    ASSUME IInv, NEW c \in Ops,
           \/ HashOrMirrorFails(c) \/ LoadUnhashed(c) \/ UploadUnhashed(c)
           \/ AdmitMismatched(c)
    PROVE  IInv'
<1>1. CASE HashOrMirrorFails(c)
  <2>1. Fail(c) /\ UNCHANGED <<machine, local, held, roots, stray>>
    BY <1>1 DEF HashOrMirrorFails, Breaks, peer
  <2>2. op[c].pc \in {"upload", "entry", "negotiate"}
    BY <1>1 DEF HashOrMirrorFails
  <2>3. Changed(machine, machine', c, NoOp) /\ Believed(machine', held, roots)
    BY <2>1, <2>2, NothingFlies, Quietly
  <2>4. QED BY <2>1, <2>3, StrayStays, CallFails
<1>2. CASE LoadUnhashed(c) \/ UploadUnhashed(c) \/ AdmitMismatched(c)
  BY <1>2, ForgetKeeps DEF LoadUnhashed, UploadUnhashed, AdmitMismatched, peer
<1>3. QED BY <1>1, <1>2

LEMMA ProbeKeeps ==
    ASSUME IInv, NEW c \in Ops, Probe(c)
    PROVE  IInv'
<1>1. op[c].pc = "probe" /\ UNCHANGED <<machine, local, held, roots, stray>>
  BY DEF Probe, peer
<1>2. machine.inFlight[c] = NoOp
  BY <1>1, NothingFlies
<1>3. Changed(machine, machine', c, NoOp) /\ Believed(machine', held, roots)
  BY <1>1, <1>2, Quietly
<1>4. StraySound(stray', held)
  BY <1>1, StrayStays
<1>5. CASE Fail(c)
  BY <1>1, <1>3, <1>4, <1>5, CallFails
<1>6. CASE Go(c, AfterProbe(op[c].verb))
  <2>1. CallTyped(op[c]) /\ PlacedAt(op[c], "probe")
    BY <1>1, CallerKnown
  <2> DEFINE v == AfterProbe(op[c].verb)
  <2>2. op[c].verb \in Verbing \ {"none"}
    BY <2>1 DEF CallTyped, PlacedAt
  <2>3. /\ v \in {"upload", "load", "negotiate", "publish"}
        /\ v = "upload" <=> op[c].verb \in {"put", "stream"}
        /\ v = "load" <=> op[c].verb = "load"
        /\ v = "negotiate" <=> op[c].verb \in {"missing", "push"}
        /\ v = "publish" <=> op[c].verb = "publish"
    BY <2>2 DEF AfterProbe, Verbing
  <2> HIDE DEF v
  <2>4. PlacedAt(op[c], v) /\ PairedAt(op[c], v, NoOp) /\ v # "admit"
    BY <2>1, <2>3 DEF PlacedAt, PairedAt
  <2>5. v \in Stages
    BY <2>3 DEF Stages
  <2>6. Go(c, v)
    BY <1>6 DEF v
  <2>7. QED BY <1>1, <1>3, <1>4, <2>4, <2>5, <2>6, CallGoesOn
<1>7. QED BY <1>5, <1>6 DEF Probe

-----------------------------------------------------------------------------
(* Requests.                                                               *)

LEMMA RequestLoadingKeeps ==
    ASSUME IInv, NEW c \in Ops, RequestLoading(c)
    PROVE  IInv'
<1> DEFINE q == [tag |-> "Load", key |-> op[c].key]
<1>1. op[c].pc = "load" /\ UNCHANGED <<local, held, roots, stray>>
  BY DEF RequestLoading, peer
<1>2. PICK out : /\ out = RequestLoad(machine, c, op[c].key)
                 /\ machine' = out.machine /\ Go(c, "wire")
  BY DEF RequestLoading, Take
<1>3. op[c].key \in Ids /\ op[c].verb = "load"
  BY <1>1, CallerKnown DEF PlacedAt
<1>4. machine.inFlight[c] = NoOp
  BY <1>1, NothingFlies
<1>5. Changed(machine, machine', c, q) /\ Believed(machine', held, roots)
  BY <1>2, <1>3, <1>4, CallerKnown, Loads
<1>6. q \in Operations /\ q.tag = "Load" /\ q.key = op[c].key
  BY <1>3 DEF Operations
<1> HIDE DEF q
<1>7. Fits(op[c], q, held)
  BY <1>3, <1>6 DEF Fits
<1>8. PlacedAt(op[c], "wire")
  BY <1>1, <1>3, CallerKnown DEF PlacedAt
<1>9. PairedAt(op[c], "wire", q)
  BY <1>6, TransferAssumption DEF PairedAt
<1>10. "wire" \in Stages
  BY DEF Stages
<1>11. StraySound(stray', held)
  BY <1>1, StrayStays
<1>12. QED BY <1>1, <1>2, <1>5, <1>7, <1>8, <1>9, <1>10, <1>11, CallGoesOn

(* A list too long to send is taken back.                                  *)
LEMMA ListKeeps ==
    ASSUME IInv, NEW c \in Ops, op[c].pc \in {"negotiate", "publish"}, NEW size, NEW out,
           TakeList(c, out, size), UNCHANGED <<local, held, roots, stray>>,
           NEW q \in Operations, Believed(out.machine, held, roots),
           \/ out.result # "Commanded" /\ Changed(machine, out.machine, c, NoOp)
           \/ /\ out.result = "Commanded" /\ Changed(machine, out.machine, c, q)
              /\ Fits(op[c], q, held)
    PROVE  IInv'
<1>1. StraySound(stray', held)
  BY StrayStays
<1>2. CASE out.result # "Commanded"
  <2>1. machine' = out.machine /\ Fail(c)
    BY <1>2 DEF TakeList
  <2>2. QED BY <1>1, <1>2, <2>1, CallFails
<1>3. CASE out.result = "Commanded" /\ size > bounds.list
  <2>1. machine' = FromWire(out.machine, c, [tag |-> "Interrupted"], FALSE).machine /\ Fail(c)
    BY <1>3 DEF TakeList
  <2>2. MachineTyped(out.machine)
    BY DEF Changed
  <2>3. Changed(out.machine, machine', c, NoOp) /\ Believed(machine', held, roots)
    BY <2>1, <2>2, CallerKnown, Cleared
  <2>4. Changed(machine, machine', c, NoOp)
    BY <2>3 DEF Changed
  <2>5. QED BY <1>1, <2>1, <2>3, <2>4, CallFails
<1>4. CASE out.result = "Commanded" /\ ~(size > bounds.list)
  <2>1. machine' = out.machine /\ Go(c, "wire")
    BY <1>4 DEF TakeList, Take
  <2>2. Changed(machine, machine', c, q) /\ Believed(machine', held, roots)
    BY <1>4, <2>1
  <2>3. Fits(op[c], q, held)
    BY <1>4
  <2>4. PlacedAt(op[c], op[c].pc)
    BY CallerKnown
  <2>5. PlacedAt(op[c], "wire")
    BY <2>4 DEF PlacedAt
  <2>6. PairedAt(op[c], "wire", q)
    BY TransferAssumption DEF PairedAt
  <2>7. "wire" \in Stages
    BY DEF Stages
  <2>8. QED BY <1>1, <2>1, <2>2, <2>3, <2>5, <2>6, <2>7, CallGoesOn
<1>5. QED BY <1>2, <1>3, <1>4

LEMMA NegotiateKeeps ==
    ASSUME IInv, NEW c \in Ops, Negotiate(c)
    PROVE  IInv'
<1> DEFINE plan == op[c].plan
<1>1. op[c].pc = "negotiate" /\ UNCHANGED <<local, held, roots, stray>>
  BY DEF Negotiate, peer
<1>2. PICK keys : /\ \/ keys = plan
                     \/ bounds.keys \in 1..Len(plan) /\ keys = SubSeq(plan, 1, bounds.keys)
                  /\ TakeList(c, RequestMissing(machine, c, keys, bounds.keys), Len(keys))
  BY DEF Negotiate
<1>3. op[c].verb \in {"push", "missing"} /\ plan # <<>> /\ plan \in Seq(Ids)
  BY <1>1, CallerKnown DEF PlacedAt, CallTyped
<1> HIDE DEF plan
<1>4. keys \in Seq(Ids) /\ keys # <<>>
  <2>1. CASE keys = plan
    BY <1>3, <2>1
  <2>2. CASE bounds.keys \in 1..Len(plan) /\ keys = SubSeq(plan, 1, bounds.keys)
    <3>1. Len(plan) \in Nat
      BY <1>3, LenProperties
    <3>2. 1 \in 1..(Len(plan) + 1) /\ 1 <= bounds.keys
      BY <2>2, <3>1
    <3>3. QED BY <1>3, <2>2, <3>2, PartIn
  <2>3. QED BY <1>2, <2>1, <2>2
<1>5. machine.inFlight[c] = NoOp
  BY <1>1, NothingFlies
<1> DEFINE out == RequestMissing(machine, c, keys, bounds.keys)
           q == [tag |-> "FindMissing", keys |-> keys]
<1>6. /\ Believed(out.machine, held, roots)
      /\ \/ out.result # "Commanded" /\ Changed(machine, out.machine, c, NoOp)
         \/ out.result = "Commanded" /\ Changed(machine, out.machine, c, q)
  BY <1>4, <1>5, CallerKnown, Asks
<1>7. q \in Operations /\ q.tag = "FindMissing" /\ q.keys = keys
  BY <1>4 DEF Operations
<1> HIDE DEF q, out
<1>8. Fits(op[c], q, held)
  BY <1>3, <1>4, <1>7 DEF Fits
<1>9. TakeList(c, out, Len(keys))
  BY <1>2 DEF out
<1>10. QED BY <1>1, <1>6, <1>7, <1>8, <1>9, ListKeeps

LEMMA RequestPublishingKeeps ==
    ASSUME IInv, NEW c \in Ops, RequestPublishing(c)
    PROVE  IInv'
<1> DEFINE out == RequestPublish(machine, c, op[c].key, op[c].closure)
           q == [tag |-> "Publish", key |-> op[c].key, closure |-> op[c].closure]
<1>1. /\ op[c].pc = "publish" /\ UNCHANGED <<local, held, roots, stray>>
      /\ TakeList(c, out, Cardinality(op[c].closure))
  BY DEF RequestPublishing, peer
<1>2. op[c].verb \in {"push", "publish"} /\ op[c].key \in Ids /\ op[c].closure \in SUBSET Ids
  BY <1>1, CallerKnown DEF PlacedAt, CallTyped
<1>3. machine.inFlight[c] = NoOp
  BY <1>1, NothingFlies
<1>4. /\ Believed(out.machine, held, roots)
      /\ \/ out.result # "Commanded" /\ Changed(machine, out.machine, c, NoOp)
         \/ /\ out.result = "Commanded" /\ {op[c].key} \cup op[c].closure \subseteq held
            /\ Changed(machine, out.machine, c, q)
  BY <1>2, <1>3, CallerKnown, Publishes
<1>5. /\ q \in Operations /\ q.tag = "Publish"
      /\ q.key = op[c].key /\ q.closure = op[c].closure
  BY <1>2 DEF Operations
<1> HIDE DEF q, out
<1>6. {op[c].key} \cup op[c].closure \subseteq held => Fits(op[c], q, held)
  BY <1>2, <1>5 DEF Fits
<1>7. QED BY <1>1, <1>4, <1>5, <1>6, ListKeeps

LEMMA RequestUploadingKeeps ==
    ASSUME IInv, NEW c \in Ops, RequestUploading(c)
    PROVE  IInv'
<1> DEFINE k == UploadKey(c)
           out == UploadRequested(machine, c, k)
           q == [tag |-> "Upload", key |-> k, bytes |-> k]
<1>1. /\ op[c].pc = "upload" /\ UNCHANGED <<local, held, roots, stray>>
      /\ \/ Fail(c) /\ UNCHANGED machine
         \/ CASE out.result = "Commanded" -> Take(c, out, "wire")
              [] out.result = "Uploaded" -> Take(c, out, "admit")
              [] OTHER -> machine' = out.machine /\ Fail(c)
  BY DEF RequestUploading, UploadRequested, peer
<1>2. CallTyped(op[c]) /\ PlacedAt(op[c], "upload")
  BY <1>1, CallerKnown
<1>3. /\ op[c].verb \in {"put", "stream", "push"}
      /\ op[c].verb = "push" => op[c].batch # <<>>
      /\ op[c].key \in Ids /\ op[c].batch \in Seq(Ids)
  BY <1>2 DEF PlacedAt, CallTyped
<1>4. k = Subject(op[c]) /\ k \in Ids
  BY <1>3, FirstIn DEF UploadKey, Subject
<1>5. machine.inFlight[c] = NoOp
  BY <1>1, NothingFlies
<1>6. StraySound(stray', held)
  BY <1>1, StrayStays
<1> HIDE DEF k
<1>7. /\ Believed(out.machine, held, roots)
      /\ \/ out.result = "Commanded" /\ Changed(machine, out.machine, c, q)
         \/ out.result = "Uploaded" /\ Changed(machine, out.machine, c, NoOp) /\ k \in held
         \/ /\ out.result \notin {"Commanded", "Uploaded"}
            /\ Changed(machine, out.machine, c, NoOp)
  BY <1>4, <1>5, CallerKnown, Uploads
<1>8. q \in Operations /\ q.tag = "Upload" /\ q.key = k /\ q.bytes = k
  BY <1>4 DEF Operations
<1> HIDE DEF out, q
<1>9. CASE Fail(c) /\ UNCHANGED machine
  <2>1. Changed(machine, machine', c, NoOp) /\ Believed(machine', held, roots)
    BY <1>5, <1>9, Quietly
  <2>2. QED BY <1>1, <1>6, <1>9, <2>1, CallFails
<1>10. CASE out.result = "Commanded" /\ Take(c, out, "wire")
  <2>1. machine' = out.machine /\ Go(c, "wire")
    BY <1>10 DEF Take
  <2>2. Changed(machine, machine', c, q) /\ Believed(machine', held, roots)
    BY <1>7, <1>10, <2>1
  <2>3. Fits(op[c], q, held)
    BY <1>3, <1>4, <1>8 DEF Fits
  <2>4. PlacedAt(op[c], "wire")
    BY <1>2 DEF PlacedAt
  <2>5. PairedAt(op[c], "wire", q)
    BY <1>8, TransferAssumption DEF PairedAt
  <2>6. "wire" \in Stages
    BY DEF Stages
  <2>7. QED BY <1>1, <1>6, <2>1, <2>2, <2>3, <2>4, <2>5, <2>6, CallGoesOn
<1>11. CASE out.result = "Uploaded" /\ Take(c, out, "admit")
  <2>1. machine' = out.machine /\ Go(c, "admit")
    BY <1>11 DEF Take
  <2>2. Changed(machine, machine', c, NoOp) /\ Believed(machine', held, roots) /\ k \in held
    BY <1>7, <1>11, <2>1
  <2>3. PlacedAt(op[c], "admit") /\ PairedAt(op[c], "admit", NoOp)
    BY <1>2, <1>3 DEF PlacedAt, PairedAt
  <2>4. "admit" \in Stages
    BY DEF Stages
  <2>5. QED BY <1>1, <1>4, <1>6, <2>1, <2>2, <2>3, <2>4, CallGoesOn
<1>12. CASE /\ out.result \notin {"Commanded", "Uploaded"}
            /\ machine' = out.machine /\ Fail(c)
  <2>1. Changed(machine, machine', c, NoOp) /\ Believed(machine', held, roots)
    BY <1>7, <1>12
  <2>2. QED BY <1>1, <1>6, <1>12, <2>1, CallFails
<1>13. QED BY <1>1, <1>9, <1>10, <1>11, <1>12

-----------------------------------------------------------------------------
(* The next entry, and the next attempt.                                   *)

LEMMA AdvanceKeeps ==
    ASSUME IInv, NEW c \in Ops, op[c].verb = "push", op[c].batch # <<>>, op[c].pc # "idle",
           Advance(c), Changed(machine, machine', c, NoOp), Believed(machine', held, roots),
           UNCHANGED <<held, roots>>, local' \subseteq Ids, StraySound(stray', held)
    PROVE  IInv'
<1> DEFINE r == op[c]
<1>1. CallTyped(r) /\ PlacedAt(r, r.pc)
  BY CallerKnown
<1>2. PICK v : /\ v = IF Tail(r.batch) # <<>> THEN "entry"
                      ELSE IF r.plan # <<>> THEN "negotiate" ELSE "publish"
               /\ op' = [op EXCEPT ![c] = Advanced(r, Tail(r.batch), v)]
               /\ answered' = NoOp
  BY DEF Advance, Becomes, Advanced
<1>3. r.batch \in Seq(Ids) /\ Tail(r.batch) \in Seq(Ids)
  <2>1. r.batch \in Seq(Ids)
    BY <1>1 DEF CallTyped
  <2>2. QED BY <2>1, FirstIn
<1>4. v \in Stages
  BY <1>2 DEF Stages
<1>5. PICK rest, n : /\ rest = Tail(r.batch) /\ n = Advanced(r, rest, v)
                     /\ op' = [op EXCEPT ![c] = n]
  BY <1>2
<1> HIDE DEF r
<1>6. CallTyped(n) /\ SameCall(n, r) /\ n.pc = v /\ n.plan = r.plan
      /\ n.batch = rest /\ n.reply = NoReply
  <2>1. rest \in Seq(Ids)
    BY <1>3, <1>5
  <2>2. CallTyped(r) /\ n = Advanced(r, rest, v)
    BY <1>1, <1>5
  <2>3. QED BY <1>4, <2>1, <2>2, AdvancedTyped
<1>7. r.key \in Ids /\ r.verb = "push"
  BY <1>1 DEF PlacedAt, r
<1>8. PlacedAt(n, n.pc)
  BY <1>1, <1>2, <1>5, <1>6, <1>7 DEF PlacedAt, SameCall
<1>9. PairedAt(n, n.pc, NoOp) /\ n.pc # "admit"
  BY <1>2, <1>6 DEF PairedAt
<1>10. CallSound(n, NoOp, held, roots)
  BY <1>6, <1>8, <1>9, CallGoes
<1>11. QED BY <1>2, <1>5, <1>10, CallerMoves

LEMMA RetryKeeps ==
    ASSUME IInv, NEW c \in Ops, op[c].pc # "idle", NEW tag, FailOrRetry(c, tag),
           Changed(machine, machine', c, NoOp), Believed(machine', held, roots),
           UNCHANGED <<held, roots, local>>, StraySound(stray', held)
    PROVE  IInv'
<1> DEFINE r == op[c]
           n == Retried(r, r.attempt + 1)
<1>1. \/ Fail(c)
      \/ /\ r.verb = "stream" /\ r.attempt < MaxAttempts
         /\ op' = [op EXCEPT ![c] = n] /\ answered' = NoOp
  BY DEF FailOrRetry, Becomes, Retried
<1>2. CASE Fail(c)
  BY <1>2, CallFails
<1>3. CASE /\ r.verb = "stream" /\ r.attempt < MaxAttempts
           /\ op' = [op EXCEPT ![c] = n] /\ answered' = NoOp
  <2>1. CallTyped(r) /\ PlacedAt(r, r.pc) /\ local \subseteq Ids
    BY CallerKnown
  <2>2. r.attempt \in 1..MaxAttempts /\ MaxAttempts \in Nat
    BY <2>1, TransferAssumption DEF CallTyped
  <2>3. r.attempt + 1 \in 1..MaxAttempts
    BY <1>3, <2>2
  <2>4. /\ CallTyped(n) /\ SameCall(n, r) /\ n.pc = "upload" /\ n.plan = r.plan
        /\ n.batch = r.batch /\ n.reply = NoReply
    BY <2>1, <2>3, RetriedTyped
  <2> HIDE DEF n
  <2>5. PlacedAt(n, n.pc) /\ PairedAt(n, n.pc, NoOp)
    BY <1>3, <2>1, <2>4 DEF PlacedAt, PairedAt, SameCall
  <2>6. CallSound(n, NoOp, held, roots)
    BY <2>4, <2>5, CallGoes
  <2>7. QED BY <1>3, <2>1, <2>6, CallerMoves
<1>4. QED BY <1>1, <1>2, <1>3

LEMMA EntryKeeps ==
    ASSUME IInv, NEW c \in Ops, Entry(c)
    PROVE  IInv'
<1> DEFINE k == Head(op[c].batch)
           out == RequestAttest(machine, c, k, TRUE)
<1>1. /\ op[c].pc = "entry" /\ UNCHANGED <<local, held, roots, stray>>
      /\ \/ Fail(c) /\ UNCHANGED machine
         \/ Go(c, "upload") /\ UNCHANGED machine
         \/ machine' = out.machine /\ (Advance(c) \/ Fail(c))
         \/ Advance(c) /\ UNCHANGED machine
  BY DEF Entry, peer
<1>2. CallTyped(op[c]) /\ PlacedAt(op[c], "entry") /\ local \subseteq Ids
  BY <1>1, CallerKnown
<1>3. op[c].verb = "push" /\ op[c].batch # <<>> /\ op[c].batch \in Seq(Ids)
  BY <1>2 DEF PlacedAt, CallTyped
<1>4. k \in Ids
  BY <1>3, FirstIn
<1>5. machine.inFlight[c] = NoOp
  BY <1>1, NothingFlies
<1>6. StraySound(stray', held)
  BY <1>1, StrayStays
<1>7. Believed(out.machine, held, roots) /\ Changed(machine, out.machine, c, NoOp)
  <2> HIDE DEF k
  <2>1. QED BY <1>4, <1>5, CallerKnown, Attests
<1> HIDE DEF out, k
<1>8. Changed(machine, machine', c, NoOp) /\ Believed(machine', held, roots)
  BY <1>1, <1>5, <1>7, Quietly
<1>9. CASE Fail(c)
  BY <1>1, <1>6, <1>8, <1>9, CallFails
<1>10. CASE Advance(c)
  BY <1>1, <1>2, <1>3, <1>6, <1>8, <1>10, AdvanceKeeps
<1>11. CASE Go(c, "upload")
  <2>1. PlacedAt(op[c], "upload") /\ PairedAt(op[c], "upload", NoOp)
    BY <1>2, <1>3 DEF PlacedAt, PairedAt
  <2>2. "upload" \in Stages
    BY DEF Stages
  <2>3. QED BY <1>1, <1>6, <1>8, <1>11, <2>1, <2>2, CallGoesOn
<1>12. QED BY <1>1, <1>9, <1>10, <1>11

LEMMA LoseKeeps ==
    ASSUME IInv, NEW c \in Ops, Lose(c)
    PROVE  IInv'
<1>1. /\ op[c].pc = "wire" /\ FailOrRetry(c, "Silence")
      /\ UNCHANGED <<held, roots, local>>
  BY DEF Lose, Waiting
<1>2. Changed(machine, machine', c, NoOp) /\ Believed(machine', held, roots)
  BY Clears DEF Lose
<1>3. StraySound(stray', held)
  BY Abandons DEF Lose
<1>4. QED BY <1>1, <1>2, <1>3, RetryKeeps

-----------------------------------------------------------------------------
(* The peer.                                                               *)

LEMMA Applies ==
    ASSUME IInv, NEW q \in Operations, q.tag = "Publish" => {q.key} \cup q.closure \subseteq held,
           Apply(q), NEW S, StraySound(S, held)
    PROVE  /\ held \subseteq held' /\ held' \subseteq Ids /\ roots \subseteq roots'
           /\ PeerSound(S, held', roots')
           /\ q.tag = "Upload" => q.bytes \in held'
           /\ q.tag = "Publish" => <<q.key, q.closure>> \in roots'
<1>1. held \subseteq Ids /\ \A root \in roots : {root[1]} \cup root[2] \subseteq held
  BY DEF IInv, PeerSound
<1>2. /\ held' = IF q.tag = "Upload" THEN held \cup {q.bytes} ELSE held
      /\ roots' = IF q.tag = "Publish" THEN roots \cup {<<q.key, q.closure>>} ELSE roots
  BY DEF Apply
<1>3. held \subseteq held' /\ held' \subseteq Ids /\ roots \subseteq roots'
  BY <1>1, <1>2, OperationKinds
<1>4. StraySound(S, held')
  BY <1>3 DEF StraySound
<1>5. ASSUME NEW root \in roots' PROVE {root[1]} \cup root[2] \subseteq held'
  <2>1. CASE root \in roots
    BY <1>1, <1>3, <2>1
  <2>2. CASE root = <<q.key, q.closure>> /\ q.tag = "Publish"
    <3>1. root[1] = q.key /\ root[2] = q.closure
      BY <2>2
    <3>2. QED BY <1>3, <2>2, <3>1
  <2>3. QED BY <1>2, <2>1, <2>2
<1>6. QED BY <1>2, <1>3, <1>4, <1>5 DEF PeerSound

(* A peer tells presence truly.                                            *)
LEMMA RepliesTrue ==
    ASSUME NEW q \in Operations, NEW reply \in Replies(q)
    PROVE  /\ q.tag = "Load" /\ reply.tag = "Ok" => q.key \in held
           /\ q.tag = "FindMissing" /\ reply.tag = "BatchResult" =>
                \A j \in DOMAIN reply.results :
                    reply.results[j].status = "present" => reply.results[j].key \in held
<1>1. ASSUME q.tag = "Load", reply.tag = "Ok" PROVE q.key \in held
  BY <1>1 DEF Replies
<1>2. ASSUME q.tag = "FindMissing", reply.tag = "BatchResult", NEW j \in DOMAIN reply.results,
             reply.results[j].status = "present"
      PROVE  reply.results[j].key \in held
  <2>1. PICK unread \in SUBSET Elements(q.keys) :
          reply = [tag |-> "BatchResult",
                   results |-> [i \in DOMAIN q.keys |->
                     [key |-> q.keys[i],
                      status |-> IF q.keys[i] \in unread THEN "failed"
                                 ELSE IF q.keys[i] \in held THEN "present" ELSE "missing"]]]
    <3>1. reply \notin {[tag |-> t] : t \in {"Capacity", "Redirected"}}
      BY <1>2
    <3>2. QED BY <1>2, <3>1 DEF Replies
  <2>2. reply.results[j].status = IF q.keys[j] \in unread THEN "failed"
                                  ELSE IF q.keys[j] \in held THEN "present" ELSE "missing"
    BY <1>2, <2>1
  <2>3. reply.results[j].key = q.keys[j]
    BY <1>2, <2>1
  <2>4. QED BY <1>2, <2>2, <2>3
<1>3. QED BY <1>1, <1>2

LEMMA ServeKeeps ==
    ASSUME IInv, NEW c \in Ops, Serve(c)
    PROVE  IInv'
<1> DEFINE q == machine.inFlight[c]
<1>1. /\ op[c].pc = "wire" /\ UNCHANGED <<machine, local, stray>> /\ answered' = NoOp
  BY DEF Serve, Waiting
<1>2. PICK reply \in Replies(q) :
        /\ op' = [op EXCEPT ![c] = [op[c] EXCEPT !.reply = reply]]
        /\ IF reply.tag = "Ok" THEN Apply(q) ELSE UNCHANGED <<held, roots>>
  BY DEF Serve, Becomes
<1>3. q # NoOp /\ q \in Operations /\ Fits(op[c], q, held)
  BY <1>1, Flying, WaitersOperation
<1> DEFINE n == [op[c] EXCEPT !.reply = reply]
<1>4. /\ CallTyped(n) /\ SameCall(n, op[c]) /\ n.pc = "wire" /\ n.plan = op[c].plan
      /\ n.batch = op[c].batch /\ n.reply = reply
  BY <1>1, CallerKnown, CallReply
<1>5. op' = [op EXCEPT ![c] = n]
  BY <1>2
<1>6. Changed(machine, machine', c, q) /\ Believed(machine, held, roots)
  BY <1>1, Quietly, CallerKnown
<1>7. PlacedAt(op[c], "wire") /\ StraySound(stray, held) /\ PeerSound(stray, held, roots)
      /\ held \subseteq Ids
  BY <1>1, CallerKnown DEF IInv, PeerSound
<1> HIDE DEF q, n
<1>8. /\ q.tag = "Load" /\ reply.tag = "Ok" => q.key \in held
      /\ q.tag = "FindMissing" /\ reply.tag = "BatchResult" =>
            \A j \in DOMAIN reply.results :
                reply.results[j].status = "present" => reply.results[j].key \in held
  BY <1>2, <1>3, RepliesTrue
<1>9. /\ held \subseteq held' /\ held' \subseteq Ids /\ roots \subseteq roots'
      /\ PeerSound(stray, held', roots')
      /\ q.tag = "Upload" /\ reply.tag = "Ok" => q.bytes \in held'
      /\ q.tag = "Publish" /\ reply.tag = "Ok" => <<q.key, q.closure>> \in roots'
  <2>1. CASE reply.tag = "Ok"
    <3>1. q.tag = "Publish" => {q.key} \cup q.closure \subseteq held
      BY <1>3 DEF Fits
    <3>2. Apply(q)
      BY <1>2, <2>1
    <3>3. QED BY <1>3, <1>7, <3>1, <3>2, Applies
  <2>2. CASE reply.tag # "Ok"
    BY <1>2, <1>7, <2>2
  <2>3. QED BY <2>1, <2>2
<1>10. Done(q, reply, held', roots')
  BY <1>8, <1>9 DEF Done
<1>11. Subject(n) = Subject(op[c])
  BY <1>4 DEF Subject, SameCall
<1>12. Fits(n, q, held')
  BY <1>3, <1>4, <1>9, <1>11 DEF Fits, SameCall
<1>13. PlacedAt(n, n.pc) /\ PairedAt(n, n.pc, q)
  BY <1>3, <1>4, <1>7 DEF PlacedAt, PairedAt, SameCall
<1>14. CallSound(n, q, held', roots')
  BY <1>4, <1>10, <1>12, <1>13 DEF CallSound, Established
<1>15. Believed(machine', held', roots')
  BY <1>1, <1>6, <1>9, BeliefGrows
<1>16. AnswersTrue'
  BY <1>1 DEF AnswersTrue
<1>17. local' \subseteq Ids /\ PeerSound(stray', held', roots')
  BY <1>1, <1>9, CallerKnown
<1>18. QED BY <1>5, <1>6, <1>9, <1>14, <1>15, <1>16, <1>17, CallerSteps

LEMMA ServeStrayKeeps ==
    ASSUME IInv, NEW q, ServeStray(q)
    PROVE  IInv'
<1>1. /\ q \in stray /\ Apply(q) /\ stray' = stray \ {q}
      /\ UNCHANGED <<machine, local, op>> /\ answered' = NoOp
  BY DEF ServeStray
<1>2. StraySound(stray, held)
  BY DEF IInv, PeerSound
<1>3. q \in Operations /\ (q.tag = "Publish" => {q.key} \cup q.closure \subseteq held)
  BY <1>1, <1>2 DEF StraySound
<1>4. StraySound(stray', held)
  BY <1>1, <1>2 DEF StraySound
<1>5. /\ held \subseteq held' /\ held' \subseteq Ids /\ roots \subseteq roots'
      /\ PeerSound(stray', held', roots')
  BY <1>1, <1>3, <1>4, Applies
<1>6. ASSUME NEW c \in Ops PROVE CallSound(op[c], machine.inFlight[c], held', roots')
  BY <1>5, CallerKnown, CallGrows
<1>7. Believed(machine, held', roots')
  BY <1>5, BeliefGrows DEF IInv
<1>8. AnswersTrue'
  BY <1>1 DEF AnswersTrue
<1>9. QED BY <1>1, <1>5, <1>6, <1>7, <1>8 DEF IInv

-----------------------------------------------------------------------------
(* Answers.                                                                *)

(* A reply is heard: its operation leaves the machine, which learns no     *)
(* more than the peer has done.                                            *)
LEMMA Hearing ==
    ASSUME IInv, NEW c \in Ops, op[c].pc = "wire", op[c].reply # NoReply, NEW verified,
           machine' = Hears(c, verified).machine
    PROVE  Changed(machine, machine', c, NoOp) /\ Believed(machine', held, roots)
<1> DEFINE q == machine.inFlight[c]
           reply == op[c].reply
<1>1. q \in Operations /\ Fits(op[c], q, held)
  BY Flying, WaitersOperation
<1>2. Done(q, reply, held, roots)
  BY CallerKnown DEF CallSound, Established
<1>3. Earned(q, reply, verified, held, roots)
  <2> HIDE DEF q, reply
  <2>1. QED BY <1>1, <1>2 DEF Fits, Done, Earned
<1>4. machine' = FromWire(machine, c, reply, verified).machine
  BY DEF Hears
<1>5. QED BY <1>3, <1>4, CallerKnown, Heard

LEMMA AnswerLoadKeeps ==
    ASSUME IInv, NEW c \in Ops, AnswerLoad(c)
    PROVE  IInv'
<1> DEFINE q == machine.inFlight[c]
           r == op[c]
           n == [r EXCEPT !.pc = "admit"]
<1>1. /\ r.pc = "wire" /\ r.reply # NoReply /\ q.tag = "Load"
      /\ UNCHANGED <<local, held, roots, stray>>
  BY DEF AnswerLoad, Answered, Waiting, peer
<1>2. q # NoOp /\ q \in Operations /\ Fits(r, q, held)
  BY <1>1, Flying, WaitersOperation
<1>3. r.verb = "load" /\ q.key = r.key
  BY <1>1, <1>2 DEF Fits
<1>4. StraySound(stray', held) /\ local' \subseteq Ids
  BY <1>1, StrayStays, CallerKnown
<1>5. CASE /\ r.reply.tag = "Ok" /\ op' = [op EXCEPT ![c] = n]
           /\ UNCHANGED machine /\ answered' = NoOp
  <2>1. CallTyped(r) /\ PlacedAt(r, "wire") /\ Done(q, r.reply, held, roots)
    BY <1>1, CallerKnown DEF CallSound, Established
  <2>2. r.key \in held
    BY <1>1, <1>3, <1>5, <2>1 DEF Done
  <2>3. CallTyped(n) /\ SameCall(n, r) /\ n.pc = "admit" /\ n.batch = r.batch
    BY <2>1, CallPc DEF Stages
  <2>4. Changed(machine, machine', c, q) /\ Believed(machine', held, roots)
    BY <1>5, Quietly
  <2> HIDE DEF n, q
  <2>5. Subject(n) = r.key
    BY <1>3, <2>3 DEF Subject, SameCall
  <2>6. PlacedAt(n, n.pc) /\ PairedAt(n, n.pc, q)
    BY <1>2, <1>3, <2>1, <2>3 DEF PlacedAt, PairedAt, SameCall
  <2>7. Fits(n, q, held)
    BY <1>1, <1>3, <2>3 DEF Fits, SameCall
  <2>8. CallSound(n, q, held, roots)
    BY <2>2, <2>3, <2>5, <2>6, <2>7 DEF CallSound, Established
  <2>9. op' = [op EXCEPT ![c] = n]
    BY <1>5
  <2>10. QED BY <1>1, <1>4, <1>5, <2>4, <2>8, <2>9, CallerMoves
<1>6. CASE machine' = Hears(c, FALSE).machine /\ Fail(c)
  <2>1. Changed(machine, machine', c, NoOp) /\ Believed(machine', held, roots)
    BY <1>1, <1>6, Hearing
  <2>2. QED BY <1>1, <1>4, <1>6, <2>1, CallFails
<1>7. QED BY <1>5, <1>6 DEF AnswerLoad, Becomes

(* A publication that is acknowledged was accepted.                        *)
LEMMA PublishTold ==
    ASSUME NEW m, NEW c, NEW k, NEW event, PublishEvent(m, c, k, event).result = "Published"
    PROVE  event.tag = "Ok"
  BY DEF PublishEvent, Settle, Stay

LEMMA AnswerUploadKeeps ==
    ASSUME IInv, NEW c \in Ops, AnswerUpload(c)
    PROVE  IInv'
<1> DEFINE q == machine.inFlight[c]
           r == op[c]
<1>1. /\ r.pc = "wire" /\ r.reply # NoReply /\ q.tag = "Upload"
      /\ UNCHANGED <<local, held, roots, stray>>
  BY DEF AnswerUpload, Answered, Waiting, peer
<1>2. q # NoOp /\ q \in Operations /\ Fits(r, q, held)
  BY <1>1, Flying, WaitersOperation
<1>3. StraySound(stray', held)
  BY <1>1, StrayStays
<1>4. Changed(machine, machine', c, NoOp) /\ Believed(machine', held, roots)
  BY <1>1, Hearing DEF AnswerUpload
<1>5. CASE FailOrRetry(c, r.reply.tag)
  BY <1>1, <1>3, <1>4, <1>5, RetryKeeps
<1>6. CASE Hears(c, TRUE).result = "Uploaded" /\ Go(c, "admit")
  <2>1. UploadEvent(machine, c, q.key, q.bytes, r.reply, TRUE).result = "Uploaded"
    BY <1>1, <1>2, <1>6 DEF Hears, FromWire
  <2>2. r.reply.tag = "Ok"
    BY <2>1 DEF UploadEvent, Settle, Stay, AuthOr
  <2>3. CallTyped(r) /\ PlacedAt(r, "wire") /\ Done(q, r.reply, held, roots)
    BY <1>1, CallerKnown DEF CallSound, Established
  <2>4. Subject(r) \in held
    BY <1>1, <1>2, <2>2, <2>3 DEF Done, Fits
  <2>5. r.verb \in {"put", "stream", "push"} /\ (r.verb = "push" => r.batch # <<>>)
    BY <1>1, <1>2 DEF Fits
  <2>6. PlacedAt(r, "admit") /\ PairedAt(r, "admit", NoOp)
    BY <2>3, <2>5 DEF PlacedAt, PairedAt
  <2>7. "admit" \in Stages
    BY DEF Stages
  <2>8. QED BY <1>1, <1>3, <1>4, <1>6, <2>4, <2>6, <2>7, CallGoesOn
<1>7. QED BY <1>5, <1>6 DEF AnswerUpload

LEMMA AnswerPublishKeeps ==
    ASSUME IInv, NEW c \in Ops, AnswerPublish(c)
    PROVE  IInv'
<1> DEFINE q == machine.inFlight[c]
           r == op[c]
<1>1. /\ r.pc = "wire" /\ r.reply # NoReply /\ q.tag = "Publish"
      /\ UNCHANGED <<local, held, roots, stray>>
  BY DEF AnswerPublish, Answered, Waiting, peer
<1>2. q # NoOp /\ q \in Operations /\ Fits(r, q, held)
  BY <1>1, Flying, WaitersOperation
<1>3. StraySound(stray', held) /\ local' \subseteq Ids
  BY <1>1, StrayStays, CallerKnown
<1>4. Changed(machine, machine', c, NoOp) /\ Believed(machine', held, roots)
  BY <1>1, Hearing DEF AnswerPublish
<1>5. CASE Fail(c)
  BY <1>1, <1>3, <1>4, <1>5, CallFails
<1>6. CASE Hears(c, FALSE).result = "Published" /\ Succeed(c)
  <2>1. PublishEvent(machine, c, q.key, r.reply).result = "Published"
    BY <1>1, <1>2, <1>6 DEF Hears, FromWire
  <2>2. r.reply.tag = "Ok"
    BY <2>1, PublishTold
  <2>3. PlacedAt(r, "wire") /\ Done(q, r.reply, held, roots)
    BY <1>1, CallerKnown DEF CallSound, Established
  <2>4. <<r.key, r.closure>> \in roots /\ r.verb \in {"push", "publish"}
    BY <1>1, <1>2, <2>2, <2>3 DEF Done, Fits
  <2>5. r.verb = "push" => r.closure = Elements(Listing[r.key]) \ {r.key}
    BY <2>3 DEF PlacedAt
  <2>6. answered' = <<r.verb, r.key>> /\ roots' = roots
    BY <1>1, <1>6 DEF Succeed
  <2>7. answered'[1] = r.verb /\ answered'[2] = r.key
    BY <2>6
  <2>8. <<r.key, r.closure>>[1] = r.key
    OBVIOUS
  <2> HIDE DEF r, q
  <2>9. \E root \in roots' : root[1] = r.key
    BY <2>4, <2>6, <2>8
  <2>10. AnswersTrue'
    BY <2>4, <2>5, <2>6, <2>7, <2>9 DEF AnswersTrue
  <2>11. QED BY <1>1, <1>3, <1>4, <1>6, <2>10, CallSucceeds
<1>7. QED BY <1>5, <1>6 DEF AnswerPublish

LEMMA AnswerMissingKeeps ==
    ASSUME IInv, NEW c \in Ops, AnswerMissing(c)
    PROVE  IInv'
<1> DEFINE q == machine.inFlight[c]
           r == op[c]
           rest == SubSeq(r.plan, Len(q.keys) + 1, Len(r.plan))
<1>1. /\ r.pc = "wire" /\ r.reply # NoReply /\ q.tag = "FindMissing"
      /\ UNCHANGED <<local, held, roots, stray>>
  BY DEF AnswerMissing, Answered, Waiting, peer
<1>2. q # NoOp /\ q \in Operations /\ Fits(r, q, held)
  BY <1>1, Flying, WaitersOperation
<1>3. r.verb \in {"push", "missing"} /\ q.keys # <<>> /\ q.keys \in Seq(Ids)
  BY <1>1, <1>2, OperationKinds DEF Fits
<1>4. StraySound(stray', held) /\ local' \subseteq Ids
  BY <1>1, StrayStays, CallerKnown
<1>5. Changed(machine, machine', c, NoOp) /\ Believed(machine', held, roots)
  BY <1>1, Hearing DEF AnswerMissing
<1>6. CASE Fail(c)
  BY <1>1, <1>4, <1>5, <1>6, CallFails
<1>7. CASE r.verb = "missing" /\ Succeed(c)
  <2>1. answered' = <<"missing", r.key>>
    BY <1>7 DEF Succeed
  <2>2. answered'[1] = "missing"
    BY <2>1
  <2>3. AnswersTrue'
    BY <2>2 DEF AnswersTrue
  <2>4. QED BY <1>1, <1>4, <1>5, <1>7, <2>3, CallSucceeds
<1>8. CASE /\ r.verb # "missing" /\ answered' = NoOp
           /\ \E said : op' = [op EXCEPT ![c] = Told(r, "entry", q.keys, rest, said)]
  <2>1. PICK said : op' = [op EXCEPT ![c] = Told(r, "entry", q.keys, rest, said)]
    BY <1>8
  <2>2. PICK n : /\ n = Told(r, "entry", q.keys, rest, said)
                 /\ op' = [op EXCEPT ![c] = n]
    BY <2>1
  <2>3. CallTyped(r) /\ PlacedAt(r, "wire")
    BY <1>1, CallerKnown
  <2>4. rest \in Seq(Ids)
    <3>1. r.plan \in Seq(Ids)
      BY <2>3 DEF CallTyped
    <3>2. Len(r.plan) \in Nat /\ Len(q.keys) \in Nat /\ \A i \in 1..Len(r.plan) : r.plan[i] \in Ids
      BY <1>3, <3>1, LenProperties, ElementOfSeq
    <3>3. \A i \in (Len(q.keys) + 1)..Len(r.plan) : r.plan[i] \in Ids
      BY <3>2
    <3>4. QED BY <3>2, <3>3, SubSeqProperties
  <2>5. "entry" \in Stages
    BY DEF Stages
  <2> HIDE DEF r, q, rest
  <2>6. /\ CallTyped(n) /\ SameCall(n, r) /\ n.pc = "entry"
        /\ n.batch = q.keys /\ n.reply = NoReply
    BY <1>3, <2>2, <2>3, <2>4, <2>5, ToldTyped
  <2>7. PlacedAt(n, n.pc) /\ PairedAt(n, n.pc, NoOp)
    BY <1>3, <1>8, <2>3, <2>6 DEF PlacedAt, PairedAt, SameCall
  <2>8. CallSound(n, NoOp, held, roots)
    BY <2>6, <2>7, CallGoes
  <2>9. QED BY <1>1, <1>4, <1>5, <1>8, <2>2, <2>8, CallerMoves
<1>9. Fail(c) \/ (r.verb = "missing" /\ Succeed(c))
        \/ /\ r.verb # "missing" /\ answered' = NoOp
           /\ \E said : op' = [op EXCEPT ![c] = Told(r, "entry", q.keys, rest, said)]
  BY DEF AnswerMissing, Becomes, Told
<1>10. QED BY <1>6, <1>7, <1>8, <1>9

-----------------------------------------------------------------------------
(* The mirror takes what was loaded or acknowledged.                       *)

LEMMA AdmitLoadedKeeps ==
    ASSUME IInv, NEW c \in Ops, AdmitLoaded(c)
    PROVE  IInv'
<1> DEFINE q == machine.inFlight[c]
           r == op[c]
<1>1. r.pc = "admit" /\ r.verb = "load" /\ UNCHANGED <<held, roots, stray>>
  BY DEF AdmitLoaded, peer
<1>2. q # NoOp /\ q \in Operations /\ Fits(r, q, held)
  BY <1>1, Flying, WaitersOperation
<1>3. q.tag = "Load" /\ q.key = r.key
  BY <1>1, <1>2, OperationKinds DEF Fits
<1>4. r.key \in held /\ r.key \in Ids
  BY <1>1, CallerKnown DEF CallSound, Established, Subject, PlacedAt
<1>5. ASSUME NEW verified, machine' = Hears(c, verified).machine
      PROVE  Changed(machine, machine', c, NoOp) /\ Believed(machine', held, roots)
  <2>1. Earned(q, r.reply, verified, held, roots)
    <3> HIDE DEF q, r
    <3>1. QED BY <1>3, <1>4 DEF Earned
  <2>2. machine' = FromWire(machine, c, r.reply, verified).machine
    BY <1>5 DEF Hears
  <2>3. QED BY <2>1, <2>2, CallerKnown, Heard
<1>6. CASE machine' = Hears(c, FALSE).machine /\ Fail(c) /\ UNCHANGED local
  <2>1. Changed(machine, machine', c, NoOp) /\ Believed(machine', held, roots)
    BY <1>5, <1>6
  <2>2. QED BY <1>1, <1>6, <2>1, StrayStays, CallFails
<1>7. CASE machine' = Hears(c, TRUE).machine /\ Succeed(c) /\ local' = local \cup {r.key}
  <2>1. Changed(machine, machine', c, NoOp) /\ Believed(machine', held, roots)
    BY <1>5, <1>7
  <2>2. answered' = <<"load", r.key>>
    BY <1>1, <1>7 DEF Succeed
  <2>3. answered'[1] = "load" /\ answered'[2] = r.key
    BY <2>2
  <2>4. AnswersTrue'
    BY <1>7, <2>3 DEF AnswersTrue
  <2>5. local' \subseteq Ids
    BY <1>4, <1>7, CallerKnown
  <2>6. QED BY <1>1, <1>7, <2>1, <2>4, <2>5, CallSucceeds
<1>8. QED BY <1>6, <1>7 DEF AdmitLoaded

LEMMA AdmitUploadedKeeps ==
    ASSUME IInv, NEW c \in Ops, AdmitUploaded(c)
    PROVE  IInv'
<1> DEFINE r == op[c]
           k == UploadKey(c)
<1>1. /\ r.pc = "admit" /\ r.verb # "load" /\ UNCHANGED <<machine, held, roots, stray>>
      /\ \/ /\ local' = local \cup {k}
            /\ IF r.verb = "push" THEN Advance(c) ELSE Succeed(c)
         \/ Fail(c) /\ UNCHANGED local
  BY DEF AdmitUploaded, peer
<1>2. CallTyped(r) /\ PlacedAt(r, "admit") /\ local \subseteq Ids /\ held \subseteq Ids
      /\ Subject(r) \in held
  BY <1>1, CallerKnown DEF CallSound, Established
<1>3. k = Subject(r)
  BY DEF UploadKey, Subject
<1>4. machine.inFlight[c] = NoOp
  BY <1>1, NothingFlies
<1>5. Changed(machine, machine', c, NoOp) /\ Believed(machine', held, roots)
  BY <1>1, <1>4, Quietly
<1>6. StraySound(stray', held)
  BY <1>1, StrayStays
<1> HIDE DEF k
<1>7. CASE Fail(c) /\ UNCHANGED local
  BY <1>1, <1>5, <1>6, <1>7, CallFails
<1>8. CASE r.verb = "push" /\ Advance(c) /\ local' = local \cup {k}
  <2>1. local' \subseteq Ids
    BY <1>2, <1>3, <1>8
  <2>2. r.batch # <<>>
    BY <1>2, <1>8 DEF PlacedAt
  <2>3. QED BY <1>1, <1>5, <1>6, <1>8, <2>1, <2>2, AdvanceKeeps
<1>9. CASE r.verb # "push" /\ Succeed(c) /\ local' = local \cup {k}
  <2>1. k = r.key
    BY <1>3, <1>9 DEF Subject
  <2>2. r.verb \in {"put", "stream"}
    BY <1>1, <1>2, <1>9 DEF PlacedAt
  <2>3. answered' = <<r.verb, r.key>> /\ held' = held
    BY <1>1, <1>9 DEF Succeed
  <2>4. answered'[1] = r.verb /\ answered'[2] = r.key
    BY <2>3
  <2>5. r.key \in held' \cap local'
    BY <1>2, <1>3, <1>9, <2>1, <2>3
  <2> HIDE DEF r
  <2>6. AnswersTrue'
    BY <2>2, <2>4, <2>5 DEF AnswersTrue
  <2>7. local' \subseteq Ids
    BY <1>2, <1>3, <1>9
  <2>8. QED BY <1>1, <1>5, <1>9, <2>6, <2>7, CallSucceeds DEF r
<1>10. QED BY <1>1, <1>7, <1>8, <1>9

-----------------------------------------------------------------------------
(* The invariant.                                                          *)

LEMMA InitiallySound == Init => IInv
<1> SUFFICES ASSUME Init PROVE IInv
  OBVIOUS
<1>1. local \subseteq Ids /\ held \subseteq Ids
  BY TransferAssumption DEF Init
<1>2. /\ machine.inFlight = [id \in Ops |-> NoOp]
      /\ MachineTyped(machine) /\ Believed(machine, held, roots)
  BY DEF Init, InitialMachine, MachineTyped, Believed
<1>3. DOMAIN op = Ops /\ \A c \in Ops : op[c] = Idle
  BY DEF Init
<1>4. \A c \in Ops : CallSound(op[c], machine.inFlight[c], held, roots)
  BY <1>2, <1>3, IdleSound
<1>5. PeerSound(stray, held, roots)
  BY DEF Init, PeerSound, StraySound
<1>6. AnswersTrue
  BY DEF Init, AnswersTrue
<1>7. QED BY <1>1, <1>2, <1>3, <1>4, <1>5, <1>6 DEF IInv

LEMMA StepKeeps == IInv /\ [Next]_vars => IInv'
<1> SUFFICES ASSUME IInv, [Next]_vars PROVE IInv'
  OBVIOUS
<1>1. ASSUME NEW c \in Ops, Begin(c) PROVE IInv'
  BY <1>1, BeginKeeps
<1>2. ASSUME NEW c \in Ops, Adapter(c) PROVE IInv'
  BY <1>2, ProbeKeeps, RequestLoadingKeeps, RequestUploadingKeeps, NegotiateKeeps, EntryKeeps,
     RequestPublishingKeeps, LoseKeeps, AnswerLoadKeeps, AnswerUploadKeeps, AnswerMissingKeeps,
     AnswerPublishKeeps, AdmitLoadedKeeps, AdmitUploadedKeeps, FailuresKeep DEF Adapter
<1>3. ASSUME NEW c \in Ops, Serve(c) PROVE IInv'
  BY <1>3, ServeKeeps
<1>4. ASSUME NEW c \in Ops, Interrupt(c) PROVE IInv'
  BY <1>4, InterruptKeeps
<1>5. ASSUME NEW c \in Ops, NEW k \in Ids, PutLocally(c, k) PROVE IInv'
  BY <1>5, PutLocallyKeeps
<1>6. ASSUME NEW q \in stray, ServeStray(q) PROVE IInv'
  BY <1>6, ServeStrayKeeps
<1>7. CASE UNCHANGED vars
  BY <1>7 DEF vars, peer, IInv, AnswersTrue
<1>8. Quiet => UNCHANGED vars
  BY DEF Quiet
<1>9. QED BY <1>1, <1>2, <1>3, <1>4, <1>5, <1>6, <1>7, <1>8 DEF Next

(* What a step leaves behind: nothing, or the operation of a call whose    *)
(* hash failed.                                                            *)
LEMMA OthersLeave ==
    ASSUME NEW c \in Ops, Begin(c) \/ Serve(c) \/ Interrupt(c)
    PROVE  UNCHANGED faults
<1>1. CASE Begin(c)
  BY <1>1 DEF Begin, BeginPut, BeginLoad, BeginMissing, BeginPush, BeginStream, BeginPublish,
              Start
<1>2. CASE Serve(c) \/ Interrupt(c)
  BY <1>2 DEF Serve, Interrupt
<1>3. QED BY <1>1, <1>2

LEMMA StepLeaves ==
    ASSUME IInv, [Next]_vars
    PROVE  \/ UNCHANGED faults
           \/ UNCHANGED left /\ failures' = failures + 1
           \/ \E c \in Ops : /\ machine.inFlight[c].tag \in {"Load", "Upload"}
                             /\ left' = left \cup {machine.inFlight[c]}
                             /\ failures' = failures + 1
<1>1. ASSUME NEW c \in Ops, Adapter(c)
      PROVE  \/ UNCHANGED faults
             \/ UNCHANGED left /\ failures' = failures + 1
             \/ /\ machine.inFlight[c].tag \in {"Load", "Upload"}
                /\ left' = left \cup {machine.inFlight[c]}
                /\ failures' = failures + 1
  <2>1. CASE \/ Probe(c) \/ RequestLoading(c) \/ RequestUploading(c) \/ Negotiate(c)
             \/ Entry(c) \/ RequestPublishing(c) \/ Lose(c)
    BY <2>1 DEF Probe, RequestLoading, RequestUploading, Negotiate, Entry, RequestPublishing, Lose
  <2>2. CASE \/ AnswerLoad(c) \/ AnswerUpload(c) \/ AnswerMissing(c) \/ AnswerPublish(c)
             \/ AdmitLoaded(c) \/ AdmitUploaded(c)
    BY <2>2 DEF AnswerLoad, AnswerUpload, AnswerMissing, AnswerPublish, AdmitLoaded,
                AdmitUploaded
  <2>3. CASE HashOrMirrorFails(c)
    BY <2>3 DEF HashOrMirrorFails, Breaks
  <2>4. CASE LoadUnhashed(c) \/ UploadUnhashed(c)
    BY <2>4 DEF LoadUnhashed, UploadUnhashed, Answered, Forget, Breaks
  <2>5. CASE AdmitMismatched(c)
    <3>1. op[c].pc = "admit" /\ op[c].verb = "load" /\ Forget(c)
      BY <2>5 DEF AdmitMismatched
    <3>2. machine.inFlight[c] \in Operations /\ Fits(op[c], machine.inFlight[c], held)
      BY <3>1, Flying, WaitersOperation
    <3>3. machine.inFlight[c].tag = "Load"
      BY <3>1, <3>2, OperationKinds DEF Fits
    <3>4. QED BY <3>1, <3>3 DEF Forget, Breaks
  <2>6. QED BY <1>1, <2>1, <2>2, <2>3, <2>4, <2>5 DEF Adapter
<1>2. ASSUME NEW c \in Ops, NEW k \in Ids, PutLocally(c, k) PROVE UNCHANGED faults
  BY <1>2 DEF PutLocally
<1>3. ASSUME NEW q \in stray, ServeStray(q) PROVE UNCHANGED faults
  BY <1>3 DEF ServeStray
<1>4. CASE UNCHANGED vars \/ Quiet
  BY <1>4 DEF vars, Quiet
<1>5. QED BY <1>1, <1>2, <1>3, <1>4, OthersLeave DEF Next

LEMMA StepLeavesFew == IInv /\ LeftBehind /\ [Next]_vars => LeftBehind'
<1> SUFFICES ASSUME IInv, LeftBehind, [Next]_vars PROVE LeftBehind'
  OBVIOUS
<1>1. CASE UNCHANGED faults
  BY <1>1 DEF faults, LeftBehind
<1>2. CASE UNCHANGED left /\ failures' = failures + 1
  <2>1. Cardinality(left) \in Nat
    BY FS_CardinalityType DEF LeftBehind
  <2>2. Cardinality(left') <= failures'
    BY <1>2, <2>1 DEF LeftBehind
  <2>3. QED BY <1>2, <2>2 DEF LeftBehind
<1>3. ASSUME NEW q, q.tag \in {"Load", "Upload"}, left' = left \cup {q},
             failures' = failures + 1
      PROVE  LeftBehind'
  <2>1. Cardinality(left) \in Nat /\ Cardinality(left) <= failures
    BY FS_CardinalityType DEF LeftBehind
  <2>2. /\ IsFiniteSet(left')
        /\ Cardinality(left') = Cardinality(left) \/ Cardinality(left') = Cardinality(left) + 1
    BY <1>3, FS_AddElement DEF LeftBehind
  <2>3. Cardinality(left') <= failures'
    BY <1>3, <2>1, <2>2 DEF LeftBehind
  <2>4. \A p \in left' : p.tag \in {"Load", "Upload"}
    BY <1>3 DEF LeftBehind
  <2>5. QED BY <1>3, <2>2, <2>3, <2>4 DEF LeftBehind
<1>4. QED BY <1>1, <1>2, <1>3, StepLeaves

LEMMA NothingLeftFirst == Init => LeftBehind
  BY FS_EmptySet DEF Init, LeftBehind

(* The invariant holds of every state: operations are paired with waiting  *)
(* callers, replies, beliefs and publications are true of the peer, and a  *)
(* failing hash leaves one load or upload behind at most.                  *)
THEOREM Inductive == Spec => [](IInv /\ LeftBehind)
<1>1. Init => IInv /\ LeftBehind
  BY InitiallySound, NothingLeftFirst
<1>2. IInv /\ LeftBehind /\ [Next]_vars => (IInv /\ LeftBehind)'
  BY StepKeeps, StepLeavesFew
<1>3. QED BY <1>1, <1>2, PTL DEF Spec

(* Of the operations in use, one is in the machine exactly while its       *)
(* caller waits for the wire or admits what it loaded; those nobody uses   *)
(* are loads and uploads, one at most for each failure of a hash           *)
(* (the exits of the drivers in remote.ts, and the three that miss it).    *)
THEOREM NothingIsLeaked == Spec => []NothingLeaks
<1>1. IInv /\ LeftBehind => NothingLeaks
  <2> SUFFICES ASSUME IInv, LeftBehind PROVE NothingLeaks
    OBVIOUS
  <2>1. ASSUME NEW c \in Ops
        PROVE  /\ machine.inFlight[c] \in InFlight
               /\ op[c].attempt \in 1..MaxAttempts
               /\ machine.inFlight[c] # NoOp <=>
                    Waiting(c) \/ (op[c].pc = "admit" /\ op[c].verb = "load")
    <3>1. machine.inFlight[c] \in InFlight
      BY DEF IInv, MachineTyped, InFlight
    <3>2. op[c].attempt \in 1..MaxAttempts
      BY DEF IInv, CallSound, CallTyped
    <3>3. PairedAt(op[c], op[c].pc, machine.inFlight[c])
      BY DEF IInv, CallSound
    <3>4. QED BY <3>1, <3>2, <3>3 DEF PairedAt, Waiting
  <2>2. /\ machine.cache \cup machine.confirmed \cup machine.published \subseteq Ids
        /\ machine.rejected \subseteq Ids \X Ids
    BY DEF IInv, MachineTyped
  <2>3. local \subseteq Ids /\ held \subseteq Ids
    BY DEF IInv
  <2>4. QED BY <2>1, <2>2, <2>3 DEF NothingLeaks, TypeOK, LeftBehind
<1>2. QED BY <1>1, Inductive, PTL

(* What the machine counts as confirmed or published the peer holds, every *)
(* recorded publication stands on content it holds, and a call that        *)
(* succeeded did what it says.                                             *)
THEOREM BeliefsAreTrue == Spec => []BeliefsHold
<1>1. IInv => BeliefsHold
  BY DEF IInv, BeliefsHold, ConfirmedHeld, PublishedHeld, Believed, PeerSound
<1>2. QED BY <1>1, Inductive, PTL

=============================================================================
