---------------------------- MODULE AtomicStore ----------------------------
(***************************************************************************)
(* What the store law promises its callers (Store.ts, CasStoreShape): a    *)
(* store that admits in one step.  A node is admitted with every reference *)
(* met at that instant, a receipt or a root names what is held, nothing    *)
(* leaves, and an acknowledgement is given by the step that earned it.     *)
(* A refused or interrupted call may still have had its effect.            *)
(***************************************************************************)
EXTENDS Admission

CONSTANT Callers

VARIABLES
    held,       \* the admitted addresses
    roots,      \* the published roots
    word,       \* the addresses of the receipts, in order
    worded,     \* whether receipts are kept
    answer,     \* per caller: what it was last told
    about       \* per caller: the address an acknowledgement names

vars == <<held, roots, word, worded, answer, about>>

MetIn(i, S) ==
    \A k \in DOMAIN RefsOf[i] :
        LET ref == RefsOf[i][k]
        IN  ref.id \in S \cap Nodes /\ TagOf[ref.id] = ref.expectedTag

Init ==
    /\ held \in SUBSET Known /\ \A i \in held : MetIn(i, held)
    /\ roots = {} /\ word = <<>>
    /\ worded \in BOOLEAN
    /\ answer = [c \in Callers |-> "none"]
    /\ about = [c \in Callers |-> Absent]

----------------------------------------------------------------------------
(* The effects, each on one address.                                       *)

Admit(i) ==
    /\ i \in Known /\ MetIn(i, held)
    /\ held' = held \union {i}
    /\ UNCHANGED <<roots, word>>

Receipt(i) ==
    /\ worded /\ i \in held
    /\ word' = Append(word, i)
    /\ UNCHANGED <<held, roots>>

Publish(i) ==
    /\ i \in held
    /\ roots' = roots \union {i}
    /\ UNCHANGED <<held, word>>

NoEffect == UNCHANGED <<held, roots, word>>

----------------------------------------------------------------------------
(* What the caller hears of it.                                            *)

Acknowledges(c, outcome, i) ==
    /\ answer' = [answer EXCEPT ![c] = outcome]
    /\ about' = [about EXCEPT ![c] = i]

Refuses(c) ==
    \E outcome \in {"none", "refused"} : Acknowledges(c, outcome, Absent)

Quiet(c) == UNCHANGED <<answer, about>> \/ Refuses(c)

Serve(c, i) ==
    \/ Admit(i) /\ \/ Quiet(c)
                   \/ Acknowledges(c, "Admitted", i)
                   \/ ~worded /\ Acknowledges(c, "fresh", i)
    \/ Receipt(i) /\ (Quiet(c) \/ Acknowledges(c, "fresh", i))
    \/ Publish(i) /\ Acknowledges(c, "Published", i)
    \/ /\ NoEffect /\ i \in held
       /\ \E outcome \in {"duplicate", "AlreadyAdmitted"} : Acknowledges(c, outcome, i)

Next ==
    /\ \E c \in Callers : (NoEffect /\ Quiet(c)) \/ \E i \in Ids : Serve(c, i)
    /\ UNCHANGED worded

Spec == Init /\ [][Next]_vars
============================================================================
