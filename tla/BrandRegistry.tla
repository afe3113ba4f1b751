---------------------------- MODULE BrandRegistry ----------------------------
(***************************************************************************)
(* What resolving the codes of brands promises its callers: each code is   *)
(* answered by the truth at some moment of the call, whatever is cached on *)
(* the way.                                                                *)
(***************************************************************************)
CONSTANTS Callers, Brands

VARIABLES
    registered,     \* the brands there are
    asked,          \* caller -> the codes it is asking about
    yes, no         \* caller -> the codes answered so far

vars == <<registered, asked, yes, no>>

Nothing == [c \in Callers |-> {}]

Init == registered \subseteq Brands /\ asked = Nothing /\ yes = Nothing /\ no = Nothing

Register(codes) == registered' = registered \cup codes /\ UNCHANGED <<asked, yes, no>>

Answer(c, known) ==
    /\ yes' = [yes EXCEPT ![c] = @ \cup (known \cap registered)]
    /\ no' = [no EXCEPT ![c] = @ \cup (known \ registered)]
    /\ UNCHANGED registered

\* Some answers may already come with the question.
Ask(c, codes, known) ==
    /\ asked[c] = {} /\ known \subseteq codes
    /\ asked' = [asked EXCEPT ![c] = codes]
    /\ Answer(c, known)

Tell(c, known) ==
    /\ known \subseteq asked[c] \ (yes[c] \cup no[c])
    /\ Answer(c, known) /\ UNCHANGED asked

\* The callers act on what they were told, or are gone.
Leave(gone) ==
    /\ asked' = [c \in Callers |-> IF c \in gone THEN {} ELSE asked[c]]
    /\ yes' = [c \in Callers |-> IF c \in gone THEN {} ELSE yes[c]]
    /\ no' = [c \in Callers |-> IF c \in gone THEN {} ELSE no[c]]
    /\ UNCHANGED registered

Next ==
    \/ \E codes \in SUBSET Brands : Register(codes)
    \/ \E c \in Callers, codes, known \in SUBSET Brands : Ask(c, codes, known)
    \/ \E c \in Callers, known \in SUBSET Brands : Tell(c, known)
    \/ \E gone \in SUBSET Callers : Leave(gone)

Spec == Init /\ [][Next]_vars
=============================================================================
