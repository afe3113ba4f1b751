---------------------------- MODULE GithubProofs ----------------------------
(***************************************************************************)
(* A branch joins the ticket whose name it bears, whatever the title and   *)
(* whatever overlaps; and once GitHub is answered, HQ's links are what     *)
(* GitHub holds, for any number of tickets, branches and deliveries that   *)
(* come in order, however often each is repeated.                          *)
(* The registry gives each repository its row, however it is renamed.      *)
(***************************************************************************)
EXTENDS GithubLinks, FiniteSetTheorems, SequenceTheorems, WellFoundedInduction, TLAPS

-----------------------------------------------------------------------------
(* Names and keys *)

\* Some positions have a first and a last.
LEMMA FirstExists ==
    ASSUME NEW S, S \subseteq Nat, S # {}
    PROVE  \E m \in S : \A k \in S : m <= k
<1> DEFINE Less == OpToRel(<, Nat)
<1>1. IsWellFoundedOn(Less, Nat) /\ \A x, y \in Nat : y < x => <<y, x>> \in Less
  BY NatLessThanWellFounded DEF OpToRel
<1> HIDE DEF Less
<1>2. PICK m \in S : \A k \in S : ~(<<k, m>> \in Less)
  BY <1>1, WFMin
<1>3. \A k \in S : ~(k < m)
  BY <1>1, <1>2
<1>4. \A k \in S : m <= k
  BY <1>3
<1> QED BY <1>4

LEMMA LastExists ==
    ASSUME NEW n \in Nat, NEW S, S \subseteq 1 .. n, S # {}
    PROVE  \E m \in S : \A k \in S : k <= m
<1>1. PICK Left : Left = {n - m : m \in S}
  OBVIOUS
<1>2. Left \subseteq Nat /\ Left # {}
  <2>1. PICK m0 \in S : TRUE
    OBVIOUS
  <2>2. n - m0 \in Left
    BY <1>1
  <2>3. \A x \in Left : x \in Nat
    BY <1>1
  <2> QED BY <2>2, <2>3
<1>3. PICK x \in Left : \A y \in Left : x <= y
  BY <1>2, FirstExists
<1>4. PICK m \in S : x = n - m
  BY <1>1
<1>5. \A k \in S : n - m <= n - k
  BY <1>1, <1>3, <1>4
<1>6. \A k \in S : k <= m
  BY <1>5
<1> QED BY <1>6

\* A part of a text is a text.
LEMMA PartOfText ==
    ASSUME NEW S, NEW s \in Seq(S), NEW m \in Int, NEW n \in Int, 1 <= m, n <= Len(s)
    PROVE  SubSeq(s, m, n) \in Seq(S)
<1>1. \A i \in m .. n : s[i] \in S
  BY ElementOfSeq
<1> QED BY <1>1, SubSeqProperties

LEMMA TrimmedText ==
    ASSUME NEW S, NEW s \in Seq(S)
    PROVE  Trim(s) \in Seq(S)
<1> DEFINE kept == {i \in DOMAIN s : s[i] # Dash}
<1>1. CASE kept = {}
  BY <1>1 DEF Trim
<1>2. CASE kept # {}
  <2>1. Len(s) \in Nat /\ kept \subseteq 1 .. Len(s)
    OBVIOUS
  <2>2. PICK i : i = CHOOSE m \in kept : \A k \in kept : m <= k
    OBVIOUS
  <2>3. PICK j : j = CHOOSE m \in kept : \A k \in kept : k <= m
    OBVIOUS
  <2>4. i \in kept /\ j \in kept
    <3> HIDE DEF kept
    <3>1. kept \subseteq Nat
      BY <2>1
    <3>2. \E m \in kept : \A k \in kept : m <= k
      BY <1>2, <3>1, FirstExists
    <3>3. \E m \in kept : \A k \in kept : k <= m
      BY <1>2, <2>1, LastExists
    <3> QED BY <2>2, <2>3, <3>2, <3>3
  <2>5. Trim(s) = SubSeq(s, i, j)
    BY <1>2, <2>2, <2>3 DEF Trim
  <2> QED BY <2>1, <2>4, <2>5, PartOfText
<1> QED BY <1>1, <1>2

LEMMA FirstOfText ==
    ASSUME NEW S, NEW s \in Seq(S), NEW n \in Int
    PROVE  First(s, n) \in Seq(S)
<1>1. CASE n < Len(s)
  BY <1>1, PartOfText DEF First
<1>2. CASE ~(n < Len(s))
  BY <1>2, PartOfText DEF First
<1> QED BY <1>1, <1>2

LEMMA SlugIsText ==
    ASSUME GithubLinksAssumption, NEW S, NEW title \in Seq(S)
    PROVE  SlugifyTitle(title) \in Seq(S)
<1> DEFINE cut == First(title, MaxSlugLength)
          late == {i \in DOMAIN cut : cut[i] = Dash /\ 2 * (i - 1) > MaxSlugLength}
<1>1. MaxSlugLength \in Nat
  BY DEF GithubLinksAssumption
<1>2. cut \in Seq(S)
  BY <1>1, FirstOfText
<1>3. CASE Len(title) <= MaxSlugLength
  BY <1>3, TrimmedText DEF SlugifyTitle
<1>4. CASE ~(Len(title) <= MaxSlugLength) /\ late = {}
  BY <1>2, <1>4, TrimmedText DEF SlugifyTitle
<1>5. CASE ~(Len(title) <= MaxSlugLength) /\ late # {}
  <2>1. PICK j : j = CHOOSE i \in late : \A k \in late : k <= i
    OBVIOUS
  <2>2. j \in late
    <3>1. late \subseteq 1 .. Len(cut) /\ Len(cut) \in Nat
      BY <1>2
    <3> HIDE DEF late
    <3> QED BY <1>5, <2>1, <3>1, LastExists
  <2>3. j \in Int
    BY <1>2, <2>2
  <2>4. SlugifyTitle(title) = Trim(First(cut, j - 1))
    BY <1>5, <2>1 DEF SlugifyTitle
  <2> HIDE DEF cut
  <2> QED BY <1>2, <2>3, <2>4, FirstOfText, TrimmedText
<1> QED BY <1>3, <1>4, <1>5

\* A branch's name starts with the whole key, and the key ends with a number.
StartsWithKey(body, reference) ==
    /\ IsText(body)
    /\ Len(reference) \in 1 .. Len(body) /\ SubSeq(body, 1, Len(reference)) = reference
    /\ body[Len(reference)] \in Figures

LEMMA TextOfPart ==
    ASSUME NEW S, NEW s \in Seq(S)
    PROVE  IsText(s)
<1>1. \A i \in 1 .. Len(s) : s[i] \in {s[k] : k \in DOMAIN s}
  OBVIOUS
<1> QED BY <1>1, SeqDef DEF IsText

LEMMA NameStarts ==
    ASSUME GithubLinksAssumption, NEW t \in Tickets, NEW prefix
    PROVE  StartsWithKey(NameOf(t, prefix).body, Described[t].reference)
<1>1. PICK key : key = Described[t].reference
  OBVIOUS
<1>2. PICK title : title = Described[t].title
  OBVIOUS
<1>3. PICK S : S = {key[i] : i \in DOMAIN key} \cup {title[i] : i \in DOMAIN title} \cup {Dash}
  OBVIOUS
<1>4. IsText(key) /\ IsText(title) /\ key # << >> /\ key[Len(key)] \in Figures
  BY <1>1, <1>2 DEF GithubLinksAssumption
<1>5. key \in Seq(S)
  <2>1. {key[i] : i \in DOMAIN key} \subseteq S
    BY <1>3
  <2> QED BY <1>4, <2>1, SeqMonotonic DEF IsText
<1>6. title \in Seq(S)
  <2>1. {title[i] : i \in DOMAIN title} \subseteq S
    BY <1>3
  <2> QED BY <1>4, <2>1, SeqMonotonic DEF IsText
<1>7. PICK slug : slug = SlugifyTitle(title) /\ slug \in Seq(S)
  BY <1>6, SlugIsText
<1>8. PICK room : room = MaxBranchLength - (2 + Len(key)) - 1 /\ room \in Int
  BY <1>5 DEF GithubLinksAssumption
<1>9. PICK rest : rest = Trim(First(slug, room)) /\ rest \in Seq(S)
  BY <1>7, <1>8, FirstOfText, TrimmedText
<1>10. PICK body : body = NameOf(t, prefix).body
  OBVIOUS
<1>11. body = key \/ body = key \o <<Dash>> \o rest
  BY <1>1, <1>2, <1>7, <1>8, <1>9, <1>10 DEF NameOf, BranchNameFor
<1>12. Len(key) \in Nat \ {0}
  BY <1>4, <1>5
<1>13. CASE body = key
  <2>1. SubSeq(key, 1, Len(key)) = key
    BY <1>5, SubSeqFull
  <2> QED BY <1>1, <1>4, <1>10, <1>12, <1>13, <2>1 DEF StartsWithKey
<1>14. CASE body = key \o <<Dash>> \o rest
  <2>1. PICK tail : tail = <<Dash>> \o rest /\ tail \in Seq(S)
    <3>1. <<Dash>> \in Seq(S)
      BY <1>3
    <3> QED BY <1>9, <3>1, ConcatProperties
  <2>2. body = key \o tail
    <3>1. <<Dash>> \in Seq(S)
      BY <1>3
    <3> QED BY <1>5, <1>9, <1>14, <2>1, <3>1, ConcatAssociative
  <2>3. /\ body \in Seq(S) /\ Len(body) = Len(key) + Len(tail)
        /\ \A i \in 1 .. Len(key) : body[i] = key[i]
    BY <1>5, <2>1, <2>2, ConcatProperties
  <2>4. SubSeq(body, 1, Len(key)) = SubSeq(key, 1, Len(key))
    BY <1>5, <1>12, <2>1, <2>2, SubSeqOfConcat1
  <2>5. SubSeq(key, 1, Len(key)) = key
    BY <1>5, SubSeqFull
  <2>6. Len(tail) \in Nat
    BY <2>1
  <2>7. IsText(body)
    BY <2>3, TextOfPart
  <2>8. Len(key) \in 1 .. Len(body) /\ SubSeq(body, 1, Len(key)) = key /\ body[Len(key)] \in Figures
    BY <1>4, <1>12, <2>3, <2>4, <2>5, <2>6
  <2> QED BY <1>1, <1>10, <2>7, <2>8 DEF StartsWithKey
<1> QED BY <1>11, <1>13, <1>14

\* The key that is read in a name is the longest there is.
LEMMA LongestRead ==
    ASSUME GithubLinksAssumption, NEW t \in Tickets, NEW n, StartsWithKey(n.body, Described[t].reference)
    PROVE  \E m \in Nat : /\ m >= Len(Described[t].reference) /\ m \in DOMAIN n.body
                          /\ Bearing(n) = {s \in Tickets : Described[s].reference = SubSeq(n.body, 1, m)}
                          /\ Bearing(n) # {}
<1>1. PICK known : known = {Described[s].reference : s \in Tickets}
  OBVIOUS
<1>2. PICK matching : matching = Matching(n, known)
  OBVIOUS
<1>3. PICK body : body = n.body
  OBVIOUS
<1>4. PICK key : key = Described[t].reference
  OBVIOUS
<1>5. Len(body) \in Nat /\ DOMAIN body = 1 .. Len(body)
  BY <1>3 DEF StartsWithKey, IsText
<1>6. Len(key) \in matching /\ Len(key) \in Nat
  <2>1. Len(key) \in DOMAIN body /\ body[Len(key)] \in Figures /\ SubSeq(body, 1, Len(key)) = key
    BY <1>3, <1>4, <1>5 DEF StartsWithKey
  <2>2. key \in known
    BY <1>1, <1>4
  <2>3. PICK last : last = Len(key) /\ last \in 1 .. Len(body)
    BY <1>5, <2>1
  <2>4. last \in Cuts(body)
    BY <2>1, <2>3 DEF Cuts
  <2>5. SubSeq(body, 1, last) \in known
    BY <2>1, <2>2, <2>3
  <2>6. last \in matching
    BY <1>2, <1>3, <2>4, <2>5 DEF Matching
  <2> QED BY <2>3, <2>6
<1>7. matching \subseteq 1 .. Len(body)
  BY <1>2, <1>3, <1>5 DEF Matching, Cuts
<1>8. PICK m : m = CHOOSE k \in matching : \A j \in matching : j <= k
  OBVIOUS
<1>9. m \in matching /\ \A j \in matching : j <= m
  BY <1>5, <1>6, <1>7, <1>8, LastExists
<1>10. MatchReference(n, known) = SubSeq(body, 1, m)
  BY <1>2, <1>3, <1>6, <1>8 DEF MatchReference
<1>11. SubSeq(body, 1, m) \in known
  BY <1>2, <1>3, <1>9 DEF Matching
<1>12. Bearing(n) = {s \in Tickets : Described[s].reference = SubSeq(body, 1, m)}
  BY <1>1, <1>10 DEF Bearing
<1>13. Bearing(n) # {}
  BY <1>1, <1>11, <1>12
<1>14. m \in Nat /\ m \in DOMAIN body /\ m >= Len(key)
  <2>1. m \in 1 .. Len(body)
    BY <1>7, <1>9
  <2>2. Len(key) <= m
    BY <1>6, <1>9
  <2> QED BY <1>5, <1>6, <2>1, <2>2
<1> QED BY <1>3, <1>4, <1>12, <1>13, <1>14

LEMMA Recognised ==
    ASSUME GithubLinksAssumption, NEW n \in Names
    PROVE  Bearing(n) # {}
<1>1. PICK t \in Tickets, prefix \in Prefixes : n = NameOf(t, prefix)
  BY DEF Names
<1> QED BY <1>1, NameStarts, LongestRead

\* The way back from a name to its ticket.
LEMMA JoinsItsOwn ==
    ASSUME GithubLinksAssumption, NEW t \in Tickets, NEW prefix, NEW n, n = NameOf(t, prefix),
           Unmistaken(n, t)
    PROVE  Bearing(n) = {t}
<1>1. PICK m \in Nat : /\ m >= Len(Described[t].reference) /\ m \in DOMAIN n.body
                       /\ Bearing(n) = {s \in Tickets : Described[s].reference = SubSeq(n.body, 1, m)}
                       /\ Bearing(n) # {}
  <2>1. StartsWithKey(n.body, Described[t].reference)
    BY NameStarts
  <2> QED BY <2>1, LongestRead
<1>2. IsText(n.body)
  BY NameStarts DEF StartsWithKey
<1>3. Len(SubSeq(n.body, 1, m)) = m
  <2>1. m \in 1 .. Len(n.body)
    BY <1>1, <1>2 DEF IsText
  <2> QED BY <1>2, <2>1, SubSeqProperties, ElementOfSeq DEF IsText
<1>4. ASSUME NEW s \in Bearing(n), s # t PROVE FALSE
  <2>1. s \in Tickets /\ Described[s].reference = SubSeq(n.body, 1, m)
    BY <1>1
  <2>2. BeginsWith(n.body, Described[s].reference)
    BY <1>1, <2>1 DEF BeginsWith
  <2>3. Len(Described[s].reference) < Len(Described[t].reference)
    BY <1>4, <2>1, <2>2 DEF Unmistaken
  <2>4. Len(Described[t].reference) \in Nat
    BY DEF GithubLinksAssumption, IsText
  <2> QED BY <1>1, <1>3, <2>1, <2>3, <2>4
<1>5. Bearing(n) \subseteq Tickets
  BY <1>1
<1> QED BY <1>1, <1>4
-----------------------------------------------------------------------------
(***************************************************************************)
(* The inductive invariant.  What a handler holds is what it read, so each *)
(* await is told what it still knows of the links, of GitHub and of the    *)
(* deliveries no one has kept yet.                                         *)
(***************************************************************************)
PullTold == {"pull_request", "mirror"}

Held == {"at", "ticket", "name", "found", "link", "pr"}
PullStates == {"none", "open", "closed", "merged"}
Delivered ==
    [id : Nat, event : {"create", "delete", "pull_request"}, name : Names, pr : PullStates]

\* A ticket that a branch may be linked to: it names it, or is read in its name.
Joins(t, n) ==
    t \in Tickets /\ (t \in Bearing(n) \/ \E prefix \in Prefixes : n = NameOf(t, prefix))

LinkRight(link, n) == DOMAIN link = {"ticket", "state", "pr"} /\ Joins(link.ticket, n)

\* What a request r knows whatever overlaps it; L are the links.
HoldsRight(r, L) ==
    /\ IF r.at \in Starting \cup Reviewing \cup Telling
       THEN DOMAIN r = Held /\ r.name \in Names ELSE "at" \in DOMAIN r
    /\ r.at \in Starting => r.ticket \in Tickets /\ Joins(r.ticket, r.name)
    /\ r.at = "recognise" => r.ticket \in Bearing(r.name)
    /\ r.at \in {"status", "pull", "pulled", "mirror"} => r.name \in DOMAIN L
    /\ r.at \in {"pull", "pulled", "mirror"} => LinkRight(r.link, r.name)

LinksRight ==
    /\ DOMAIN links \subseteq Names
    /\ \A n \in DOMAIN links : LinkRight(links[n], n)

HandsRight ==
    /\ req = [h \in Handlers |-> req[h]]
    /\ \A h \in Handlers : HoldsRight(req[h], links) /\ (req[h].at # "idle" => h \in mode.handlers)

\* Deliveries are numbered as GitHub emits them, and kept in that order.
HooksSorted(s) == \A i, j \in DOMAIN s : i < j => s[i].id < s[j].id

\* A queue s of which n deliveries have been emitted and the ids kept.
QueueRight(s, kept, n) ==
    /\ n \in Nat /\ s \in Seq(Delivered) /\ HooksSorted(s) /\ \A k \in DOMAIN s : s[k].id <= n
    /\ kept \subseteq Nat /\ \A id \in kept : id <= n

GithubRight ==
    /\ QueueRight(hooks, stored, emitted)
    /\ ghBranches \subseteq Names /\ ghPull \in [Names -> PullStates]

\* The deliveries HQ has still to keep.
Queued(s) == {s[k] : k \in DOMAIN s}

Left(s, kept) == {d \in Queued(s) : d.id \notin kept}

Waiting == Left(hooks, stored)

Coming(W, event, n) == {d \in W : d.event = event /\ d.name = n}

\* The first delivery about a branch is that of its creation.
CreationNext(W, n) == \E c \in Coming(W, "create", n) : \A d \in W : d.name = n => c.id <= d.id

Handling(r, awaits, n) == r.at \in awaits /\ r.name = n

Joining(r, W, n) == Handling(r, {"create", "recognise"}, n) \/ CreationNext(W, n)

\* What follows is said of the names N only.  A link shows its pull request, or a
\* delivery that tells of it is coming.
PullsInStep(N, r, L, W, P) ==
    /\ \A d \in W : d.event = "pull_request" /\ d.name \in N =>
          d.pr = P[d.name] \/ \E e \in Coming(W, "pull_request", d.name) : d.id < e.id
    /\ r.at \in PullTold /\ r.name \in N => r.pr = P[r.name] \/ Coming(W, "pull_request", r.name) # {}
    /\ r.at = "pulled" /\ r.name \in N => P[r.name] = "open" \/ Coming(W, "pull_request", r.name) # {}
    /\ \A n \in N : Coming(W, "pull_request", n) = {} =>
          IF n \in DOMAIN L THEN L[n].pr = P[n] \/ Handling(r, PullTold, n) ELSE P[n] = "none"

MergesInStep(N, r, L, W, P) ==
    \A n \in N : P[n] = "merged" =>
        \/ \E d \in Coming(W, "pull_request", n) : d.pr = "merged"
        \/ Handling(r, PullTold, n) /\ r.pr = "merged"
        \/ n \in DOMAIN L /\ L[n].state # "open"

\* Nothing is told of a branch before its creation.
CreationsInStep(N, r, L, W, B, P) ==
    \A n \in N \ DOMAIN L :
        /\ ~Handling(r, PullTold \cup {"delete"}, n)
        /\ Joining(r, W, n) \/ (n \notin B /\ P[n] = "none" /\ \A d \in W : d.name # n)
        /\ Joining(r, W, n) => n \in B \/ Coming(W, "delete", n) # {}
        /\ Handling(r, {"link"}, n) => Joining(r, W, n)

DeletionsInStep(N, r, L, W, B) ==
    \A n \in N \cap DOMAIN L : L[n].state = "open" =>
        n \in B \/ Coming(W, "delete", n) # {} \/ Handling(r, {"delete"}, n)

InStep(N, r, L, W, B, P) ==
    /\ PullsInStep(N, r, L, W, P) /\ MergesInStep(N, r, L, W, P)
    /\ CreationsInStep(N, r, L, W, B, P) /\ DeletionsInStep(N, r, L, W, B)

\* The names every delivery kept about was applied.
Followed == Names \ missed

\* The one handler's link is the one that stands.
HoldsCurrent(r, L) == r.at \in {"pull", "pulled", "mirror"} => r.link = L[r.name]

\* The registry goes on knowing Home.
RowShaped(row) == DOMAIN row = {"ext", "name", "branch", "archived", "side"}

HomeStands ==
    /\ ghRepos = mode.ghRepos
    /\ \A r \in DOMAIN registry : RowShaped(registry[r])
    /\ DOMAIN registry = DOMAIN mode.registry
    /\ \A r \in DOMAIN registry :
          registry[r].ext = mode.registry[r].ext /\ registry[r].name = mode.registry[r].name
    /\ \A h \in Handlers :
          /\ ~At(h, "register") /\ ~At(h, "discover") /\ ~At(h, "by name") /\ ~At(h, "discovered")
          /\ ~At(h, "fetch") /\ ~At(h, "sync")
          /\ At(h, "update") =>
                /\ req[h].id \in DOMAIN registry /\ RowShaped(req[h].row)
                /\ req[h].row.ext = registry[req[h].id].ext /\ req[h].row.name = registry[req[h].id].name

GithubInv ==
    /\ mode \in Modes /\ LinksRight /\ HandsRight /\ GithubRight
    /\ Orderly => \A h \in mode.handlers : HoldsCurrent(req[h], links)
    /\ HomeKnown => HomeStands
    /\ InOrder /\ HomeKnown =>
          \A h \in mode.handlers : InStep(Followed, req[h], links, Waiting, ghBranches, ghPull)

-----------------------------------------------------------------------------
(* What GitHub queues *)

Push(s, d) == s \o <<d>>

\* A delivery is queued last ...
LEMMA QueuedLast ==
    ASSUME NEW S, NEW s \in Seq(S), NEW d \in S, NEW last, last = Push(s, d),
           HooksSorted(s), \A e \in Queued(s) : e.id < d.id
    PROVE  last \in Seq(S) /\ Queued(last) = Queued(s) \cup {d} /\ HooksSorted(last)
<1>1. Len(s) \in Nat /\ DOMAIN s = 1 .. Len(s)
  OBVIOUS
<1>2. last \in Seq(S) /\ Len(last) = Len(s) + 1 /\ DOMAIN last = 1 .. Len(s) + 1
  BY DEF Push
<1>3. (\A k \in DOMAIN s : last[k] = s[k]) /\ last[Len(s) + 1] = d
  BY DEF Push
<1>4. DOMAIN last = DOMAIN s \cup {Len(s) + 1}
  BY <1>1, <1>2
<1>5. Queued(last) = Queued(s) \cup {d}
  BY <1>3, <1>4 DEF Queued
<1>6. HooksSorted(last)
  <2>1. SUFFICES ASSUME NEW i \in DOMAIN last, NEW j \in DOMAIN last, i < j
                 PROVE  last[i].id < last[j].id
    BY DEF HooksSorted
  <2>2. i \in DOMAIN s
    BY <1>1, <1>2, <2>1
  <2>3. CASE j \in DOMAIN s
    BY <1>3, <2>1, <2>2, <2>3 DEF HooksSorted
  <2>4. CASE j = Len(s) + 1
    BY <1>3, <2>2, <2>4 DEF Queued
  <2> QED BY <1>4, <2>3, <2>4
<1> QED BY <1>2, <1>5, <1>6

\* ... and one that was answered leaves the queue.
LEMMA QueuedTaken ==
    ASSUME NEW S, NEW s \in Seq(S), HooksSorted(s), NEW k \in DOMAIN s, NEW left, left = Taken(s, k)
    PROVE  /\ left \in Seq(S) /\ HooksSorted(left)
           /\ Queued(left) = {s[j] : j \in DOMAIN s \ {k}}
<1>1. Len(s) \in Nat /\ DOMAIN s = 1 .. Len(s) /\ k \in 1 .. Len(s)
  OBVIOUS
<1>2. PICK front : front = SubSeq(s, 1, k - 1)
  OBVIOUS
<1>3. PICK back : back = SubSeq(s, k + 1, Len(s))
  OBVIOUS
<1>4. front \in Seq(S) /\ Len(front) = k - 1 /\ \A i \in 1 .. k - 1 : front[i] = s[i]
  <2>1. \A i \in 1 .. k - 1 : s[i] \in S
    BY <1>1, ElementOfSeq
  <2> QED BY <1>1, <1>2, <2>1, SubSeqProperties
<1>5. back \in Seq(S) /\ Len(back) = Len(s) - k /\ \A i \in 1 .. Len(s) - k : back[i] = s[k + i]
  <2>1. \A i \in k + 1 .. Len(s) : s[i] \in S
    BY <1>1, ElementOfSeq
  <2>2. back \in Seq(S)
    BY <1>1, <1>3, <2>1, SubSeqProperties
  <2>3. Len(back) = Len(s) - k
    BY <1>1, <1>3, <2>1, SubSeqProperties
  <2>4. \A i \in 1 .. Len(s) - k : back[i] = s[k + i]
    BY <1>1, <1>3, <2>1, SubSeqProperties
  <2> QED BY <2>2, <2>3, <2>4
<1>6. left = front \o back
  BY <1>2, <1>3 DEF Taken
<1>7. left \in Seq(S) /\ Len(left) = Len(s) - 1
  <2>1. left \in Seq(S) /\ Len(left) = Len(front) + Len(back)
    BY <1>4, <1>5, <1>6, ConcatProperties
  <2> QED BY <1>1, <1>4, <1>5, <2>1
<1>8. \A i \in 1 .. k - 1 : left[i] = s[i]
  <2>1. \A i \in 1 .. Len(front) : left[i] = front[i]
    BY <1>4, <1>5, <1>6, ConcatProperties
  <2> QED BY <1>4, <2>1
<1>9. \A i \in k .. Len(s) - 1 : left[i] = s[i + 1]
  <2>1. SUFFICES ASSUME NEW i \in k .. Len(s) - 1 PROVE left[i] = s[i + 1]
    OBVIOUS
  <2>2. left[i] = back[i - (k - 1)]
    BY <1>1, <1>4, <1>5, <1>6, <2>1, ConcatProperties
  <2>3. i - (k - 1) \in 1 .. Len(s) - k /\ k + (i - (k - 1)) = i + 1
    BY <1>1, <2>1
  <2> QED BY <1>5, <2>2, <2>3
<1>10. Queued(left) = {s[j] : j \in DOMAIN s \ {k}}
  <2>1. ASSUME NEW i \in DOMAIN left PROVE \E j \in DOMAIN s \ {k} : left[i] = s[j]
    <3>1. CASE i < k
      BY <1>1, <1>7, <1>8, <2>1, <3>1
    <3>2. CASE ~(i < k)
      <4>1. i + 1 \in DOMAIN s \ {k} /\ left[i] = s[i + 1]
        BY <1>1, <1>7, <1>9, <2>1, <3>2
      <4> QED BY <4>1
    <3> QED BY <3>1, <3>2
  <2>2. ASSUME NEW j \in DOMAIN s \ {k} PROVE \E i \in DOMAIN left : left[i] = s[j]
    <3>1. CASE j < k
      BY <1>1, <1>7, <1>8, <2>2, <3>1
    <3>2. CASE ~(j < k)
      <4>1. j - 1 \in DOMAIN left /\ left[j - 1] = s[j]
        BY <1>1, <1>7, <1>9, <2>2, <3>2
      <4> QED BY <4>1
    <3> QED BY <3>1, <3>2
  <2> QED BY <2>1, <2>2 DEF Queued
<1>11. HooksSorted(left)
  <2>1. SUFFICES ASSUME NEW i \in DOMAIN left, NEW j \in DOMAIN left, i < j
                 PROVE  left[i].id < left[j].id
    BY DEF HooksSorted
  <2>2. i \in Nat /\ j \in Nat /\ i >= 1 /\ j <= Len(s) - 1
    BY <1>1, <1>7, <2>1
  <2>3. CASE j < k
    <3>1. left[i] = s[i] /\ left[j] = s[j] /\ i \in DOMAIN s /\ j \in DOMAIN s
      BY <1>1, <1>8, <2>1, <2>2, <2>3
    <3> QED BY <2>1, <3>1 DEF HooksSorted
  <2>4. CASE ~(i < k)
    <3>1. left[i] = s[i + 1] /\ left[j] = s[j + 1] /\ i + 1 \in DOMAIN s /\ j + 1 \in DOMAIN s /\ i + 1 < j + 1
      BY <1>1, <1>9, <2>1, <2>2, <2>4
    <3> QED BY <3>1 DEF HooksSorted
  <2>5. CASE i < k /\ ~(j < k)
    <3>1. left[i] = s[i] /\ left[j] = s[j + 1] /\ i \in DOMAIN s /\ j + 1 \in DOMAIN s /\ i < j + 1
      BY <1>1, <1>8, <1>9, <2>1, <2>2, <2>5
    <3> QED BY <3>1 DEF HooksSorted
  <2> QED BY <2>3, <2>4, <2>5
<1> QED BY <1>7, <1>10, <1>11

-----------------------------------------------------------------------------
(* What happens at GitHub keeps HQ in step: a delivery tells of it. *)

\* One delivery more, the last.
Later(W, c) == c.id \in Nat /\ \A d \in W : d.id \in Nat /\ d.id < c.id

LEMMA MoreComing ==
    ASSUME NEW W, NEW c, Later(W, c), NEW V, V = W \cup {c}, NEW event, NEW n
    PROVE  /\ Coming(W, event, n) \subseteq Coming(V, event, n)
           /\ c.event = event /\ c.name = n => c \in Coming(V, event, n)
           /\ ~(c.event = event /\ c.name = n) => Coming(V, event, n) = Coming(W, event, n)
           /\ CreationNext(W, n) => CreationNext(V, n)
           /\ CreationNext(V, n) /\ ~(c.event = "create" /\ c.name = n) => CreationNext(W, n)
<1>1. \A e : /\ Coming(W, e, n) \subseteq Coming(V, e, n)
             /\ c.event = e /\ c.name = n => c \in Coming(V, e, n)
             /\ ~(c.event = e /\ c.name = n) => Coming(V, e, n) = Coming(W, e, n)
  BY DEF Coming
<1>2. ASSUME CreationNext(W, n) PROVE CreationNext(V, n)
  <2>1. PICK x \in Coming(W, "create", n) : \A d \in W : d.name = n => x.id <= d.id
    BY <1>2 DEF CreationNext
  <2>2. x \in W /\ x.id <= c.id
    BY <2>1 DEF Coming, Later
  <2>3. x \in Coming(V, "create", n) /\ \A d \in V : d.name = n => x.id <= d.id
    BY <1>1, <2>1, <2>2
  <2> QED BY <2>3 DEF CreationNext
<1>3. ASSUME CreationNext(V, n), ~(c.event = "create" /\ c.name = n) PROVE CreationNext(W, n)
  <2>1. PICK x \in Coming(V, "create", n) : \A d \in V : d.name = n => x.id <= d.id
    BY <1>3 DEF CreationNext
  <2>2. x \in Coming(W, "create", n)
    BY <1>1, <1>3, <2>1
  <2> QED BY <2>1, <2>2 DEF CreationNext
<1> QED BY <1>1, <1>2, <1>3

\* An older delivery about a pull request is followed, or still tells the truth.
LEMMA PullsFollowed ==
    ASSUME NEW N \in SUBSET Names, NEW r, NEW L, NEW W, NEW P, PullsInStep(N, r, L, W, P),
           NEW c, Later(W, c), NEW V, V = W \cup {c}, NEW m, c.name = m,
           NEW Q,
           \A n \in N : n # m => Q[n] = P[n],
           c.event = "pull_request" => c.pr = Q[m],
           c.event # "pull_request" => Q = P
    PROVE  PullsInStep(N, r, L, V, Q)
<1>1. CASE c.event = "pull_request"
  <2>1. c \in Coming(V, "pull_request", m)
    BY <1>1, MoreComing
  <2>2. ASSUME NEW d \in V, d.event = "pull_request", d.name \in N
        PROVE  d.pr = Q[d.name] \/ \E e \in Coming(V, "pull_request", d.name) : d.id < e.id
    <3>1. CASE d = c
      BY <1>1, <3>1
    <3>2. CASE d \in W /\ d.name = m
      BY <2>1, <3>2 DEF Later
    <3>3. CASE d \in W /\ d.name # m
      <4>1. d.pr = P[d.name] \/ \E e \in Coming(W, "pull_request", d.name) : d.id < e.id
        BY <2>2, <3>3 DEF PullsInStep
      <4>2. Coming(W, "pull_request", d.name) \subseteq Coming(V, "pull_request", d.name)
        BY MoreComing
      <4> QED BY <2>2, <3>3, <4>1, <4>2
    <3> QED BY <2>2, <3>1, <3>2, <3>3
  <2>3. \A n : n # m => Coming(V, "pull_request", n) = Coming(W, "pull_request", n)
    BY MoreComing
  <2>4. \A n \in N : Coming(V, "pull_request", n) = {} =>
          n # m /\ Coming(W, "pull_request", n) = {} /\ Q[n] = P[n]
    BY <2>1, <2>3
  <2>5. \A n \in N : Coming(V, "pull_request", n) = {} =>
          IF n \in DOMAIN L THEN L[n].pr = Q[n] \/ Handling(r, PullTold, n) ELSE Q[n] = "none"
    BY <2>4 DEF PullsInStep
  <2>6. r.at \in PullTold /\ r.name \in N => r.pr = Q[r.name] \/ Coming(V, "pull_request", r.name) # {}
    BY <2>1, <2>3 DEF PullsInStep
  <2>7. r.at = "pulled" /\ r.name \in N => Q[r.name] = "open" \/ Coming(V, "pull_request", r.name) # {}
    <3>1. CASE r.name = m
      BY <2>1, <3>1
    <3>2. CASE r.at = "pulled" /\ r.name \in N /\ r.name # m
      <4>1. r.name \in N /\ Q[r.name] = P[r.name]
        BY <3>2
      <4> QED BY <2>3, <3>2, <4>1 DEF PullsInStep
    <3> QED BY <3>1, <3>2
  <2> QED BY <2>2, <2>5, <2>6, <2>7 DEF PullsInStep
<1>2. CASE c.event # "pull_request"
  <2>1. \A n : Coming(V, "pull_request", n) = Coming(W, "pull_request", n)
    BY <1>2, MoreComing
  <2>2. \A d \in V : d.event = "pull_request" => d \in W
    BY <1>2
  <2>3. Q = P
    BY <1>2
  <2> QED BY <2>1, <2>2, <2>3 DEF PullsInStep
<1> QED BY <1>1, <1>2

LEMMA MergesFollowed ==
    ASSUME NEW N \in SUBSET Names, NEW r, NEW L, NEW W, NEW P, MergesInStep(N, r, L, W, P),
           NEW c, Later(W, c), NEW V, V = W \cup {c}, NEW m, c.name = m,
           NEW Q, \A n \in N : Q[n] = "merged" =>
                      P[n] = "merged" \/ (n = m /\ c.event = "pull_request" /\ c.pr = "merged")
    PROVE  MergesInStep(N, r, L, V, Q)
<1>1. SUFFICES ASSUME NEW n \in N, Q[n] = "merged"
               PROVE  \/ \E d \in Coming(V, "pull_request", n) : d.pr = "merged"
                      \/ Handling(r, PullTold, n) /\ r.pr = "merged"
                      \/ n \in DOMAIN L /\ L[n].state # "open"
  BY DEF MergesInStep
<1>2. Coming(W, "pull_request", n) \subseteq Coming(V, "pull_request", n)
  BY MoreComing
<1>3. CASE P[n] = "merged"
  BY <1>2, <1>3 DEF MergesInStep
<1>4. CASE n = m /\ c.event = "pull_request" /\ c.pr = "merged"
  <2>1. c \in Coming(V, "pull_request", n)
    BY <1>4, MoreComing
  <2> QED BY <1>4, <2>1
<1> QED BY <1>1, <1>3, <1>4

\* B and P, what GitHub holds, become C and Q: only the branch m is concerned.
LEMMA CreationsFollowed ==
    ASSUME NEW N \in SUBSET Names, NEW r, NEW L, NEW W, NEW B, NEW P, CreationsInStep(N, r, L, W, B, P),
           NEW c, Later(W, c), NEW V, V = W \cup {c}, NEW m, c.name = m,
           NEW C, NEW Q, \A n \in N : n # m => Q[n] = P[n] /\ (n \in C <=> n \in B),
           \/ c.event = "create" /\ m \notin B /\ m \in C /\ Q = P
           \/ c.event = "delete" /\ m \in B
           \/ c.event = "pull_request" /\ C = B /\ (m \in B \/ P[m] # "none")
    PROVE  CreationsInStep(N, r, L, V, C, Q)
<1>1. SUFFICES ASSUME NEW n \in N \ DOMAIN L
               PROVE  /\ ~Handling(r, PullTold \cup {"delete"}, n)
                      /\ Joining(r, V, n) \/ (n \notin C /\ Q[n] = "none" /\ \A d \in V : d.name # n)
                      /\ Joining(r, V, n) => n \in C \/ Coming(V, "delete", n) # {}
                      /\ Handling(r, {"link"}, n) => Joining(r, V, n)
  BY DEF CreationsInStep
<1>2. /\ ~Handling(r, PullTold \cup {"delete"}, n)
      /\ Joining(r, W, n) \/ (n \notin B /\ P[n] = "none" /\ \A d \in W : d.name # n)
      /\ Joining(r, W, n) => n \in B \/ Coming(W, "delete", n) # {}
      /\ Handling(r, {"link"}, n) => Joining(r, W, n)
  BY DEF CreationsInStep
<1>3. /\ Joining(r, W, n) => Joining(r, V, n)
      /\ Joining(r, V, n) /\ ~(c.event = "create" /\ m = n) => Joining(r, W, n)
  BY MoreComing DEF Joining
<1>4. /\ Coming(W, "delete", n) \subseteq Coming(V, "delete", n)
      /\ c.event = "delete" /\ m = n => c \in Coming(V, "delete", n)
  BY MoreComing
<1>5. CASE n # m
  BY <1>2, <1>3, <1>4, <1>5
<1>6. CASE n = m /\ c.event = "create"
  <2>1. Joining(r, V, n)
    <3>1. CASE Joining(r, W, n)
      BY <1>3, <3>1
    <3>2. CASE \A d \in W : d.name # n
      <4>1. c \in Coming(V, "create", n)
        BY <1>6, MoreComing
      <4>2. \A d \in V : d.name = n => c.id <= d.id
        BY <3>2 DEF Later
      <4> QED BY <4>1, <4>2 DEF Joining, CreationNext
    <3> QED BY <1>2, <3>1, <3>2
  <2> QED BY <1>2, <1>6, <2>1
<1>7. CASE n = m /\ c.event = "delete"
  BY <1>2, <1>3, <1>4, <1>7
<1>8. CASE n = m /\ c.event = "pull_request"
  BY <1>2, <1>3, <1>4, <1>8
<1> QED BY <1>5, <1>6, <1>7, <1>8

LEMMA DeletionsFollowed ==
    ASSUME NEW N \in SUBSET Names, NEW r, NEW L, NEW W, NEW B, DeletionsInStep(N, r, L, W, B),
           NEW c, Later(W, c), NEW V, V = W \cup {c}, NEW m, c.name = m,
           NEW C, \A n \in N : n \in B => n \in C \/ (n = m /\ c.event = "delete")
    PROVE  DeletionsInStep(N, r, L, V, C)
<1>1. SUFFICES ASSUME NEW n \in N \cap DOMAIN L, L[n].state = "open"
               PROVE  n \in C \/ Coming(V, "delete", n) # {} \/ Handling(r, {"delete"}, n)
  BY DEF DeletionsInStep
<1>2. n \in B \/ Coming(W, "delete", n) # {} \/ Handling(r, {"delete"}, n)
  BY <1>1 DEF DeletionsInStep
<1>3. /\ Coming(W, "delete", n) \subseteq Coming(V, "delete", n)
      /\ c.event = "delete" /\ m = n => c \in Coming(V, "delete", n)
  BY MoreComing
<1> QED BY <1>2, <1>3

\* What holds of the deliveries that wait.
WaitingRight(W) == \A d \in W : d \in Delivered

LEMMA FollowsCreate ==
    ASSUME NEW N \in SUBSET Names, NEW r, NEW L, NEW W, NEW B, NEW P, InStep(N, r, L, W, B, P),
           NEW c, Later(W, c), c.event = "create", NEW V, V = W \cup {c}, NEW m \in Names, c.name = m, m \notin B
    PROVE  InStep(N, r, L, V, B \cup {m}, P)
<1>2. PullsInStep(N, r, L, V, P)
  BY PullsFollowed DEF InStep
<1>3. MergesInStep(N, r, L, V, P)
  BY MergesFollowed DEF InStep
<1>4. CreationsInStep(N, r, L, V, B \cup {m}, P)
  BY CreationsFollowed DEF InStep
<1>5. DeletionsInStep(N, r, L, V, B \cup {m})
  BY DeletionsFollowed DEF InStep
<1> QED BY <1>2, <1>3, <1>4, <1>5 DEF InStep

LEMMA FollowsDelete ==
    ASSUME NEW N \in SUBSET Names, NEW r, NEW L, NEW W, NEW B, NEW P, InStep(N, r, L, W, B, P),
           NEW c, Later(W, c), c.event = "delete", NEW V, V = W \cup {c}, NEW m \in Names, c.name = m, m \in B
    PROVE  InStep(N, r, L, V, B \ {m}, P)
<1>2. PullsInStep(N, r, L, V, P)
  BY PullsFollowed DEF InStep
<1>3. MergesInStep(N, r, L, V, P)
  BY MergesFollowed DEF InStep
<1>4. CreationsInStep(N, r, L, V, B \ {m}, P)
  BY CreationsFollowed DEF InStep
<1>5. DeletionsInStep(N, r, L, V, B \ {m})
  BY DeletionsFollowed DEF InStep
<1> QED BY <1>2, <1>3, <1>4, <1>5 DEF InStep

LEMMA FollowsPull ==
    ASSUME NEW N \in SUBSET Names, NEW r, NEW L, NEW W, NEW B, NEW P, InStep(N, r, L, W, B, P),
           P \in [Names -> PullStates],
           NEW c, Later(W, c), c.event = "pull_request", NEW V, V = W \cup {c}, NEW m \in Names, c.name = m,
           m \in B \/ P[m] # "none"
    PROVE  InStep(N, r, L, V, B, [P EXCEPT ![m] = c.pr])
<1>2. PICK Q : Q = [P EXCEPT ![m] = c.pr]
  OBVIOUS
<1>3. Q[m] = c.pr /\ \A n \in N : n # m => Q[n] = P[n]
  BY <1>2
<1>4. PullsInStep(N, r, L, V, Q)
  BY <1>3, PullsFollowed DEF InStep
<1>5. MergesInStep(N, r, L, V, Q)
  BY <1>3, MergesFollowed DEF InStep
<1>6. CreationsInStep(N, r, L, V, B, Q)
  BY <1>3, CreationsFollowed DEF InStep
<1>7. DeletionsInStep(N, r, L, V, B)
  BY DeletionsFollowed DEF InStep
<1> QED BY <1>2, <1>4, <1>5, <1>6, <1>7 DEF InStep

-----------------------------------------------------------------------------
(* The queue, and what is left of it *)

LEMMA LeftRight ==
    ASSUME NEW s, NEW kept, NEW n, QueueRight(s, kept, n)
    PROVE  /\ WaitingRight(Left(s, kept))
           /\ \A d \in Left(s, kept) : d.id \in Nat /\ d.id <= n /\ d.name \in Names
<1>1. \A k \in DOMAIN s : s[k] \in Delivered
  BY ElementOfSeq DEF QueueRight
<1>2. \A d \in Left(s, kept) : d \in Delivered /\ d.id <= n
  BY <1>1 DEF QueueRight, Left, Queued
<1> QED BY <1>2 DEF WaitingRight, Delivered

LEMMA OneMoreLeft ==
    ASSUME NEW s, NEW kept, NEW n, QueueRight(s, kept, n), NEW d \in Delivered, d.id = n + 1,
           NEW last, last = Push(s, d)
    PROVE  /\ QueueRight(last, kept, n + 1)
           /\ Left(last, kept) = Left(s, kept) \cup {d} /\ Later(Left(s, kept), d)
<1>1. n \in Nat /\ s \in Seq(Delivered) /\ HooksSorted(s) /\ \A k \in DOMAIN s : s[k].id <= n
  BY DEF QueueRight
<1>2. kept \subseteq Nat /\ \A id \in kept : id <= n
  BY DEF QueueRight
<1>3. \A e \in Queued(s) : e.id \in Nat /\ e.id <= n
  <2>1. \A k \in DOMAIN s : s[k] \in Delivered
    BY <1>1, ElementOfSeq
  <2>2. \A k \in DOMAIN s : s[k].id \in Nat
    BY <2>1 DEF Delivered
  <2> QED BY <1>1, <2>2 DEF Queued
<1>4. \A e \in Queued(s) : e.id < d.id
  BY <1>1, <1>3
<1>5. last \in Seq(Delivered) /\ HooksSorted(last) /\ Queued(last) = Queued(s) \cup {d}
  <2>1. PICK S : S = Delivered
    OBVIOUS
  <2>2. s \in Seq(S) /\ d \in S
    BY <1>1, <2>1
  <2>3. last \in Seq(S) /\ Queued(last) = Queued(s) \cup {d} /\ HooksSorted(last)
    BY <1>1, <1>4, <2>2, QueuedLast
  <2> QED BY <2>1, <2>3
<1>6. \A e \in Queued(last) : e.id <= n + 1
  BY <1>1, <1>3, <1>5
<1>7. \A k \in DOMAIN last : last[k].id <= n + 1
  BY <1>6 DEF Queued
<1>8. QueueRight(last, kept, n + 1)
  <2>1. \A id \in kept : id <= n + 1
    BY <1>1, <1>2
  <2> QED BY <1>1, <1>2, <1>5, <1>7, <2>1 DEF QueueRight
<1>9. d.id \notin kept
  BY <1>1, <1>2
<1>10. Left(last, kept) = Left(s, kept) \cup {d}
  BY <1>5, <1>9 DEF Left
<1>11. Later(Left(s, kept), d)
  BY <1>1, <1>3, <1>4 DEF Left, Later
<1> QED BY <1>8, <1>10, <1>11

\* A delivery is kept, and taken off the queue if GitHub has the answer.
LEMMA OneLessLeft ==
    ASSUME NEW s, NEW kept, NEW n, QueueRight(s, kept, n), NEW k \in DOMAIN s,
           NEW t, t = s \/ t = Taken(s, k), NEW more, \A id : id \in more <=> id \in kept \/ id = s[k].id
    PROVE  /\ s[k] \in Delivered /\ QueueRight(t, more, n)
           /\ s[k].id \in kept => Left(t, more) = Left(s, kept)
           /\ s[k].id \notin kept => s[k] \in Left(s, kept) /\ Left(t, more) = Left(s, kept) \ {s[k]}
           /\ s[k].id \notin kept /\ (\A j \in 1 .. k - 1 : s[j].id \in kept) =>
                 \A d \in Left(t, more) : s[k].id < d.id
<1>1. n \in Nat /\ s \in Seq(Delivered) /\ HooksSorted(s) /\ \A j \in DOMAIN s : s[j].id <= n
  BY DEF QueueRight
<1>2. kept \subseteq Nat /\ \A id \in kept : id <= n
  BY DEF QueueRight
<1>3. \A j \in DOMAIN s : s[j] \in Delivered /\ s[j].id \in Nat
  <2>1. \A j \in DOMAIN s : s[j] \in Delivered
    BY <1>1, ElementOfSeq
  <2> QED BY <2>1 DEF Delivered
<1>4. DOMAIN s = 1 .. Len(s) /\ Len(s) \in Nat
  BY <1>1
<1>5. /\ t \in Seq(Delivered) /\ HooksSorted(t)
      /\ {s[j] : j \in DOMAIN s \ {k}} \subseteq Queued(t) /\ Queued(t) \subseteq Queued(s)
  <2>1. CASE t = s
    BY <1>1, <2>1 DEF Queued
  <2>2. CASE t = Taken(s, k)
    <3>1. PICK S : S = Delivered
      OBVIOUS
    <3>2. s \in Seq(S)
      BY <1>1, <3>1
    <3>3. /\ t \in Seq(S) /\ HooksSorted(t)
          /\ Queued(t) = {s[j] : j \in DOMAIN s \ {k}}
      BY <1>1, <2>2, <3>2, QueuedTaken
    <3>4. {s[j] : j \in DOMAIN s \ {k}} \subseteq Queued(s)
      BY DEF Queued
    <3> QED BY <3>1, <3>3, <3>4
  <2> QED BY <2>1, <2>2
<1>6. \A j \in DOMAIN s : j # k => s[j].id # s[k].id
  <2>1. SUFFICES ASSUME NEW j \in DOMAIN s, j # k PROVE s[j].id # s[k].id
    OBVIOUS
  <2>2. j < k \/ k < j
    BY <1>4, <2>1
  <2>3. s[j].id < s[k].id \/ s[k].id < s[j].id
    BY <1>1, <2>2 DEF HooksSorted
  <2> QED BY <1>3, <2>3
<1>7. Left(t, more) = {s[j] : j \in {i \in DOMAIN s \ {k} : s[i].id \notin kept}}
  <2>1. ASSUME NEW d \in Left(t, more)
        PROVE  \E j \in DOMAIN s \ {k} : s[j].id \notin kept /\ d = s[j]
    BY <1>5 DEF Left, Queued
  <2>2. ASSUME NEW j \in DOMAIN s \ {k}, s[j].id \notin kept PROVE s[j] \in Left(t, more)
    BY <1>5, <1>6, <2>2 DEF Left
  <2> QED BY <2>1, <2>2
<1>8. QueueRight(t, more, n)
  <2>1. \A d \in Queued(t) : d.id <= n
    BY <1>1, <1>5 DEF Queued
  <2>2. \A j \in DOMAIN t : t[j].id <= n
    BY <2>1 DEF Queued
  <2>3. more \subseteq Nat /\ \A id \in more : id <= n
    BY <1>1, <1>2, <1>3
  <2> QED BY <1>1, <1>5, <2>2, <2>3 DEF QueueRight
<1>9. ASSUME s[k].id \in kept PROVE Left(t, more) = Left(s, kept)
  <2>1. \A d : d \in Left(s, kept) <=> \E j \in DOMAIN s \ {k} : s[j].id \notin kept /\ d = s[j]
    BY <1>9 DEF Left, Queued
  <2> QED BY <1>7, <2>1
<1>10. ASSUME s[k].id \notin kept
       PROVE  s[k] \in Left(s, kept) /\ Left(t, more) = Left(s, kept) \ {s[k]}
  <2>1. s[k] \in Left(s, kept)
    BY <1>10 DEF Left, Queued
  <2>2. ASSUME NEW d \in Left(s, kept), d # s[k] PROVE d \in Left(t, more)
    BY <1>7, <2>2 DEF Left, Queued
  <2>3. ASSUME NEW d \in Left(t, more) PROVE d \in Left(s, kept) /\ d # s[k]
    BY <1>6, <1>7 DEF Left, Queued
  <2> QED BY <2>1, <2>2, <2>3
<1>11. ASSUME s[k].id \notin kept, \A j \in 1 .. k - 1 : s[j].id \in kept, NEW d \in Left(t, more)
       PROVE  s[k].id < d.id
  <2>1. PICK j \in DOMAIN s \ {k} : s[j].id \notin kept /\ d = s[j]
    BY <1>7
  <2>2. k < j
    BY <1>4, <1>11, <2>1
  <2> QED BY <1>1, <2>1, <2>2 DEF HooksSorted
<1> QED BY <1>3, <1>8, <1>9, <1>10, <1>11

-----------------------------------------------------------------------------
(* A step of GitHub's, made by people or by a request that holds r *)

\* What a step of GitHub's keeps.
GithubFollows(r) ==
    /\ GithubRight'
    /\ \A N \in SUBSET Names : InStep(N, r, links, Waiting, ghBranches, ghPull) =>
                               InStep(N, r, links, Waiting', ghBranches', ghPull')

LEMMA DeliveryRight ==
    ASSUME emitted \in Nat, NEW k \in Nat, NEW event \in {"create", "delete", "pull_request"},
           NEW n \in Names, NEW pr \in PullStates
    PROVE  LET d == Delivery(k, event, n, pr)
           IN  d \in Delivered /\ d.id = emitted + k /\ d.event = event /\ d.name = n /\ d.pr = pr
BY DEF Delivery, Delivered

LEMMA CreationFollows ==
    ASSUME LinksRight, GithubRight, NEW r, NEW n \in Names, GhCreates(n), stored' = stored
    PROVE  GithubFollows(r)
<1>1. QueueRight(hooks, stored, emitted) /\ emitted \in Nat /\ ghBranches \subseteq Names
  BY DEF GithubRight, QueueRight
<1>2. PICK d : d = Delivery(1, "create", n, "none")
  OBVIOUS
<1>3. d \in Delivered /\ d.id = emitted + 1 /\ d.event = "create" /\ d.name = n
  BY <1>1, <1>2, DeliveryRight DEF PullStates
<1>4. hooks' = Push(hooks, d) /\ emitted' = emitted + 1
  <2>1. hooks' = hooks \o <<d>> /\ emitted' = emitted + Len(<<d>>)
    BY <1>2 DEF GhCreates, Emits
  <2> QED BY <2>1 DEF Push
<1>5. n \notin ghBranches /\ ghBranches' = ghBranches \cup {n} /\ ghPull' = ghPull
  BY DEF GhCreates
<1>6. /\ QueueRight(hooks', stored, emitted + 1)
      /\ Left(hooks', stored) = Left(hooks, stored) \cup {d} /\ Later(Left(hooks, stored), d)
  BY <1>1, <1>3, <1>4, OneMoreLeft
<1>7. GithubRight'
  BY <1>1, <1>4, <1>5, <1>6 DEF GithubRight
<1>8. WaitingRight(Waiting)
  BY <1>1, LeftRight DEF Waiting
<1>9. Waiting' = Waiting \cup {d} /\ Later(Waiting, d)
  BY <1>6 DEF Waiting
<1>10. ASSUME NEW N \in SUBSET Names, InStep(N, r, links, Waiting, ghBranches, ghPull)
       PROVE  InStep(N, r, links, Waiting', ghBranches', ghPull')
  <2>1. InStep(N, r, links, Waiting', ghBranches \cup {n}, ghPull)
    BY <1>3, <1>5, <1>8, <1>9, <1>10, FollowsCreate
  <2> QED BY <1>5, <2>1
<1> QED BY <1>7, <1>10 DEF GithubFollows

LEMMA PullFollows ==
    ASSUME LinksRight, GithubRight, NEW r, NEW n \in Names, NEW pr \in PullStates,
           GhPulls(n, pr), n \in ghBranches \/ ghPull[n] # "none", stored' = stored
    PROVE  GithubFollows(r)
<1>1. /\ QueueRight(hooks, stored, emitted) /\ emitted \in Nat /\ ghBranches \subseteq Names
      /\ ghPull \in [Names -> PullStates]
  BY DEF GithubRight, QueueRight
<1>2. PICK d : d = Delivery(1, "pull_request", n, pr)
  OBVIOUS
<1>3. d \in Delivered /\ d.id = emitted + 1 /\ d.event = "pull_request" /\ d.name = n /\ d.pr = pr
  BY <1>1, <1>2, DeliveryRight
<1>4. hooks' = Push(hooks, d) /\ emitted' = emitted + 1
  <2>1. hooks' = hooks \o <<d>> /\ emitted' = emitted + Len(<<d>>)
    BY <1>2 DEF GhPulls, Emits
  <2> QED BY <2>1 DEF Push
<1>5. ghBranches' = ghBranches /\ ghPull' = [ghPull EXCEPT ![n] = pr]
  BY DEF GhPulls
<1>6. /\ QueueRight(hooks', stored, emitted + 1)
      /\ Left(hooks', stored) = Left(hooks, stored) \cup {d} /\ Later(Left(hooks, stored), d)
  BY <1>1, <1>3, <1>4, OneMoreLeft
<1>7. GithubRight'
  <2>1. ghPull' \in [Names -> PullStates]
    BY <1>1, <1>5
  <2> QED BY <1>1, <1>4, <1>5, <1>6, <2>1 DEF GithubRight
<1>8. WaitingRight(Waiting)
  BY <1>1, LeftRight DEF Waiting
<1>9. Waiting' = Waiting \cup {d} /\ Later(Waiting, d)
  BY <1>6 DEF Waiting
<1>10. ASSUME NEW N \in SUBSET Names, InStep(N, r, links, Waiting, ghBranches, ghPull)
       PROVE  InStep(N, r, links, Waiting', ghBranches', ghPull')
  <2>1. InStep(N, r, links, Waiting', ghBranches, [ghPull EXCEPT ![n] = d.pr])
    BY <1>1, <1>3, <1>8, <1>9, <1>10, FollowsPull
  <2> QED BY <1>3, <1>5, <2>1
<1> QED BY <1>7, <1>10 DEF GithubFollows

LEMMA DeletionFollows ==
    ASSUME LinksRight, GithubRight, NEW r, NEW n \in Names, GhDeletes(n), stored' = stored
    PROVE  GithubFollows(r)
<1>1. /\ QueueRight(hooks, stored, emitted) /\ emitted \in Nat /\ ghBranches \subseteq Names
      /\ ghPull \in [Names -> PullStates] /\ hooks \in Seq(Delivered)
  BY DEF GithubRight, QueueRight
<1>2. n \in ghBranches /\ ghBranches' = ghBranches \ {n}
  BY DEF GhDeletes
<1>3. WaitingRight(Waiting)
  BY <1>1, LeftRight DEF Waiting
<1>4. CASE ghPull[n] # "open"
  <2>1. PICK d : d = Delivery(1, "delete", n, "none")
    OBVIOUS
  <2>2. d \in Delivered /\ d.id = emitted + 1 /\ d.event = "delete" /\ d.name = n
    BY <1>1, <2>1, DeliveryRight DEF PullStates
  <2>3. hooks' = Push(hooks, d) /\ emitted' = emitted + 1 /\ ghPull' = ghPull
    <3>1. hooks' = hooks \o <<d>> /\ emitted' = emitted + Len(<<d>>) /\ ghPull' = ghPull
      BY <1>4, <2>1 DEF GhDeletes, Emits
    <3> QED BY <3>1 DEF Push
  <2>4. /\ QueueRight(hooks', stored, emitted + 1)
        /\ Left(hooks', stored) = Left(hooks, stored) \cup {d} /\ Later(Left(hooks, stored), d)
    BY <1>1, <2>2, <2>3, OneMoreLeft
  <2>5. GithubRight'
    BY <1>1, <1>2, <2>3, <2>4 DEF GithubRight
  <2>6. Waiting' = Waiting \cup {d} /\ Later(Waiting, d)
    BY <2>4 DEF Waiting
  <2>7. ASSUME NEW N \in SUBSET Names, InStep(N, r, links, Waiting, ghBranches, ghPull)
        PROVE  InStep(N, r, links, Waiting', ghBranches', ghPull')
    <3>1. InStep(N, r, links, Waiting', ghBranches \ {n}, ghPull)
      BY <1>2, <1>3, <2>2, <2>6, <2>7, FollowsDelete
    <3> QED BY <1>2, <2>3, <3>1
  <2> QED BY <2>5, <2>7 DEF GithubFollows
<1>5. CASE ghPull[n] = "open"
  <2>1. PICK c : c = Delivery(1, "pull_request", n, "closed")
    OBVIOUS
  <2>2. PICK d : d = Delivery(2, "delete", n, "none")
    OBVIOUS
  <2>3. c \in Delivered /\ c.id = emitted + 1 /\ c.event = "pull_request" /\ c.name = n /\ c.pr = "closed"
    BY <1>1, <2>1, DeliveryRight DEF PullStates
  <2>4. d \in Delivered /\ d.id = emitted + 2 /\ d.event = "delete" /\ d.name = n
    BY <1>1, <2>2, DeliveryRight DEF PullStates
  <2>5. PICK first : first = Push(hooks, c)
    OBVIOUS
  <2>6. hooks' = Push(first, d) /\ emitted' = emitted + 2 /\ ghPull' = [ghPull EXCEPT ![n] = "closed"]
    <3>1. /\ hooks' = hooks \o <<c, d>> /\ emitted' = emitted + Len(<<c, d>>)
          /\ ghPull' = [ghPull EXCEPT ![n] = "closed"]
      BY <1>5, <2>1, <2>2 DEF GhDeletes, Emits
    <3>2. <<c, d>> = <<c>> \o <<d>>
      OBVIOUS
    <3>3. <<c>> \in Seq(Delivered) /\ <<d>> \in Seq(Delivered)
      BY <2>3, <2>4
    <3>4. hooks \o (<<c>> \o <<d>>) = (hooks \o <<c>>) \o <<d>>
      BY <1>1, <3>3, ConcatAssociative
    <3> QED BY <2>5, <3>1, <3>2, <3>4 DEF Push
  <2>7. PICK mid \in Nat : mid = emitted + 1
    BY <1>1
  <2>8. /\ QueueRight(first, stored, mid)
        /\ Left(first, stored) = Left(hooks, stored) \cup {c} /\ Later(Left(hooks, stored), c)
    BY <1>1, <2>3, <2>5, <2>7, OneMoreLeft
  <2>9. d.id = mid + 1 /\ emitted' = mid + 1
    BY <1>1, <2>4, <2>6, <2>7
  <2>10. /\ QueueRight(hooks', stored, mid + 1)
        /\ Left(hooks', stored) = Left(first, stored) \cup {d} /\ Later(Left(first, stored), d)
    <3>1. QueueRight(first, stored, mid)
      BY <2>8
    <3>2. PICK last : last = Push(first, d) /\ last = hooks'
      BY <2>6
    <3>3. /\ QueueRight(last, stored, mid + 1)
          /\ Left(last, stored) = Left(first, stored) \cup {d} /\ Later(Left(first, stored), d)
      BY <2>4, <2>9, <3>1, <3>2, OneMoreLeft
    <3> QED BY <3>2, <3>3
  <2>11. GithubRight'
    <3>1. ghPull' \in [Names -> PullStates]
      BY <1>1, <2>6 DEF PullStates
    <3> QED BY <1>1, <1>2, <2>9, <2>10, <3>1 DEF GithubRight
  <2>12. PICK W : W = Left(first, stored)
    OBVIOUS
  <2>13. W = Waiting \cup {c} /\ Later(Waiting, c) /\ Waiting' = W \cup {d} /\ Later(W, d)
    BY <2>8, <2>10, <2>12 DEF Waiting
  <2>14. ASSUME NEW N \in SUBSET Names, InStep(N, r, links, Waiting, ghBranches, ghPull)
         PROVE  InStep(N, r, links, Waiting', ghBranches', ghPull')
    <3>1. PICK Q : Q = [ghPull EXCEPT ![n] = c.pr]
      OBVIOUS
    <3>2. InStep(N, r, links, W, ghBranches, Q)
      BY <1>1, <1>2, <1>3, <2>3, <2>13, <2>14, <3>1, FollowsPull
    <3>3. WaitingRight(W)
      BY <1>3, <2>3, <2>13 DEF WaitingRight
    <3>4. InStep(N, r, links, Waiting', ghBranches \ {n}, Q)
      BY <1>2, <2>4, <2>13, <3>2, <3>3, FollowsDelete
    <3> QED BY <1>2, <2>3, <2>6, <3>1, <3>4
  <2> QED BY <2>11, <2>14 DEF GithubFollows
<1> QED BY <1>4, <1>5

-----------------------------------------------------------------------------
(* What HQ does keeps it in step: L are its links, W the deliveries left. *)

\* Of fewer names, the less is said ...
LEMMA FewerInStep ==
    ASSUME NEW N, NEW M, M \subseteq N, NEW r, NEW L, NEW W, NEW B, NEW P, InStep(N, r, L, W, B, P)
    PROVE  InStep(M, r, L, W, B, P)
<1>1. PullsInStep(M, r, L, W, P)
  BY DEF InStep, PullsInStep
<1>2. MergesInStep(M, r, L, W, P)
  BY DEF InStep, MergesInStep
<1>3. CreationsInStep(M, r, L, W, B, P)
  BY DEF InStep, CreationsInStep
<1>4. DeletionsInStep(M, r, L, W, B)
  BY DEF InStep, DeletionsInStep
<1> QED BY <1>1, <1>2, <1>3, <1>4 DEF InStep

\* ... and what happens to another's link or delivery is no matter.
LEMMA OffRecord ==
    ASSUME NEW N, NEW r, NEW s, NEW L, NEW W, NEW B, NEW P, InStep(N, r, L, W, B, P),
           r.at \in Telling => r.name \notin N, s.at \in Telling \cup {"pulled", "link"} => s.name \notin N,
           NEW K, \A n \in N : (n \in DOMAIN K <=> n \in DOMAIN L) /\ (n \in DOMAIN L => K[n] = L[n]),
           NEW V, \A d : d.name \in N => (d \in V <=> d \in W)
    PROVE  InStep(N, s, K, V, B, P)
<1>1. /\ \A n \in N : ~Handling(r, PullTold, n) /\ ~Handling(s, PullTold, n)
      /\ \A n \in N : ~Handling(r, {"delete"}, n) /\ ~Handling(s, {"delete"}, n)
      /\ \A n \in N : ~Handling(r, {"create", "recognise"}, n) /\ ~Handling(s, {"create", "recognise"}, n)
      /\ \A n \in N : ~Handling(s, PullTold \cup {"delete"}, n) /\ ~Handling(s, {"link"}, n)
  BY DEF Handling, PullTold, Telling
<1>2. \A event, n : n \in N => Coming(V, event, n) = Coming(W, event, n)
  BY DEF Coming
<1>3. \A n \in N : CreationNext(V, n) <=> CreationNext(W, n)
  BY <1>2 DEF CreationNext
<1>4. \A n \in N : Joining(s, V, n) <=> Joining(r, W, n)
  BY <1>1, <1>3 DEF Joining
<1>5. PullsInStep(N, s, K, V, P)
  <2>1. \A d \in V : d.event = "pull_request" /\ d.name \in N =>
          d.pr = P[d.name] \/ \E e \in Coming(V, "pull_request", d.name) : d.id < e.id
    BY <1>2 DEF InStep, PullsInStep
  <2>2. s.name \in N => s.at \notin PullTold /\ s.at # "pulled"
    BY DEF PullTold, Telling
  <2>3. \A n \in N : Coming(V, "pull_request", n) = {} =>
          IF n \in DOMAIN K THEN K[n].pr = P[n] ELSE P[n] = "none"
    BY <1>1, <1>2 DEF InStep, PullsInStep
  <2> QED BY <2>1, <2>2, <2>3 DEF PullsInStep
<1>6. MergesInStep(N, s, K, V, P)
  BY <1>1, <1>2 DEF InStep, MergesInStep
<1>7. CreationsInStep(N, s, K, V, B, P)
  <2>1. SUFFICES ASSUME NEW n \in N \ DOMAIN K
                 PROVE  /\ Joining(s, V, n) \/ (n \notin B /\ P[n] = "none" /\ \A d \in V : d.name # n)
                        /\ Joining(s, V, n) => n \in B \/ Coming(V, "delete", n) # {}
    BY <1>1 DEF CreationsInStep
  <2>2. /\ Joining(r, W, n) \/ (n \notin B /\ P[n] = "none" /\ \A d \in W : d.name # n)
        /\ Joining(r, W, n) => n \in B \/ Coming(W, "delete", n) # {}
    BY DEF InStep, CreationsInStep
  <2> QED BY <1>2, <1>4, <2>2
<1>8. DeletionsInStep(N, s, K, V, B)
  BY <1>1, <1>2 DEF InStep, DeletionsInStep
<1> QED BY <1>5, <1>6, <1>7, <1>8 DEF InStep

\* A request that tells of nothing goes on.
LEMMA RequestGoesOn ==
    ASSUME NEW N, NEW r, NEW s, NEW L, NEW W, NEW B, NEW P, InStep(N, r, L, W, B, P),
           r.at \notin Telling, s.at \notin Telling,
           s.at = "pulled" => P[s.name] = "open", s.at = "link" => s.name \in B
    PROVE  InStep(N, s, L, W, B, P)
<1>1. /\ \A n : ~Handling(r, PullTold, n) /\ ~Handling(s, PullTold, n)
      /\ \A n : ~Handling(r, {"delete"}, n) /\ ~Handling(s, {"delete"}, n)
      /\ \A n : ~Handling(r, {"create", "recognise"}, n) /\ ~Handling(s, {"create", "recognise"}, n)
      /\ \A n : ~Handling(s, PullTold \cup {"delete"}, n)
  BY DEF Handling, PullTold, Telling
<1>2. s.at \notin PullTold
  BY DEF PullTold, Telling
<1>3. \A n : Joining(r, W, n) <=> Joining(s, W, n)
  BY <1>1 DEF Joining
<1>4. PullsInStep(N, s, L, W, P)
  BY <1>1, <1>2 DEF InStep, PullsInStep
<1>5. MergesInStep(N, s, L, W, P)
  BY <1>1 DEF InStep, MergesInStep
<1>6. CreationsInStep(N, s, L, W, B, P)
  <2>1. \A n \in N \ DOMAIN L : Handling(s, {"link"}, n) => n \in B
    BY DEF Handling
  <2>2. \A n \in N \ DOMAIN L :
          /\ Joining(s, W, n) \/ (n \notin B /\ P[n] = "none" /\ \A d \in W : d.name # n)
          /\ Joining(s, W, n) => n \in B \/ Coming(W, "delete", n) # {}
    BY <1>3 DEF InStep, CreationsInStep
  <2> QED BY <1>1, <2>1, <2>2 DEF CreationsInStep
<1>7. DeletionsInStep(N, s, L, W, B)
  BY <1>1 DEF InStep, DeletionsInStep
<1> QED BY <1>4, <1>5, <1>6, <1>7 DEF InStep

\* A delivery is taken in: it is in hand, and no more coming.
LEMMA DeliveryTaken ==
    ASSUME NEW N, NEW r, NEW s, NEW L, NEW W, NEW B, NEW P, InStep(N, r, L, W, B, P),
           r.at = "idle", NEW d \in W, WaitingRight(W), NEW V, V = W \ {d},
           \A e \in V : d.id < e.id, s.at = d.event, s.name = d.name, s.pr = d.pr
    PROVE  InStep(N, s, L, V, B, P)
<1>1. /\ d.event \in {"create", "delete", "pull_request"} /\ d.name \in Names
      /\ \A e \in W : e.id \in Nat /\ e.name \in Names
  BY DEF WaitingRight, Delivered
<1>2. /\ \A event, n : Coming(V, event, n) \subseteq Coming(W, event, n)
      /\ \A event, n : ~(d.event = event /\ d.name = n) => Coming(V, event, n) = Coming(W, event, n)
      /\ \A event, n : \A e \in Coming(W, event, n) : e = d \/ e \in Coming(V, event, n)
  BY DEF Coming
<1>3. /\ \A n : ~Handling(r, PullTold, n)
      /\ \A n : ~Handling(r, {"delete"}, n)
      /\ \A n : ~Handling(r, {"create", "recognise"}, n)
  BY DEF Handling, PullTold
<1>4. d.name \in N /\ d.name \notin DOMAIN L => d.event = "create"
  <2>1. SUFFICES ASSUME d.name \in N, d.name \notin DOMAIN L PROVE d.event = "create"
    OBVIOUS
  <2>2. CreationNext(W, d.name)
    BY <1>1, <1>3, <2>1 DEF InStep, CreationsInStep, Joining
  <2>3. PICK c \in Coming(W, "create", d.name) : c.id <= d.id
    BY <2>2 DEF CreationNext
  <2>4. c \in W /\ c.event = "create"
    BY DEF Coming
  <2>5. c \notin V
    BY <1>1, <2>3, <2>4
  <2> QED BY <2>4, <2>5
<1>5. PullsInStep(N, s, L, V, P)
  <2>1. ASSUME NEW e \in V, e.event = "pull_request", e.name \in N
        PROVE  e.pr = P[e.name] \/ \E f \in Coming(V, "pull_request", e.name) : e.id < f.id
    <3>1. CASE e.pr = P[e.name]
      BY <3>1
    <3>2. CASE e.pr # P[e.name]
      <4>1. PICK f \in Coming(W, "pull_request", e.name) : e.id < f.id
        BY <2>1, <3>2 DEF InStep, PullsInStep
      <4>2. f # d
        BY <1>1, <2>1, <4>1
      <4> QED BY <1>2, <4>1, <4>2
    <3> QED BY <3>1, <3>2
  <2>2. s.at \in PullTold /\ s.name \in N => s.pr = P[s.name] \/ Coming(V, "pull_request", s.name) # {}
    <3>1. SUFFICES ASSUME s.at \in PullTold, s.name \in N, s.pr # P[s.name] PROVE Coming(V, "pull_request", s.name) # {}
      OBVIOUS
    <3>2. d.event = "pull_request"
      BY <1>1, <3>1 DEF PullTold
    <3>3. PICK f \in Coming(W, "pull_request", d.name) : d.id < f.id
      BY <3>1, <3>2 DEF InStep, PullsInStep
    <3>4. f # d
      BY <1>1, <3>3
    <3> QED BY <1>2, <3>3, <3>4
  <2>3. s.at # "pulled"
    BY <1>1
  <2>4. ASSUME NEW n \in N, Coming(V, "pull_request", n) = {}
        PROVE  IF n \in DOMAIN L THEN L[n].pr = P[n] \/ Handling(s, PullTold, n) ELSE P[n] = "none"
    <3>1. CASE d.event = "pull_request" /\ d.name = n
      <4>1. Handling(s, PullTold, n)
        BY <3>1 DEF Handling, PullTold
      <4> QED BY <1>4, <3>1, <4>1
    <3>2. CASE ~(d.event = "pull_request" /\ d.name = n)
      <4>1. Coming(W, "pull_request", n) = {}
        BY <1>2, <2>4, <3>2
      <4> QED BY <1>3, <4>1 DEF InStep, PullsInStep
    <3> QED BY <3>1, <3>2
  <2> QED BY <2>1, <2>2, <2>3, <2>4 DEF PullsInStep
<1>6. MergesInStep(N, s, L, V, P)
  <2>1. SUFFICES ASSUME NEW n \in N, P[n] = "merged"
                 PROVE  \/ \E e \in Coming(V, "pull_request", n) : e.pr = "merged"
                        \/ Handling(s, PullTold, n) /\ s.pr = "merged"
                        \/ n \in DOMAIN L /\ L[n].state # "open"
    BY DEF MergesInStep
  <2>2. CASE n \in DOMAIN L /\ L[n].state # "open"
    BY <2>2
  <2>3. CASE \E e \in Coming(W, "pull_request", n) : e.pr = "merged"
    <3>1. PICK e \in Coming(W, "pull_request", n) : e.pr = "merged"
      BY <2>3
    <3>2. CASE e = d
      <4>1. d.event = "pull_request" /\ d.name = n
        BY <3>1, <3>2 DEF Coming
      <4> QED BY <3>1, <3>2, <4>1 DEF Handling, PullTold
    <3>3. CASE e # d
      BY <1>2, <3>1, <3>3
    <3> QED BY <3>2, <3>3
  <2> QED BY <1>3, <2>1, <2>2, <2>3 DEF InStep, MergesInStep
<1>7. CreationsInStep(N, s, L, V, B, P)
  <2>1. SUFFICES ASSUME NEW n \in N \ DOMAIN L
                 PROVE  /\ ~Handling(s, PullTold \cup {"delete"}, n)
                        /\ Joining(s, V, n) \/ (n \notin B /\ P[n] = "none" /\ \A e \in V : e.name # n)
                        /\ Joining(s, V, n) => n \in B \/ Coming(V, "delete", n) # {}
                        /\ Handling(s, {"link"}, n) => Joining(s, V, n)
    BY DEF CreationsInStep
  <2>2. /\ CreationNext(W, n) \/ (n \notin B /\ P[n] = "none" /\ \A e \in W : e.name # n)
        /\ CreationNext(W, n) => n \in B \/ Coming(W, "delete", n) # {}
    BY <1>3 DEF InStep, CreationsInStep, Joining
  <2>3. ~Handling(s, {"link"}, n)
    BY <1>1 DEF Handling
  <2>4. CASE d.name # n
    <3>1. CreationNext(W, n) => CreationNext(V, n)
      BY <1>2, <2>4 DEF CreationNext
    <3>2. CreationNext(V, n) => CreationNext(W, n)
      <4>1. \A e \in W : e.name = n => e \in V
        BY <2>4
      <4> QED BY <1>2, <2>4, <4>1 DEF CreationNext
    <3>3. /\ ~Handling(s, PullTold \cup {"delete"}, n)
          /\ ~Handling(s, {"create", "recognise"}, n)
      BY <2>4 DEF Handling
    <3>4. Coming(V, "delete", n) = Coming(W, "delete", n)
      BY <1>2, <2>4
    <3> QED BY <2>2, <2>3, <3>1, <3>2, <3>3, <3>4 DEF Joining
  <2>5. CASE d.name = n
    <3>1. d.event = "create"
      BY <1>4, <2>1, <2>5
    <3>2. Handling(s, {"create", "recognise"}, n) /\ ~Handling(s, PullTold \cup {"delete"}, n)
      BY <2>5, <3>1 DEF Handling, PullTold
    <3>3. Coming(V, "delete", n) = Coming(W, "delete", n)
      BY <1>2, <3>1
    <3>4. CreationNext(W, n)
      BY <2>2, <2>5
    <3> QED BY <2>2, <2>3, <3>2, <3>3, <3>4 DEF Joining
  <2> QED BY <2>4, <2>5
<1>8. DeletionsInStep(N, s, L, V, B)
  <2>1. SUFFICES ASSUME NEW n \in N \cap DOMAIN L, L[n].state = "open"
                 PROVE  n \in B \/ Coming(V, "delete", n) # {} \/ Handling(s, {"delete"}, n)
    BY DEF DeletionsInStep
  <2>2. n \in B \/ Coming(W, "delete", n) # {}
    BY <1>3, <2>1 DEF InStep, DeletionsInStep
  <2>3. CASE d.event = "delete" /\ d.name = n
    BY <2>3 DEF Handling
  <2>4. CASE ~(d.event = "delete" /\ d.name = n)
    BY <1>2, <2>2, <2>4
  <2> QED BY <2>3, <2>4
<1> QED BY <1>5, <1>6, <1>7, <1>8 DEF InStep

\* The request in hand goes on with the delivery it was told.
LEMMA DeliveryGoesOn ==
    ASSUME NEW N, NEW r, NEW s, NEW L, NEW W, NEW B, NEW P, InStep(N, r, L, W, B, P),
           s.name = r.name, s.pr = r.pr,
           \/ r.at = "pull_request" /\ s.at = "mirror"
           \/ r.at = "create" /\ s.at = "recognise"
    PROVE  InStep(N, s, L, W, B, P)
<1>1. /\ \A n : Handling(r, PullTold, n) <=> Handling(s, PullTold, n)
      /\ \A n : Handling(r, {"delete"}, n) <=> Handling(s, {"delete"}, n)
      /\ \A n : Handling(r, {"create", "recognise"}, n) <=> Handling(s, {"create", "recognise"}, n)
      /\ \A n : Handling(r, PullTold \cup {"delete"}, n) <=> Handling(s, PullTold \cup {"delete"}, n)
      /\ \A n : ~Handling(s, {"link"}, n)
  BY DEF Handling, PullTold
<1>2. s.at # "pulled" /\ (s.at \in PullTold <=> r.at \in PullTold)
  BY DEF PullTold
<1>3. \A n : Joining(r, W, n) <=> Joining(s, W, n)
  BY <1>1 DEF Joining
<1>4. PullsInStep(N, s, L, W, P)
  BY <1>1, <1>2 DEF InStep, PullsInStep
<1>5. MergesInStep(N, s, L, W, P)
  BY <1>1 DEF InStep, MergesInStep
<1>6. CreationsInStep(N, s, L, W, B, P)
  BY <1>1, <1>3 DEF InStep, CreationsInStep
<1>7. DeletionsInStep(N, s, L, W, B)
  BY <1>1 DEF InStep, DeletionsInStep
<1> QED BY <1>4, <1>5, <1>6, <1>7 DEF InStep

\* A branch is linked.
LEMMA LinkAdded ==
    ASSUME NEW N, NEW r, NEW s, NEW L, NEW W, NEW B, NEW P, InStep(N, r, L, W, B, P),
           r.at \in {"recognise", "link"}, r.name \notin DOMAIN L,
           s.at \notin Telling \cup {"pulled", "link"},
           NEW K, DOMAIN K = DOMAIN L \cup {r.name}, \A n \in DOMAIN L : K[n] = L[n],
           K[r.name].pr = "none"
    PROVE  InStep(N, s, K, W, B, P)
<1>1. /\ \A n : ~Handling(r, PullTold, n) /\ ~Handling(s, PullTold, n)
      /\ \A n : ~Handling(r, {"delete"}, n) /\ ~Handling(s, {"delete"}, n)
      /\ \A n : ~Handling(s, {"create", "recognise"}, n) /\ ~Handling(s, {"link"}, n)
      /\ \A n : ~Handling(s, PullTold \cup {"delete"}, n)
      /\ \A n : n # r.name => ~Handling(r, {"create", "recognise"}, n) /\ ~Handling(r, {"link"}, n)
  BY DEF Handling, PullTold, Telling
<1>2. s.at \notin PullTold \cup {"pulled"}
  BY DEF PullTold, Telling
<1>3. \A n : n # r.name => (Joining(r, W, n) <=> Joining(s, W, n))
  BY <1>1 DEF Joining
<1>4. r.name \in N => Joining(r, W, r.name)
  <2>1. CASE r.at = "recognise"
    BY <2>1 DEF Joining, Handling
  <2>2. CASE r.at = "link"
    BY <2>2 DEF InStep, CreationsInStep, Handling
  <2> QED BY <2>1, <2>2
<1>5. PullsInStep(N, s, K, W, P)
  <2>1. ASSUME NEW n \in N, Coming(W, "pull_request", n) = {}
        PROVE  IF n \in DOMAIN K THEN K[n].pr = P[n] \/ Handling(s, PullTold, n) ELSE P[n] = "none"
    <3>1. IF n \in DOMAIN L THEN L[n].pr = P[n] ELSE P[n] = "none"
      BY <1>1, <2>1 DEF InStep, PullsInStep
    <3> QED BY <3>1
  <2>2. \A d \in W : d.event = "pull_request" /\ d.name \in N =>
          d.pr = P[d.name] \/ \E e \in Coming(W, "pull_request", d.name) : d.id < e.id
    BY DEF InStep, PullsInStep
  <2> QED BY <1>2, <2>1, <2>2 DEF PullsInStep
<1>6. MergesInStep(N, s, K, W, P)
  BY <1>1 DEF InStep, MergesInStep
<1>7. CreationsInStep(N, s, K, W, B, P)
  BY <1>1, <1>3 DEF InStep, CreationsInStep
<1>8. DeletionsInStep(N, s, K, W, B)
  BY <1>1, <1>4 DEF InStep, CreationsInStep, DeletionsInStep
<1> QED BY <1>5, <1>6, <1>7, <1>8 DEF InStep

\* A link is written again, or left as it is.
LEMMA LinkWritten ==
    ASSUME NEW N, NEW r, NEW s, NEW L, NEW W, NEW B, NEW P, InStep(N, r, L, W, B, P),
           r.name \in N => r.name \in DOMAIN L, s.at \notin Telling \cup {"pulled", "link"},
           NEW K, DOMAIN K = DOMAIN L, \A n \in DOMAIN L : n # r.name => K[n] = L[n],
           \/ r.name \notin N \/ K[r.name].pr = P[r.name]
           \/ Coming(W, "pull_request", r.name) # {}
           \/ K[r.name].pr = L[r.name].pr /\ r.at \notin PullTold,
           r.name \in N /\ K[r.name].state = "open" =>
               L[r.name].state = "open" /\ r.at # "delete" /\ ~(r.at \in PullTold /\ r.pr = "merged")
    PROVE  InStep(N, s, K, W, B, P)
<1>1. /\ \A n : ~Handling(s, PullTold, n) /\ ~Handling(s, {"delete"}, n)
      /\ \A n : ~Handling(s, {"create", "recognise"}, n) /\ ~Handling(s, {"link"}, n)
      /\ \A n : ~Handling(s, PullTold \cup {"delete"}, n)
      /\ \A n, awaits : n # r.name => ~Handling(r, awaits, n)
  BY DEF Handling, PullTold, Telling
<1>2. s.at \notin PullTold \cup {"pulled"}
  BY DEF PullTold, Telling
<1>3. \A n : n # r.name => (Joining(r, W, n) <=> Joining(s, W, n))
  BY <1>1 DEF Joining
<1>4. PullsInStep(N, s, K, W, P)
  <2>1. ASSUME NEW n \in N, Coming(W, "pull_request", n) = {}
        PROVE  IF n \in DOMAIN K THEN K[n].pr = P[n] \/ Handling(s, PullTold, n) ELSE P[n] = "none"
    <3>1. IF n \in DOMAIN L THEN L[n].pr = P[n] \/ Handling(r, PullTold, n) ELSE P[n] = "none"
      BY <2>1 DEF InStep, PullsInStep
    <3>2. CASE n # r.name
      BY <1>1, <3>1, <3>2
    <3>3. CASE n = r.name
      <4>1. CASE K[n].pr = P[n]
        BY <3>3, <4>1
      <4>2. CASE K[n].pr = L[n].pr /\ r.at \notin PullTold
        BY <3>1, <3>3, <4>2 DEF Handling
      <4> QED BY <2>1, <3>3, <4>1, <4>2
    <3> QED BY <3>2, <3>3
  <2>2. \A d \in W : d.event = "pull_request" /\ d.name \in N =>
          d.pr = P[d.name] \/ \E e \in Coming(W, "pull_request", d.name) : d.id < e.id
    BY DEF InStep, PullsInStep
  <2> QED BY <1>2, <2>1, <2>2 DEF PullsInStep
<1>5. MergesInStep(N, s, K, W, P)
  <2>1. SUFFICES ASSUME NEW n \in N, P[n] = "merged"
                 PROVE  \/ \E e \in Coming(W, "pull_request", n) : e.pr = "merged"
                        \/ n \in DOMAIN K /\ K[n].state # "open"
    BY DEF MergesInStep
  <2>2. \/ \E e \in Coming(W, "pull_request", n) : e.pr = "merged"
        \/ Handling(r, PullTold, n) /\ r.pr = "merged"
        \/ n \in DOMAIN L /\ L[n].state # "open"
    BY <2>1 DEF InStep, MergesInStep
  <2>3. Handling(r, PullTold, n) => r.name = n /\ r.at \in PullTold
    BY DEF Handling
  <2> QED BY <2>2, <2>3
<1>6. CreationsInStep(N, s, K, W, B, P)
  <2>1. \A n \in N \ DOMAIN K : n \in N \ DOMAIN L /\ n # r.name
    OBVIOUS
  <2> QED BY <1>1, <1>3, <2>1 DEF InStep, CreationsInStep
<1>7. DeletionsInStep(N, s, K, W, B)
  <2>1. SUFFICES ASSUME NEW n \in N \cap DOMAIN K, K[n].state = "open"
                 PROVE  n \in B \/ Coming(W, "delete", n) # {}
    BY DEF DeletionsInStep
  <2>2. L[n].state = "open" /\ ~Handling(r, {"delete"}, n)
    BY <1>1, <2>1 DEF Handling
  <2> QED BY <2>2 DEF InStep, DeletionsInStep
<1> QED BY <1>4, <1>5, <1>6, <1>7 DEF InStep

-----------------------------------------------------------------------------
(* One step *)

LEMMA OneHand ==
    ASSUME GithubLinksAssumption, mode \in Modes, Orderly, NEW g \in mode.handlers, NEW h \in mode.handlers
    PROVE  g = h
<1>1. IsFiniteSet(mode.handlers)
  BY FS_Subset DEF GithubLinksAssumption
<1>2. PICK x : mode.handlers = {x}
  BY <1>1, FS_Singleton DEF Orderly
<1> QED BY <1>2

LEMMA IdleHolds == Idle.at = "idle" /\ \A L : HoldsRight(Idle, L)
BY DEF Idle, HoldsRight, Starting, Reviewing, Telling

\* One handler holds s, the others what they held.
LEMMA HandsMove ==
    ASSUME HandsRight, NEW h \in Handlers, h \in mode.handlers, NEW s, Awaits(h, s),
           DOMAIN links \subseteq DOMAIN links', HoldsRight(s, links')
    PROVE  /\ HandsRight' /\ mode' = mode /\ req'[h] = s
           /\ \A g \in Handlers : g # h => req'[g] = req[g]
<1>1. req' = [req EXCEPT ![h] = s] /\ mode' = mode /\ req = [g \in Handlers |-> req[g]]
  BY DEF Awaits, HandsRight
<1>2. req'[h] = s /\ \A g \in Handlers : g # h => req'[g] = req[g]
  BY <1>1
<1>3. req' = [g \in Handlers |-> req'[g]]
  BY <1>1
<1>4. \A g \in Handlers : HoldsRight(req'[g], links')
  <2>1. SUFFICES ASSUME NEW g \in Handlers, g # h PROVE HoldsRight(req[g], links')
    BY <1>2
  <2>2. HoldsRight(req[g], links)
    BY DEF HandsRight
  <2> QED BY <2>2 DEF HoldsRight
<1>5. \A g \in Handlers : req'[g].at # "idle" => g \in mode'.handlers
  BY <1>1, <1>2 DEF HandsRight
<1> QED BY <1>1, <1>2, <1>3, <1>4, <1>5 DEF HandsRight

LinksAwaits == {"idle"} \cup Starting \cup Reviewing \cup Telling

LEMMA HomeStays ==
    ASSUME HomeStands, UNCHANGED <<registry, ghRepos, mode>>,
           \A g \in Handlers : req'[g] = req[g] \/ req'[g].at \in LinksAwaits
    PROVE  HomeStands'
<1>1. \A g \in Handlers : req'[g].at \in LinksAwaits =>
        /\ req'[g].at # "register" /\ req'[g].at # "discover" /\ req'[g].at # "by name"
        /\ req'[g].at # "discovered" /\ req'[g].at # "fetch" /\ req'[g].at # "sync"
        /\ req'[g].at # "update"
  BY DEF LinksAwaits, Starting, Reviewing, Telling
<1>2. \A g \in Handlers : req'[g] = req[g] =>
        /\ req'[g].at # "register" /\ req'[g].at # "discover" /\ req'[g].at # "by name"
        /\ req'[g].at # "discovered" /\ req'[g].at # "fetch" /\ req'[g].at # "sync"
        /\ req'[g].at = "update" =>
              /\ req'[g].id \in DOMAIN registry /\ RowShaped(req'[g].row)
              /\ req'[g].row.ext = registry[req'[g].id].ext
              /\ req'[g].row.name = registry[req'[g].id].name
  BY DEF HomeStands, At
<1>3. registry' = registry /\ ghRepos' = ghRepos /\ mode' = mode
  OBVIOUS
<1>4. \A g \in Handlers :
        /\ req'[g].at # "register" /\ req'[g].at # "discover" /\ req'[g].at # "by name"
        /\ req'[g].at # "discovered" /\ req'[g].at # "fetch" /\ req'[g].at # "sync"
        /\ req'[g].at = "update" =>
              /\ req'[g].id \in DOMAIN registry' /\ RowShaped(req'[g].row)
              /\ req'[g].row.ext = registry'[req'[g].id].ext
              /\ req'[g].row.name = registry'[req'[g].id].name
  BY <1>1, <1>2, <1>3
<1> QED BY <1>3, <1>4 DEF HomeStands, At

\* A step of the handler h, which then holds s.
LEMMA HandMoves ==
    ASSUME GithubLinksAssumption, GithubInv, NEW h \in Handlers, h \in mode.handlers, NEW s, Awaits(h, s),
           LinksRight', GithubRight', DOMAIN links \subseteq DOMAIN links', HoldsRight(s, links'),
           Orderly => HoldsCurrent(s, links'),
           UNCHANGED <<registry, ghRepos>>, s.at \in LinksAwaits,
           InOrder /\ HomeKnown /\ InStep(Followed, req[h], links, Waiting, ghBranches, ghPull) =>
               InStep(Followed', s, links', Waiting', ghBranches', ghPull')
    PROVE  GithubInv'
<1>1. /\ HandsRight' /\ mode' = mode /\ req'[h] = s
      /\ \A g \in Handlers : g # h => req'[g] = req[g]
  BY HandsMove DEF GithubInv
<1>2. mode' \in Modes
  BY <1>1 DEF GithubInv
<1>3. Orderly' => \A g \in mode'.handlers : HoldsCurrent(req'[g], links')
  <2>1. SUFFICES ASSUME Orderly, NEW g \in mode.handlers PROVE HoldsCurrent(req'[g], links')
    BY <1>1 DEF Orderly
  <2>2. g = h
    BY <2>1, OneHand DEF GithubInv
  <2> QED BY <1>1, <2>1, <2>2
<1>4. HomeKnown' => HomeStands'
  <2>1. SUFFICES ASSUME HomeKnown PROVE HomeStands'
    BY <1>1 DEF HomeKnown
  <2>2. HomeStands
    BY <2>1 DEF GithubInv
  <2> QED BY <1>1, <2>2, HomeStays
<1>5. ASSUME InOrder', HomeKnown'
      PROVE  \A g \in mode'.handlers : InStep(Followed', req'[g], links', Waiting', ghBranches', ghPull')
  <2>1. InOrder /\ HomeKnown /\ Orderly
    BY <1>1, <1>5 DEF InOrder, Orderly, HomeKnown
  <2>2. SUFFICES ASSUME NEW g \in mode.handlers
                 PROVE  InStep(Followed', req'[g], links', Waiting', ghBranches', ghPull')
    BY <1>1
  <2>3. g = h
    BY <2>1, <2>2, OneHand DEF GithubInv
  <2>4. InStep(Followed, req[h], links, Waiting, ghBranches, ghPull)
    BY <2>1 DEF GithubInv
  <2> QED BY <1>1, <2>1, <2>3, <2>4
<1> QED BY <1>1, <1>2, <1>3, <1>4, <1>5 DEF GithubInv

\* The same, when no delivery is missed.
LEMMA HandlerMoves ==
    ASSUME GithubLinksAssumption, GithubInv, NEW h \in Handlers, h \in mode.handlers, NEW s, Awaits(h, s),
           LinksRight', GithubRight', DOMAIN links \subseteq DOMAIN links', HoldsRight(s, links'),
           Orderly => HoldsCurrent(s, links'),
           UNCHANGED <<missed, registry, ghRepos>>, s.at \in LinksAwaits,
           InOrder /\ HomeKnown /\ InStep(Followed, req[h], links, Waiting, ghBranches, ghPull) =>
               InStep(Followed, s, links', Waiting', ghBranches', ghPull')
    PROVE  GithubInv'
<1>1. Followed' = Followed
  BY DEF Followed
<1>2. UNCHANGED <<registry, ghRepos>>
  OBVIOUS
<1>3. InOrder /\ HomeKnown /\ InStep(Followed, req[h], links, Waiting, ghBranches, ghPull) =>
          InStep(Followed', s, links', Waiting', ghBranches', ghPull')
  BY <1>1
<1> QED BY <1>2, <1>3, HandMoves

\* A request that writes nothing.
LEMMA NothingWritten ==
    ASSUME GithubInv, UNCHANGED <<links, stored, ghBranches, ghPull, hooks, emitted>>
    PROVE  /\ LinksRight' /\ GithubRight' /\ DOMAIN links \subseteq DOMAIN links'
           /\ Waiting' = Waiting /\ ghBranches' = ghBranches /\ ghPull' = ghPull
BY DEF GithubInv, LinksRight, GithubRight, Waiting

LEMMA RequestMoves ==
    ASSUME GithubLinksAssumption, GithubInv, NEW h \in Handlers, h \in mode.handlers, NEW s, Awaits(h, s),
           UNCHANGED <<links, stored, ghBranches, ghPull, hooks, emitted, missed, registry, ghRepos>>,
           HoldsRight(s, links), Orderly => HoldsCurrent(s, links),
           req[h].at \notin Telling, s.at \in {"idle"} \cup Starting \cup Reviewing, s.at \notin {"pulled", "link"}
    PROVE  GithubInv'
<1>1. /\ LinksRight' /\ GithubRight' /\ DOMAIN links \subseteq DOMAIN links' /\ links' = links
      /\ Waiting' = Waiting /\ ghBranches' = ghBranches /\ ghPull' = ghPull
  BY NothingWritten
<1>2. s.at \in LinksAwaits /\ s.at \notin Telling
  BY DEF LinksAwaits, Starting, Reviewing, Telling
<1>3. InStep(Followed, req[h], links, Waiting, ghBranches, ghPull) =>
          InStep(Followed, s, links', Waiting', ghBranches', ghPull')
  BY <1>1, <1>2, RequestGoesOn
<1> QED BY <1>1, <1>2, <1>3, HandlerMoves

-----------------------------------------------------------------------------
(* Starting work *)

LEMMA NamesJoin ==
    ASSUME NEW t \in Tickets, NEW prefix \in Prefixes
    PROVE  NameOf(t, prefix) \in Names /\ Joins(t, NameOf(t, prefix))
BY DEF Names, Joins

LEMMA ReadinessKeeps ==
    ASSUME GithubLinksAssumption, GithubInv, NEW h \in Handlers, NEW t \in mode.tickets, NEW prefix \in Prefixes,
           StartReadiness(h, t, prefix)
    PROVE  GithubInv'
<1>1. t \in Tickets
  BY DEF GithubInv, GithubLinksAssumption
<1>2. PICK s : s = Holding("repositories", t, NameOf(t, prefix))
  OBVIOUS
<1>3. /\ s.at = "repositories" /\ s.name \in Names /\ s.ticket = t /\ Joins(s.ticket, s.name)
      /\ DOMAIN s = Held
  BY <1>1, <1>2, NamesJoin DEF Holding, Held
<1>4. h \in mode.handlers /\ req[h].at = "idle" /\ Awaits(h, s)
  BY <1>2 DEF StartReadiness, MayStart
<1>5. UNCHANGED <<links, stored, ghBranches, ghPull, hooks, emitted, missed, registry, ghRepos>>
  BY DEF StartReadiness, hq, github, repositories
<1>6. HoldsRight(s, links) /\ HoldsCurrent(s, links)
  BY <1>1, <1>3 DEF HoldsRight, HoldsCurrent, Starting
<1>7. req[h].at \notin Telling /\ s.at \in Starting /\ s.at \notin {"pulled", "link"}
  BY <1>3, <1>4 DEF Telling, Starting
<1> QED BY <1>4, <1>5, <1>6, <1>7, RequestMoves

\* A request that waits at one await goes on to another or ends.
LEMMA Busy ==
    ASSUME GithubInv, NEW h \in Handlers, req[h].at # "idle"
    PROVE  h \in mode.handlers /\ HoldsRight(req[h], links)
BY DEF GithubInv, HandsRight

LEMMA RequestEnds ==
    ASSUME GithubLinksAssumption, GithubInv, NEW h \in Handlers, Ends(h),
           req[h].at \in Starting \cup Reviewing,
           UNCHANGED <<links, stored, ghBranches, ghPull, hooks, emitted, missed, registry, ghRepos>>
    PROVE  GithubInv'
<1>1. req[h].at # "idle" /\ req[h].at \notin Telling
  BY DEF Starting, Reviewing, Telling
<1>2. h \in mode.handlers /\ Awaits(h, Idle)
  BY <1>1, Busy DEF Ends
<1>3. HoldsCurrent(Idle, links)
  BY IdleHolds DEF HoldsCurrent
<1>4. HoldsRight(Idle, links) /\ Idle.at \in {"idle"} /\ Idle.at \notin {"pulled", "link"}
  BY IdleHolds
<1> QED BY <1>1, <1>2, <1>3, <1>4, RequestMoves

LEMMA PickKeeps ==
    ASSUME GithubLinksAssumption, GithubInv, NEW h \in Handlers, StartPick(h)
    PROVE  GithubInv'
<1>1. req[h].at = "repositories"
  BY DEF StartPick
<1>2. UNCHANGED <<links, stored, ghBranches, ghPull, hooks, emitted, missed, registry, ghRepos>>
  BY DEF StartPick, hq, github, repositories
<1>3. CASE Ends(h)
  BY <1>1, <1>2, <1>3, RequestEnds DEF Starting
<1>4. CASE \E r : Awaits(h, [req[h] EXCEPT !.at = "find", !.link = registry[r].name])
  <2>1. PICK r : Awaits(h, [req[h] EXCEPT !.at = "find", !.link = registry[r].name])
    BY <1>4
  <2>2. PICK s : s = [req[h] EXCEPT !.at = "find", !.link = registry[r].name]
    OBVIOUS
  <2>3. h \in mode.handlers /\ HoldsRight(req[h], links)
    BY <1>1, Busy
  <2>4. DOMAIN req[h] = Held /\ req[h].name \in Names /\ req[h].ticket \in Tickets /\ Joins(req[h].ticket, req[h].name)
    BY <1>1, <2>3 DEF HoldsRight, Starting
  <2>5. s.at = "find" /\ DOMAIN s = Held /\ s.name = req[h].name /\ s.ticket = req[h].ticket
    BY <2>2, <2>4 DEF Held
  <2>6. HoldsRight(s, links) /\ HoldsCurrent(s, links)
    BY <2>4, <2>5 DEF HoldsRight, HoldsCurrent, Starting
  <2>7. req[h].at \notin Telling /\ s.at \in Starting /\ s.at \notin {"pulled", "link"}
    BY <1>1, <2>5 DEF Telling, Starting
  <2> QED BY <1>2, <2>1, <2>2, <2>3, <2>6, <2>7, RequestMoves
<1>5. Ends(h) \/ \E r : Awaits(h, [req[h] EXCEPT !.at = "find", !.link = registry[r].name])
  BY DEF StartPick
<1> QED BY <1>3, <1>4, <1>5

LEMMA FindKeeps ==
    ASSUME GithubLinksAssumption, GithubInv, NEW h \in Handlers, StartFind(h)
    PROVE  GithubInv'
<1>1. req[h].at = "find"
  BY DEF StartFind
<1>2. UNCHANGED <<links, stored, ghBranches, ghPull, hooks, emitted, missed, registry, ghRepos>>
  BY DEF StartFind, hq, github, repositories
<1>3. PICK s : s = [req[h] EXCEPT !.at = "branch", !.found = status[req[h].ticket]]
  OBVIOUS
<1>4. h \in mode.handlers /\ HoldsRight(req[h], links) /\ Awaits(h, s)
  BY <1>1, <1>3, Busy DEF StartFind
<1>5. DOMAIN req[h] = Held /\ req[h].name \in Names /\ req[h].ticket \in Tickets /\ Joins(req[h].ticket, req[h].name)
  BY <1>1, <1>4 DEF HoldsRight, Starting
<1>6. s.at = "branch" /\ DOMAIN s = Held /\ s.name = req[h].name /\ s.ticket = req[h].ticket
  BY <1>3, <1>5 DEF Held
<1>7. HoldsRight(s, links) /\ HoldsCurrent(s, links)
  BY <1>5, <1>6 DEF HoldsRight, HoldsCurrent, Starting
<1>8. req[h].at \notin Telling /\ s.at \in Starting /\ s.at \notin {"pulled", "link"}
  BY <1>1, <1>6 DEF Telling, Starting
<1> QED BY <1>2, <1>4, <1>7, <1>8, RequestMoves

LEMMA CreateKeeps ==
    ASSUME GithubLinksAssumption, GithubInv, NEW h \in Handlers, StartCreate(h)
    PROVE  GithubInv'
<1>1. req[h].at = "branch"
  BY DEF StartCreate
<1>2. UNCHANGED <<links, stored, missed, registry, ghRepos>>
  BY DEF StartCreate, hq, github, repositories, GhCreates, Emits
<1>3. PICK s : s = [req[h] EXCEPT !.at = "link"]
  OBVIOUS
<1>4. h \in mode.handlers /\ HoldsRight(req[h], links) /\ Awaits(h, s)
  BY <1>1, <1>3, Busy DEF StartCreate
<1>5. DOMAIN req[h] = Held /\ req[h].name \in Names /\ req[h].ticket \in Tickets /\ Joins(req[h].ticket, req[h].name)
  BY <1>1, <1>4 DEF HoldsRight, Starting
<1>6. s.at = "link" /\ DOMAIN s = Held /\ s.name = req[h].name /\ s.ticket = req[h].ticket
  BY <1>3, <1>5 DEF Held
<1>7. HoldsRight(s, links) /\ HoldsCurrent(s, links)
  BY <1>5, <1>6 DEF HoldsRight, HoldsCurrent, Starting
<1>8. req[h].at \notin Telling /\ s.at \notin Telling /\ s.at \in LinksAwaits /\ s.at # "pulled"
  BY <1>1, <1>6 DEF Telling, Starting, LinksAwaits
<1>9. LinksRight /\ GithubRight
  BY DEF GithubInv
<1>11. GithubFollows(req[h]) /\ s.name \in ghBranches'
  <2>1. CASE req[h].name \in ghBranches
    <3>1. UNCHANGED <<ghBranches, ghPull, hooks, emitted, missed>>
      BY <2>1 DEF StartCreate, github
    <3>2. GithubRight' /\ Waiting' = Waiting /\ ghBranches' = ghBranches /\ ghPull' = ghPull
      BY <1>2, <1>9, <3>1 DEF GithubRight, Waiting
    <3> QED BY <1>6, <2>1, <3>2 DEF GithubFollows
  <2>2. CASE req[h].name \notin ghBranches
    <3>1. GhCreates(req[h].name)
      BY <2>2 DEF StartCreate
    <3>2. GithubFollows(req[h])
      BY <1>2, <1>5, <1>9, <3>1, CreationFollows
    <3> QED BY <1>6, <3>1, <3>2 DEF GhCreates
  <2> QED BY <2>1, <2>2
<1>12. InStep(Followed, req[h], links, Waiting, ghBranches, ghPull) => InStep(Followed, s, links, Waiting', ghBranches', ghPull')
  <2>1. SUFFICES ASSUME InStep(Followed, req[h], links, Waiting, ghBranches, ghPull)
                 PROVE  InStep(Followed, s, links, Waiting', ghBranches', ghPull')
    OBVIOUS
  <2>2. InStep(Followed, req[h], links, Waiting', ghBranches', ghPull')
    BY <1>11, <2>1 DEF GithubFollows, Followed
  <2> QED BY <1>8, <1>11, <2>2, RequestGoesOn
<1>13. links' = links /\ LinksRight' /\ GithubRight'
  BY <1>2, <1>9, <1>11 DEF LinksRight, GithubFollows
<1> QED BY <1>2, <1>4, <1>7, <1>8, <1>12, <1>13, HandlerMoves

\* A delivery that is not applied leaves its branch out of step, and no other.
LEMMA FailureKeeps ==
    ASSUME GithubLinksAssumption, GithubInv, NEW h \in Handlers, RequestFails(h)
    PROVE  GithubInv'
<1>1. UNCHANGED <<links, stored, ghBranches, ghPull, hooks, emitted, registry, ghRepos>> /\ Ends(h)
  BY DEF RequestFails, hq, repositories
<1>2. CASE req[h].at \in Telling
  <2>1. req[h].at # "idle"
    BY <1>2 DEF Telling
  <2>2. h \in mode.handlers /\ Awaits(h, Idle)
    BY <1>1, <2>1, Busy DEF Ends
  <2>3. /\ LinksRight' /\ GithubRight' /\ DOMAIN links \subseteq DOMAIN links' /\ links' = links
        /\ Waiting' = Waiting /\ ghBranches' = ghBranches /\ ghPull' = ghPull
    BY <1>1, NothingWritten
  <2>4. HoldsRight(Idle, links') /\ HoldsCurrent(Idle, links') /\ Idle.at \in LinksAwaits
    BY IdleHolds DEF HoldsCurrent, LinksAwaits
  <2>5. Followed' = Followed \ {req[h].name}
    BY <1>2 DEF Followed, RequestFails
  <2>6. ASSUME InStep(Followed, req[h], links, Waiting, ghBranches, ghPull)
        PROVE  InStep(Followed', Idle, links', Waiting', ghBranches', ghPull')
    <3>1. PICK N : N = Followed \ {req[h].name}
      OBVIOUS
    <3>2. InStep(N, req[h], links, Waiting, ghBranches, ghPull)
      BY <2>6, <3>1, FewerInStep
    <3>3. Idle.at \notin Telling \cup {"pulled", "link"} /\ req[h].name \notin N
      BY <3>1, IdleHolds DEF Telling
    <3>4. InStep(N, Idle, links, Waiting, ghBranches, ghPull)
      BY <3>2, <3>3, OffRecord
    <3> QED BY <2>3, <2>5, <3>1, <3>4
  <2> QED BY <1>1, <2>2, <2>3, <2>4, <2>6, HandMoves
<1>3. CASE req[h].at \notin Telling
  <2>1. missed' = missed /\ req[h].at \in Starting \cup Reviewing
    BY <1>3 DEF RequestFails
  <2> QED BY <1>1, <2>1, RequestEnds
<1> QED BY <1>2, <1>3

\* A link that is added.
LEMMA LinksGrow ==
    ASSUME LinksRight, NEW n \in Names, NEW link, LinkRight(link, n), link.pr = "none",
           NEW K, K = With(links, n, link)
    PROVE  /\ DOMAIN K = DOMAIN links \cup {n} /\ K[n].pr = "none"
           /\ \A m \in DOMAIN links : m # n => K[m] = links[m]
           /\ DOMAIN K \subseteq Names /\ \A m \in DOMAIN K : LinkRight(K[m], m)
<1>1. DOMAIN K = DOMAIN links \cup {n} /\ K[n] = link
  BY DEF With
<1>2. \A m \in DOMAIN links : m # n => K[m] = links[m]
  BY DEF With
<1> QED BY <1>1, <1>2 DEF LinksRight

LEMMA NewLinkRight ==
    ASSUME NEW n, NEW t, Joins(t, n), NEW link, link = Link(t, "open", "none")
    PROVE  LinkRight(link, n) /\ link.pr = "none"
BY DEF Link, LinkRight

LEMMA LinkKeeps ==
    ASSUME GithubLinksAssumption, GithubInv, NEW h \in Handlers, StartLink(h)
    PROVE  GithubInv'
<1>1. req[h].at = "link" /\ UNCHANGED <<stored, ghBranches, ghPull, hooks, emitted, missed, registry, ghRepos>>
  BY DEF StartLink, github, repositories
<1>2. CASE req[h].name \in DOMAIN links
  <2>1. Ends(h) /\ UNCHANGED links /\ req[h].at \in Starting \cup Reviewing
    BY <1>1, <1>2 DEF StartLink, Starting
  <2> QED BY <1>1, <2>1, RequestEnds
<1>3. CASE req[h].name \notin DOMAIN links
  <2>1. PICK n : n = req[h].name
    OBVIOUS
  <2>2. PICK t : t = req[h].ticket
    OBVIOUS
  <2>3. PICK s : s = [req[h] EXCEPT !.at = "status"]
    OBVIOUS
  <2>4. h \in mode.handlers /\ HoldsRight(req[h], links) /\ Awaits(h, s)
    BY <1>1, <1>3, <2>3, Busy DEF StartLink
  <2>5. DOMAIN req[h] = Held /\ n \in Names /\ t \in Tickets /\ Joins(t, n)
    BY <1>1, <2>1, <2>2, <2>4 DEF HoldsRight, Starting
  <2>6. s.at = "status" /\ DOMAIN s = Held /\ s.name = n /\ s.ticket = t
    BY <2>1, <2>2, <2>3, <2>5 DEF Held
  <2>7. links' = With(links, n, Link(t, "open", "none"))
    BY <1>3, <2>1, <2>2 DEF StartLink
  <2>8. LinksRight /\ GithubRight /\ DOMAIN links \subseteq Names
    BY DEF GithubInv, LinksRight
  <2>9. /\ DOMAIN links' = DOMAIN links \cup {n} /\ links'[n].pr = "none"
        /\ \A m \in DOMAIN links : m # n => links'[m] = links[m]
        /\ DOMAIN links' \subseteq Names /\ \A m \in DOMAIN links' : LinkRight(links'[m], m)
    <3>1. PICK link : link = Link(t, "open", "none")
      OBVIOUS
    <3>2. PICK K : K = With(links, n, link) /\ K = links'
      BY <2>7, <3>1
    <3>3. LinkRight(link, n) /\ link.pr = "none"
      BY <2>5, <3>1, NewLinkRight
    <3>4. /\ DOMAIN K = DOMAIN links \cup {n} /\ K[n].pr = "none"
          /\ \A m \in DOMAIN links : m # n => K[m] = links[m]
          /\ DOMAIN K \subseteq Names /\ \A m \in DOMAIN K : LinkRight(K[m], m)
      BY <2>5, <2>8, <3>2, <3>3, LinksGrow
    <3> QED BY <3>2, <3>4
  <2>10. LinksRight'
    BY <2>9 DEF LinksRight
  <2>11. GithubRight' /\ Waiting' = Waiting /\ ghBranches' = ghBranches /\ ghPull' = ghPull
    BY <1>1, <2>8 DEF GithubRight, Waiting
  <2>12. HoldsRight(s, links') /\ HoldsCurrent(s, links')
    BY <2>5, <2>6, <2>9 DEF HoldsRight, HoldsCurrent, Starting
  <2>13. s.at \notin Telling \cup {"pulled", "link"} /\ s.at \in LinksAwaits
    BY <2>6 DEF Telling, Starting, LinksAwaits
  <2>14. InStep(Followed, req[h], links, Waiting, ghBranches, ghPull) =>
           InStep(Followed, s, links', Waiting', ghBranches', ghPull')
    <3>1. SUFFICES ASSUME InStep(Followed, req[h], links, Waiting, ghBranches, ghPull)
                   PROVE  InStep(Followed, s, links', Waiting, ghBranches, ghPull)
      BY <2>11
    <3>2. req[h].at \in {"recognise", "link"} /\ req[h].name \in Names \ DOMAIN links
      BY <1>1, <1>3, <2>1, <2>5
    <3>3. \A m \in DOMAIN links : links'[m] = links[m]
      BY <1>3, <2>1, <2>9
    <3> QED BY <2>1, <2>8, <2>9, <2>13, <3>1, <3>2, <3>3, LinkAdded
  <2>15. DOMAIN links \subseteq DOMAIN links'
    BY <2>9
  <2> QED BY <1>1, <2>4, <2>10, <2>11, <2>12, <2>13, <2>14, <2>15, HandlerMoves
<1> QED BY <1>2, <1>3

LEMMA StatusKeeps ==
    ASSUME GithubLinksAssumption, GithubInv, NEW h \in Handlers, StartStatus(h) \/ PullStatus(h)
    PROVE  GithubInv'
<1>1. UNCHANGED <<links, stored, ghBranches, ghPull, hooks, emitted, missed, registry, ghRepos>>
  BY DEF StartStatus, PullStatus, github, repositories
<1>2. Ends(h) /\ req[h].at \in Starting \cup Reviewing
  BY DEF StartStatus, PullStatus, Starting, Reviewing
<1> QED BY <1>1, <1>2, RequestEnds

LEMMA BoardKeeps ==
    ASSUME GithubInv, NEW h \in Handlers, NEW t, NEW s, BoardMove(h, t, s)
    PROVE  GithubInv'
BY DEF BoardMove, GithubInv, LinksRight, HandsRight, GithubRight, Orderly, HomeKnown, HomeStands, At, InOrder,
       Waiting, Followed, repositories, github

-----------------------------------------------------------------------------
(* Opening a pull request *)

LEMMA PullFindKeeps ==
    ASSUME GithubLinksAssumption, GithubInv, NEW h \in Handlers, NEW n, PullFind(h, n)
    PROVE  GithubInv'
<1>1. n \in DOMAIN links /\ n \in Names /\ LinkRight(links[n], n)
  BY DEF PullFind, GithubInv, LinksRight
<1>2. PICK s : s = [Holding("pull", links[n].ticket, n) EXCEPT
                       !.found = status[links[n].ticket], !.link = links[n]]
  OBVIOUS
<1>3. s.at = "pull" /\ s.name = n /\ s.link = links[n] /\ DOMAIN s = Held
  BY <1>2 DEF Holding, Held
<1>4. h \in mode.handlers /\ req[h].at = "idle" /\ Awaits(h, s)
  BY <1>2 DEF PullFind, MayStart
<1>5. UNCHANGED <<links, stored, ghBranches, ghPull, hooks, emitted, missed, registry, ghRepos>>
  BY DEF PullFind, hq, github, repositories
<1>6. HoldsRight(s, links) /\ HoldsCurrent(s, links)
  BY <1>1, <1>3 DEF HoldsRight, HoldsCurrent, Starting, Reviewing
<1>7. req[h].at \notin Telling /\ s.at \in Reviewing /\ s.at \notin {"pulled", "link"}
  BY <1>3, <1>4 DEF Telling, Reviewing
<1> QED BY <1>4, <1>5, <1>6, <1>7, RequestMoves

LEMMA PullCreateKeeps ==
    ASSUME GithubLinksAssumption, GithubInv, NEW h \in Handlers, PullCreate(h)
    PROVE  GithubInv'
<1>1. req[h].at = "pull"
  BY DEF PullCreate
<1>2. UNCHANGED <<links, stored, missed, registry, ghRepos>>
  BY DEF PullCreate, hq, github, repositories, GhOpensPull, GhPulls, Emits
<1>3. PICK s : s = [req[h] EXCEPT !.at = "pulled"]
  OBVIOUS
<1>4. h \in mode.handlers /\ HoldsRight(req[h], links) /\ Awaits(h, s)
  BY <1>1, <1>3, Busy DEF PullCreate
<1>5. /\ DOMAIN req[h] = Held /\ req[h].name \in Names /\ req[h].name \in DOMAIN links
      /\ LinkRight(req[h].link, req[h].name)
  BY <1>1, <1>4 DEF HoldsRight, Reviewing
<1>6. s.at = "pulled" /\ DOMAIN s = Held /\ s.name = req[h].name /\ s.link = req[h].link
  BY <1>3, <1>5 DEF Held
<1>7. HoldsRight(s, links)
  BY <1>5, <1>6 DEF HoldsRight, Starting, Reviewing
<1>8. Orderly => HoldsCurrent(s, links)
  BY <1>1, <1>4, <1>6 DEF GithubInv, HoldsCurrent
<1>9. /\ req[h].at \notin Telling /\ s.at \notin Telling /\ s.at # "link"
      /\ s.at \in LinksAwaits
  BY <1>1, <1>6 DEF Telling, Reviewing, LinksAwaits
<1>10. LinksRight /\ GithubRight
  BY DEF GithubInv
<1>12. GithubFollows(req[h]) /\ ghPull'[s.name] = "open"
  <2>1. CASE GhOpensPull(req[h].name)
    <3>1. /\ GhPulls(req[h].name, "open") /\ req[h].name \in ghBranches
          /\ ghPull' = [ghPull EXCEPT ![req[h].name] = "open"]
      BY <2>1 DEF GhOpensPull, GhPulls
    <3>2. GithubFollows(req[h])
      BY <1>2, <1>5, <1>10, <3>1, PullFollows DEF PullStates
    <3>3. ghPull \in [Names -> PullStates]
      BY <1>10 DEF GithubRight
    <3> QED BY <1>5, <1>6, <3>1, <3>2, <3>3
  <2>2. CASE ghPull[req[h].name] = "open" /\ UNCHANGED github
    <3>1. GithubRight' /\ Waiting' = Waiting /\ ghBranches' = ghBranches /\ ghPull' = ghPull
      BY <1>2, <1>10, <2>2 DEF GithubRight, Waiting, github
    <3> QED BY <1>6, <2>2, <3>1 DEF GithubFollows
  <2> QED BY <2>1, <2>2 DEF PullCreate
<1>13. InStep(Followed, req[h], links, Waiting, ghBranches, ghPull) => InStep(Followed, s, links, Waiting', ghBranches', ghPull')
  <2>1. SUFFICES ASSUME InStep(Followed, req[h], links, Waiting, ghBranches, ghPull)
                 PROVE  InStep(Followed, s, links, Waiting', ghBranches', ghPull')
    OBVIOUS
  <2>2. InStep(Followed, req[h], links, Waiting', ghBranches', ghPull')
    BY <1>12, <2>1 DEF GithubFollows, Followed
  <2> QED BY <1>9, <1>12, <2>2, RequestGoesOn
<1>14. links' = links /\ LinksRight' /\ GithubRight'
  BY <1>2, <1>10, <1>12 DEF LinksRight, GithubFollows
<1> QED BY <1>2, <1>4, <1>7, <1>8, <1>9, <1>13, <1>14, HandlerMoves

\* A row of links is written whole.
LEMMA LinkReplaced ==
    ASSUME LinksRight, NEW n \in DOMAIN links, NEW row, LinkRight(row, n), NEW K, K = With(links, n, row)
    PROVE  /\ DOMAIN K = DOMAIN links /\ K[n] = row /\ \A m \in DOMAIN links : m # n => K[m] = links[m]
           /\ DOMAIN K \subseteq Names /\ \A m \in DOMAIN K : LinkRight(K[m], m)
<1>1. DOMAIN K = DOMAIN links /\ K[n] = row /\ \A m \in DOMAIN links : m # n => K[m] = links[m]
  BY DEF With
<1> QED BY <1>1 DEF LinksRight

LEMMA PullSaveKeeps ==
    ASSUME GithubLinksAssumption, GithubInv, NEW h \in Handlers, PullSave(h)
    PROVE  GithubInv'
<1>1. req[h].at = "pulled" /\ UNCHANGED <<stored, ghBranches, ghPull, hooks, emitted, missed, registry, ghRepos>>
  BY DEF PullSave, github, repositories
<1>2. PICK n : n = req[h].name
  OBVIOUS
<1>3. PICK row : row = [req[h].link EXCEPT !.pr = "open"]
  OBVIOUS
<1>4. PICK s : s = [req[h] EXCEPT !.at = "review"]
  OBVIOUS
<1>5. h \in mode.handlers /\ HoldsRight(req[h], links) /\ Awaits(h, s)
  BY <1>1, <1>4, Busy DEF PullSave
<1>6. DOMAIN req[h] = Held /\ n \in Names /\ n \in DOMAIN links /\ LinkRight(req[h].link, n)
  BY <1>1, <1>2, <1>5 DEF HoldsRight, Reviewing
<1>7. s.at = "review" /\ DOMAIN s = Held /\ s.name = n
  BY <1>2, <1>4, <1>6 DEF Held
<1>8. LinkRight(row, n) /\ row.pr = "open" /\ row.state = req[h].link.state
  BY <1>3, <1>6 DEF LinkRight
<1>9. links' = With(links, n, row)
  BY <1>2, <1>3 DEF PullSave
<1>10. LinksRight /\ GithubRight /\ DOMAIN links \subseteq Names
  BY DEF GithubInv, LinksRight
<1>11. /\ DOMAIN links' = DOMAIN links /\ links'[n] = row /\ \A m \in DOMAIN links : m # n => links'[m] = links[m]
       /\ DOMAIN links' \subseteq Names /\ \A m \in DOMAIN links' : LinkRight(links'[m], m)
  BY <1>6, <1>8, <1>9, <1>10, LinkReplaced
<1>12. LinksRight'
  BY <1>11 DEF LinksRight
<1>13. GithubRight' /\ Waiting' = Waiting /\ ghBranches' = ghBranches /\ ghPull' = ghPull
  BY <1>1, <1>10 DEF GithubRight, Waiting
<1>14. HoldsRight(s, links') /\ HoldsCurrent(s, links')
  BY <1>6, <1>7, <1>11 DEF HoldsRight, HoldsCurrent, Starting, Reviewing
<1>15. s.at \notin Telling \cup {"pulled", "link"} /\ s.at \in LinksAwaits
  BY <1>7 DEF Telling, Reviewing, LinksAwaits
<1>16. ASSUME Orderly, InStep(Followed, req[h], links, Waiting, ghBranches, ghPull)
       PROVE  InStep(Followed, s, links', Waiting', ghBranches', ghPull')
  <2>1. req[h].link = links[n]
    BY <1>1, <1>2, <1>5, <1>16 DEF GithubInv, HoldsCurrent
  <2>2. n \notin Followed \/ ghPull[n] = "open" \/ Coming(Waiting, "pull_request", n) # {}
    BY <1>1, <1>2, <1>16 DEF InStep, PullsInStep
  <2>3. n \notin Followed \/ links'[n].pr = ghPull[n] \/ Coming(Waiting, "pull_request", n) # {}
    BY <1>8, <1>11, <2>2
  <2>4. links'[n].state = "open" => links[n].state = "open"
    BY <1>8, <1>11, <2>1
  <2>5. req[h].at \notin PullTold /\ req[h].at # "delete"
    BY <1>1 DEF PullTold
  <2>6. InStep(Followed, s, links', Waiting, ghBranches, ghPull)
    <3>1. PICK r, K : r = req[h] /\ r.name = n /\ K = links'
      BY <1>2
    <3>2. s.at \notin Telling \cup {"pulled", "link"}
      BY <1>15
    <3>3. DOMAIN K = DOMAIN links
      BY <1>11, <3>1
    <3>4. \A m \in DOMAIN links : m # r.name => K[m] = links[m]
      BY <1>11, <3>1
    <3>5. r.name \in Followed => r.name \in DOMAIN links
      BY <1>6, <3>1
    <3>6. InStep(Followed, r, links, Waiting, ghBranches, ghPull)
      BY <1>16, <3>1
    <3>7. \/ r.name \notin Followed \/ K[r.name].pr = ghPull[r.name]
          \/ Coming(Waiting, "pull_request", r.name) # {}
          \/ K[r.name].pr = links[r.name].pr /\ r.at \notin PullTold
      BY <2>3, <3>1
    <3>8. r.name \in Followed /\ K[r.name].state = "open" =>
            links[r.name].state = "open" /\ r.at # "delete" /\ ~(r.at \in PullTold /\ r.pr = "merged")
      BY <2>4, <2>5, <3>1
    <3>9. InStep(Followed, s, K, Waiting, ghBranches, ghPull)
      BY <3>2, <3>3, <3>4, <3>5, <3>6, <3>7, <3>8, LinkWritten
    <3> QED BY <3>1, <3>9
  <2> QED BY <1>13, <2>6
<1>17. InOrder => Orderly
  BY DEF InOrder
<1> QED BY <1>1, <1>5, <1>11, <1>12, <1>13, <1>14, <1>15, <1>16, <1>17, HandlerMoves

-----------------------------------------------------------------------------
(* Deliveries *)

\* Home is known, and stays so.
LEMMA HomeResolved ==
    ASSUME HomeKnown, HomeStands
    PROVE  Resolved(Home) # {}
<1>1. PICK r \in DOMAIN mode.registry :
        mode.registry[r].ext = Home \/ mode.registry[r].name = mode.ghRepos[Home].name
  BY DEF HomeKnown
<1>2. r \in DOMAIN registry /\ (registry[r].ext = Home \/ registry[r].name = ghRepos[Home].name)
  BY <1>1 DEF HomeStands
<1> QED BY <1>2 DEF Resolved, ById, ByRef

LEMMA ReceiveKeeps ==
    ASSUME GithubLinksAssumption, GithubInv, NEW h \in Handlers, NEW k \in 1 .. Len(hooks), NEW answered \in BOOLEAN,
           Receive(h, k, answered)
    PROVE  GithubInv'
<1>1. /\ LinksRight /\ GithubRight /\ QueueRight(hooks, stored, emitted)
      /\ hooks \in Seq(Delivered) /\ k \in DOMAIN hooks
  BY DEF GithubInv, GithubRight, QueueRight
<1>2. /\ h \in mode.handlers /\ req[h].at = "idle"
      /\ UNCHANGED <<links, missed, registry, ghRepos, ghBranches, ghPull, emitted>>
  BY DEF Receive, MayStart, repositories
<1>3. PICK d : d = hooks[k]
  OBVIOUS
<1>4. PICK t : t = hooks' /\ (t = hooks \/ t = Taken(hooks, k))
  BY DEF Receive
<1>5. PICK more : more = stored \cup {d.id}
  OBVIOUS
<1>6. /\ d \in Delivered /\ QueueRight(t, more, emitted)
      /\ d.id \in stored => Left(t, more) = Left(hooks, stored)
      /\ d.id \notin stored => d \in Left(hooks, stored) /\ Left(t, more) = Left(hooks, stored) \ {d}
      /\ d.id \notin stored /\ (\A j \in 1 .. k - 1 : hooks[j].id \in stored) =>
            \A e \in Left(t, more) : d.id < e.id
  <2>1. \A id : id \in more <=> id \in stored \/ id = hooks[k].id
    BY <1>3, <1>5
  <2>2. t = hooks \/ t = Taken(hooks, k)
    BY <1>4
  <2>3. /\ hooks[k] \in Delivered /\ QueueRight(t, more, emitted)
        /\ hooks[k].id \in stored => Left(t, more) = Left(hooks, stored)
        /\ hooks[k].id \notin stored =>
              hooks[k] \in Left(hooks, stored) /\ Left(t, more) = Left(hooks, stored) \ {hooks[k]}
        /\ hooks[k].id \notin stored /\ (\A j \in 1 .. k - 1 : hooks[j].id \in stored) =>
              \A e \in Left(t, more) : hooks[k].id < e.id
    BY <1>1, <2>1, <2>2, OneLessLeft
  <2> QED BY <1>3, <2>3
<1>7. stored' = more
  BY <1>3, <1>5 DEF Receive, AlreadyStored
<1>8. links' = links /\ LinksRight' /\ GithubRight' /\ DOMAIN links \subseteq Names
  BY <1>1, <1>2, <1>4, <1>6, <1>7 DEF LinksRight, GithubRight
<1>9. d.event \in {"create", "delete", "pull_request"} /\ d.name \in Names
  BY <1>6 DEF Delivered
<1>10. PICK s : s = [Holding(d.event, None, d.name) EXCEPT !.pr = d.pr]
  OBVIOUS
<1>11. DOMAIN s = Held /\ s.at = d.event /\ s.name = d.name /\ s.pr = d.pr
  BY <1>10 DEF Holding, Held
<1>12. /\ HoldsRight(s, links') /\ HoldsCurrent(s, links') /\ s.at \in LinksAwaits
       /\ HoldsRight(Idle, links') /\ HoldsCurrent(Idle, links') /\ Idle.at \in LinksAwaits
  BY <1>9, <1>11, IdleHolds DEF HoldsRight, HoldsCurrent, Starting, Reviewing, LinksAwaits, Telling
<1>13. CASE Ends(h)
  <2>1. d.id \in stored \/ Resolved(Home) = {} \/ s = Idle
    <3>1. d.id \in stored \/ Resolved(Home) = {} \/ Awaits(h, s)
      BY <1>3, <1>10 DEF Receive, AlreadyStored
    <3>2. ASSUME Awaits(h, s) PROVE s = Idle
      <4>1. req = [g \in Handlers |-> req[g]]
        BY DEF GithubInv, HandsRight
      <4>2. req'[h] = s /\ req'[h] = Idle
        BY <1>13, <3>2, <4>1 DEF Ends, Awaits
      <4> QED BY <4>2
    <3> QED BY <3>1, <3>2
  <2>2. s # Idle
    BY <1>9, <1>11, IdleHolds
  <2>3. ASSUME InOrder, HomeKnown, InStep(Followed, req[h], links, Waiting, ghBranches, ghPull)
        PROVE  InStep(Followed, Idle, links', Waiting', ghBranches', ghPull')
    <3>1. d.id \in stored
      BY <2>1, <2>2, <2>3, HomeResolved DEF GithubInv
    <3>2. Waiting' = Waiting
      BY <1>4, <1>6, <1>7, <3>1 DEF Waiting
    <3>3. req[h].at \notin Telling /\ Idle.at \notin Telling \cup {"pulled", "link"}
      BY <1>2, IdleHolds DEF Telling
    <3> QED BY <1>2, <1>8, <2>3, <3>2, <3>3, RequestGoesOn
  <2>4. Awaits(h, Idle)
    BY <1>13 DEF Ends
  <2> QED BY <1>2, <1>8, <1>12, <2>3, <2>4, HandlerMoves
<1>14. CASE Awaits(h, s) /\ d.id \notin stored
  <2>1. ASSUME InOrder, InStep(Followed, req[h], links, Waiting, ghBranches, ghPull)
        PROVE  InStep(Followed, s, links', Waiting', ghBranches', ghPull')
    <3>1. \A j \in 1 .. k - 1 : hooks[j].id \in stored
      BY <2>1 DEF Receive, InOrder
    <3>2. /\ d \in Waiting /\ Waiting' = Waiting \ {d} /\ \A e \in Waiting' : d.id < e.id
      BY <1>4, <1>6, <1>7, <1>14, <3>1 DEF Waiting
    <3>3. WaitingRight(Waiting)
      BY <1>1, LeftRight DEF Waiting
    <3>4. InStep(Followed, s, links, Waiting', ghBranches, ghPull)
      BY <1>2, <1>8, <1>11, <2>1, <3>2, <3>3, DeliveryTaken
    <3> QED BY <1>2, <3>4
  <2> QED BY <1>2, <1>8, <1>12, <1>14, <2>1, HandlerMoves
<1>15. Ends(h) \/ (Awaits(h, s) /\ d.id \notin stored)
  BY <1>3, <1>10 DEF Receive, AlreadyStored
<1> QED BY <1>13, <1>14, <1>15

\* A delivery in hand ends with nothing more to say.
LEMMA TellingEnds ==
    ASSUME GithubLinksAssumption, GithubInv, NEW h \in Handlers, Ends(h), req[h].at \in Telling,
           UNCHANGED <<stored, ghBranches, ghPull, hooks, emitted, missed, registry, ghRepos>>,
           LinksRight', DOMAIN links \subseteq DOMAIN links',
           InOrder /\ HomeKnown /\ InStep(Followed, req[h], links, Waiting, ghBranches, ghPull) =>
               InStep(Followed, Idle, links', Waiting, ghBranches, ghPull)
    PROVE  GithubInv'
<1>1. req[h].at # "idle"
  BY DEF Telling
<1>2. h \in mode.handlers /\ Awaits(h, Idle)
  BY <1>1, Busy DEF Ends
<1>3. GithubRight' /\ Waiting' = Waiting /\ ghBranches' = ghBranches /\ ghPull' = ghPull
  BY DEF GithubInv, GithubRight, Waiting
<1>4. HoldsRight(Idle, links') /\ HoldsCurrent(Idle, links') /\ Idle.at \in LinksAwaits
  BY IdleHolds DEF HoldsCurrent, LinksAwaits
<1> QED BY <1>2, <1>3, <1>4, HandlerMoves

LEMMA IdleTellsNothing == Idle.at \notin Telling \cup {"pulled", "link"}
BY IdleHolds DEF Telling

LEMMA CreatedFindKeeps ==
    ASSUME GithubLinksAssumption, GithubInv, NEW h \in Handlers, BranchCreatedFind(h)
    PROVE  GithubInv'
<1>1. /\ req[h].at = "create" /\ req[h].at \in Telling /\ req[h].at # "idle"
      /\ UNCHANGED <<links, stored, ghBranches, ghPull, hooks, emitted, missed, registry, ghRepos>>
  BY DEF BranchCreatedFind, hq, github, repositories, Telling
<1>2. PICK n : n = req[h].name
  OBVIOUS
<1>3. h \in mode.handlers /\ DOMAIN req[h] = Held /\ n \in Names
  BY <1>1, <1>2, Busy DEF HoldsRight
<1>4. /\ LinksRight' /\ GithubRight' /\ DOMAIN links \subseteq DOMAIN links' /\ links' = links
      /\ Waiting' = Waiting /\ ghBranches' = ghBranches /\ ghPull' = ghPull
  BY <1>1, NothingWritten
<1>5. DOMAIN links \subseteq Names /\ LinksRight
  BY DEF GithubInv, LinksRight
<1>6. Bearing(n) # {}
  BY <1>3, Recognised
<1>7. CASE n \in DOMAIN links
  <2>1. Ends(h)
    BY <1>2, <1>7 DEF BranchCreatedFind
  <2>2. InStep(Followed, req[h], links, Waiting, ghBranches, ghPull) => InStep(Followed, Idle, links', Waiting, ghBranches, ghPull)
    <3>1. req[h].at \notin PullTold /\ req[h].at # "delete"
      BY <1>1 DEF PullTold
    <3> QED BY <1>2, <1>4, <1>5, <1>7, <3>1, LinkWritten, IdleTellsNothing
  <2> QED BY <1>1, <1>4, <2>1, <2>2, TellingEnds
<1>8. CASE n \notin DOMAIN links
  <2>1. PICK t \in Bearing(n) : Awaits(h, [req[h] EXCEPT !.at = "recognise", !.ticket = t])
    BY <1>2, <1>6, <1>8 DEF BranchCreatedFind
  <2>2. PICK s : s = [req[h] EXCEPT !.at = "recognise", !.ticket = t]
    OBVIOUS
  <2>3. /\ s.at = "recognise" /\ s.ticket = t /\ s.name = n /\ s.pr = req[h].pr /\ DOMAIN s = Held
    BY <1>2, <1>3, <2>2 DEF Held
  <2>4. /\ HoldsRight(s, links') /\ HoldsCurrent(s, links') /\ s.at \in LinksAwaits
    BY <1>3, <2>1, <2>3 DEF HoldsRight, HoldsCurrent, LinksAwaits, Starting, Telling
  <2>5. InStep(Followed, req[h], links, Waiting, ghBranches, ghPull) =>
          InStep(Followed, s, links', Waiting', ghBranches', ghPull')
    BY <1>1, <1>2, <1>4, <2>3, DeliveryGoesOn
  <2> QED BY <1>1, <1>3, <1>4, <2>1, <2>2, <2>4, <2>5, HandlerMoves
<1> QED BY <1>7, <1>8

LEMMA CreatedSaveKeeps ==
    ASSUME GithubLinksAssumption, GithubInv, NEW h \in Handlers, BranchCreatedSave(h)
    PROVE  GithubInv'
<1>1. /\ req[h].at = "recognise" /\ req[h].at \in Telling /\ req[h].at # "idle" /\ Ends(h)
      /\ UNCHANGED <<stored, ghBranches, ghPull, hooks, emitted, missed, registry, ghRepos>>
  BY DEF BranchCreatedSave, github, repositories, Telling
<1>2. PICK n : n = req[h].name
  OBVIOUS
<1>3. PICK t : t = req[h].ticket
  OBVIOUS
<1>4. h \in mode.handlers /\ n \in Names /\ t \in Bearing(n)
  BY <1>1, <1>2, <1>3, Busy DEF HoldsRight
<1>5. Joins(t, n)
  BY <1>4 DEF Joins, Bearing
<1>6. DOMAIN links \subseteq Names /\ LinksRight
  BY DEF GithubInv, LinksRight
<1>7. CASE n \in DOMAIN links
  <2>1. links' = links
    BY <1>2, <1>7 DEF BranchCreatedSave
  <2>2. InStep(Followed, req[h], links, Waiting, ghBranches, ghPull) => InStep(Followed, Idle, links', Waiting, ghBranches, ghPull)
    <3>1. req[h].at \notin PullTold /\ req[h].at # "delete"
      BY <1>1 DEF PullTold
    <3> QED BY <1>2, <1>6, <1>7, <2>1, <3>1, LinkWritten, IdleTellsNothing
  <2>3. LinksRight' /\ DOMAIN links \subseteq DOMAIN links'
    BY <1>6, <2>1 DEF LinksRight
  <2> QED BY <1>1, <2>2, <2>3, TellingEnds
<1>8. CASE n \notin DOMAIN links
  <2>1. PICK link : link = Link(t, "open", "none")
    OBVIOUS
  <2>2. LinkRight(link, n) /\ link.pr = "none"
    BY <1>5, <2>1, NewLinkRight
  <2>3. PICK K : K = With(links, n, link) /\ K = links'
    BY <1>2, <1>3, <1>8, <2>1 DEF BranchCreatedSave
  <2>4. /\ DOMAIN K = DOMAIN links \cup {n} /\ K[n].pr = "none"
        /\ \A m \in DOMAIN links : m # n => K[m] = links[m]
        /\ DOMAIN K \subseteq Names /\ \A m \in DOMAIN K : LinkRight(K[m], m)
    <3>1. LinksRight /\ n \in Names
      BY <1>4, <1>6
    <3>2. K = With(links, n, link)
      BY <2>3
    <3>3. DOMAIN K = DOMAIN links \cup {n} /\ K[n] = link /\ \A m \in DOMAIN links : m # n => K[m] = links[m]
      BY <3>2 DEF With
    <3> QED BY <2>2, <3>1, <3>3 DEF LinksRight
  <2>5. LinksRight' /\ DOMAIN links \subseteq DOMAIN links'
    BY <2>3, <2>4 DEF LinksRight
  <2>6. InStep(Followed, req[h], links, Waiting, ghBranches, ghPull) => InStep(Followed, Idle, links', Waiting, ghBranches, ghPull)
    <3>1. \A m \in DOMAIN links : K[m] = links[m]
      BY <1>8, <2>4
    <3> QED BY <1>1, <1>2, <1>4, <1>6, <1>8, <2>3, <2>4, <3>1, LinkAdded, IdleTellsNothing
  <2> QED BY <1>1, <2>5, <2>6, TellingEnds
<1> QED BY <1>7, <1>8

LEMMA DeletedKeeps ==
    ASSUME GithubLinksAssumption, GithubInv, NEW h \in Handlers, BranchDeleted(h)
    PROVE  GithubInv'
<1>1. /\ req[h].at = "delete" /\ req[h].at \in Telling /\ req[h].at # "idle" /\ Ends(h)
      /\ UNCHANGED <<stored, ghBranches, ghPull, hooks, emitted, missed, registry, ghRepos>>
  BY DEF BranchDeleted, github, repositories, Telling
<1>2. PICK n : n = req[h].name
  OBVIOUS
<1>3. n \in Names
  BY <1>1, <1>2, Busy DEF HoldsRight
<1>4. DOMAIN links \subseteq Names /\ LinksRight
  BY DEF GithubInv, LinksRight
<1>5. /\ DOMAIN links' = DOMAIN links /\ \A m \in DOMAIN links : m # n => links'[m] = links[m]
      /\ n \in DOMAIN links => LinkRight(links'[n], n) /\ links'[n].pr = links[n].pr /\ links'[n].state # "open"
  <2>1. CASE n \in DOMAIN links /\ links[n].state = "open"
    <3>1. LinkRight(links[n], n)
      BY <2>1 DEF GithubInv, LinksRight
    <3>2. PICK row : row = [links[n] EXCEPT !.state = "deleted"]
      OBVIOUS
    <3>3. LinkRight(row, n) /\ row.pr = links[n].pr /\ row.state = "deleted"
      BY <3>1, <3>2 DEF LinkRight
    <3>4. links' = [links EXCEPT ![n] = row]
      BY <1>2, <2>1, <3>2 DEF BranchDeleted
    <3> QED BY <2>1, <3>3, <3>4
  <2>2. CASE ~(n \in DOMAIN links /\ links[n].state = "open")
    <3>1. links' = links
      BY <1>2, <2>2 DEF BranchDeleted
    <3> QED BY <2>2, <3>1 DEF GithubInv, LinksRight
  <2> QED BY <2>1, <2>2
<1>6. LinksRight' /\ DOMAIN links \subseteq DOMAIN links'
  BY <1>4, <1>5 DEF LinksRight
<1>7. InOrder /\ HomeKnown /\ InStep(Followed, req[h], links, Waiting, ghBranches, ghPull) =>
        InStep(Followed, Idle, links', Waiting, ghBranches, ghPull)
  <2>1. SUFFICES ASSUME InStep(Followed, req[h], links, Waiting, ghBranches, ghPull)
                 PROVE  InStep(Followed, Idle, links', Waiting, ghBranches, ghPull)
    OBVIOUS
  <2>2. n \in Followed => n \in DOMAIN links
    BY <1>1, <1>2, <2>1 DEF InStep, CreationsInStep, Handling
  <2>3. req[h].at \notin PullTold
    BY <1>1 DEF PullTold
  <2>4. n \in Followed => links'[n].pr = links[n].pr /\ links'[n].state # "open"
    BY <1>5, <2>2
  <2>5. PICK K : K = links'
    OBVIOUS
  <2>6. DOMAIN K = DOMAIN links /\ \A m \in DOMAIN links : m # n => K[m] = links[m]
    BY <1>5, <2>5
  <2>7. n \in Followed => K[n].pr = links[n].pr /\ K[n].state # "open"
    BY <2>4, <2>5
  <2>8. InStep(Followed, Idle, K, Waiting, ghBranches, ghPull)
    BY <1>2, <2>1, <2>2, <2>3, <2>6, <2>7, LinkWritten, IdleTellsNothing
  <2> QED BY <2>5, <2>8
<1> QED BY <1>1, <1>6, <1>7, TellingEnds

LEMMA PullEventFindKeeps ==
    ASSUME GithubLinksAssumption, GithubInv, NEW h \in Handlers, PullEventFind(h)
    PROVE  GithubInv'
<1>1. /\ req[h].at = "pull_request" /\ req[h].at \in Telling /\ req[h].at # "idle"
      /\ UNCHANGED <<links, stored, ghBranches, ghPull, hooks, emitted, missed, registry, ghRepos>>
  BY DEF PullEventFind, hq, github, repositories, Telling
<1>2. PICK n : n = req[h].name
  OBVIOUS
<1>3. h \in mode.handlers /\ DOMAIN req[h] = Held /\ n \in Names
  BY <1>1, <1>2, Busy DEF HoldsRight
<1>4. /\ LinksRight' /\ GithubRight' /\ DOMAIN links \subseteq DOMAIN links' /\ links' = links
      /\ Waiting' = Waiting /\ ghBranches' = ghBranches /\ ghPull' = ghPull
  BY <1>1, NothingWritten
<1>5. CASE n \notin DOMAIN links
  <2>1. Ends(h)
    BY <1>2, <1>5 DEF PullEventFind
  <2>2. ASSUME InStep(Followed, req[h], links, Waiting, ghBranches, ghPull)
        PROVE  InStep(Followed, Idle, links', Waiting, ghBranches, ghPull)
    <3>1. n \notin Followed
      BY <1>1, <1>2, <1>5, <2>2 DEF InStep, CreationsInStep, Handling, PullTold
    <3> QED BY <1>2, <1>4, <2>2, <3>1, OffRecord, IdleTellsNothing
  <2> QED BY <1>1, <1>4, <2>1, <2>2, TellingEnds
<1>6. CASE n \in DOMAIN links
  <2>1. PICK s : s = [req[h] EXCEPT !.at = "mirror", !.link = links[n]]
    OBVIOUS
  <2>2. Awaits(h, s)
    BY <1>2, <1>6, <2>1 DEF PullEventFind
  <2>3. /\ s.at = "mirror" /\ s.link = links[n] /\ s.name = n /\ s.pr = req[h].pr /\ DOMAIN s = Held
    BY <1>2, <1>3, <2>1 DEF Held
  <2>4. LinkRight(links[n], n)
    BY <1>6 DEF GithubInv, LinksRight
  <2>5. /\ HoldsRight(s, links') /\ HoldsCurrent(s, links') /\ s.at \in LinksAwaits
    BY <1>3, <1>4, <1>6, <2>3, <2>4 DEF HoldsRight, HoldsCurrent, LinksAwaits, Starting, Telling
  <2>6. InStep(Followed, req[h], links, Waiting, ghBranches, ghPull) =>
          InStep(Followed, s, links', Waiting', ghBranches', ghPull')
    BY <1>1, <1>2, <1>4, <2>3, DeliveryGoesOn
  <2> QED BY <1>1, <1>3, <1>4, <2>2, <2>5, <2>6, HandlerMoves
<1> QED BY <1>5, <1>6

LEMMA PullEventSaveKeeps ==
    ASSUME GithubLinksAssumption, GithubInv, NEW h \in Handlers, PullEventSave(h)
    PROVE  GithubInv'
<1>1. /\ req[h].at = "mirror" /\ req[h].at \in Telling /\ req[h].at # "idle" /\ Ends(h)
      /\ UNCHANGED <<stored, ghBranches, ghPull, hooks, emitted, missed, registry, ghRepos>>
  BY DEF PullEventSave, github, repositories, Telling
<1>2. PICK n : n = req[h].name
  OBVIOUS
<1>3. PICK row : row = Mirrored(req[h].link, req[h].pr)
  OBVIOUS
<1>4. h \in mode.handlers /\ n \in Names /\ n \in DOMAIN links /\ LinkRight(req[h].link, n)
  BY <1>1, <1>2, Busy DEF HoldsRight
<1>5. /\ LinkRight(row, n) /\ row.pr = req[h].pr
      /\ row.state = "open" => req[h].link.state = "open" /\ req[h].pr # "merged"
  BY <1>3, <1>4 DEF LinkRight, Mirrored
<1>6. links' = With(links, n, row)
  BY <1>2, <1>3 DEF PullEventSave
<1>7. DOMAIN links \subseteq Names /\ LinksRight
  BY DEF GithubInv, LinksRight
<1>8. /\ DOMAIN links' = DOMAIN links /\ links'[n] = row /\ \A m \in DOMAIN links : m # n => links'[m] = links[m]
      /\ DOMAIN links' \subseteq Names /\ \A m \in DOMAIN links' : LinkRight(links'[m], m)
  BY <1>4, <1>5, <1>6, <1>7, LinkReplaced
<1>9. LinksRight' /\ DOMAIN links \subseteq DOMAIN links'
  BY <1>8 DEF LinksRight
<1>10. ASSUME Orderly, InStep(Followed, req[h], links, Waiting, ghBranches, ghPull)
       PROVE  InStep(Followed, Idle, links', Waiting, ghBranches, ghPull)
  <2>1. req[h].link = links[n]
    BY <1>1, <1>2, <1>4, <1>10 DEF GithubInv, HoldsCurrent
  <2>2. n \notin Followed \/ links'[n].pr = ghPull[n] \/ Coming(Waiting, "pull_request", n) # {}
    BY <1>1, <1>2, <1>5, <1>8, <1>10 DEF InStep, PullsInStep, PullTold
  <2>3. links'[n].state = "open" => links[n].state = "open" /\ req[h].at # "delete" /\ req[h].pr # "merged"
    BY <1>1, <1>5, <1>8, <2>1
  <2> QED BY <1>2, <1>4, <1>7, <1>8, <1>10, <2>2, <2>3, LinkWritten, IdleTellsNothing
<1>11. InOrder => Orderly
  BY DEF InOrder
<1> QED BY <1>1, <1>9, <1>10, <1>11, TellingEnds

-----------------------------------------------------------------------------
(* GitHub, and the registry *)

\* People move things at GitHub while requests wait.
LEMMA GithubKeeps ==
    ASSUME GithubInv, NEW n \in Names, GithubStep(n)
    PROVE  GithubInv'
<1>1. LinksRight /\ GithubRight /\ mode \in Modes /\ HandsRight
  BY DEF GithubInv
<1>2. UNCHANGED <<links, stored, registry, req, mode, ghRepos>>
  BY DEF GithubStep, hq, repositories, GhCreates, GhDeletes, GhOpensPull, GhEndsPull, GhPulls, Emits
<1>3. ASSUME NEW r PROVE GithubFollows(r)
  <2>1. CASE GhCreates(n)
    BY <1>1, <1>2, <1>3, <2>1, CreationFollows
  <2>2. CASE GhDeletes(n)
    BY <1>1, <1>2, <1>3, <2>2, DeletionFollows
  <2>3. CASE GhOpensPull(n)
    BY <1>1, <1>2, <1>3, <2>3, PullFollows DEF GhOpensPull, PullStates
  <2>4. ASSUME NEW pr \in {"closed", "merged"}, GhEndsPull(n, pr) PROVE GithubFollows(r)
    <3>1. pr \in PullStates /\ GhPulls(n, pr) /\ ghPull[n] # "none"
      BY <2>4 DEF GhEndsPull, PullStates
    <3> QED BY <1>1, <1>2, <1>3, <3>1, PullFollows
  <2> QED BY <2>1, <2>2, <2>3, <2>4 DEF GithubStep
<1>4. Followed' = Followed /\ Followed \in SUBSET Names
  BY DEF Followed, GithubStep, GhCreates, GhDeletes, GhOpensPull, GhEndsPull, GhPulls, Emits
<1>5. GithubRight'
  BY <1>3 DEF GithubFollows
<1>7. LinksRight' /\ HandsRight' /\ (Orderly' => \A h \in mode'.handlers : HoldsCurrent(req'[h], links'))
  BY <1>1, <1>2 DEF GithubInv, LinksRight, HandsRight, Orderly
<1>8. HomeKnown' => HomeStands'
  BY <1>2 DEF GithubInv, HomeKnown, HomeStands, At
<1>9. ASSUME InOrder', HomeKnown', NEW h \in mode'.handlers
      PROVE  InStep(Followed', req'[h], links', Waiting', ghBranches', ghPull')
  <2>1. mode' = mode /\ req' = req /\ links' = links
    BY <1>2
  <2>2. InOrder /\ HomeKnown
    BY <1>9, <2>1 DEF InOrder, Orderly, HomeKnown
  <2>4. InStep(Followed, req[h], links, Waiting, ghBranches, ghPull)
    BY <1>9, <2>1, <2>2 DEF GithubInv
  <2>5. GithubFollows(req[h])
    BY <1>3
  <2> QED BY <1>4, <2>1, <2>4, <2>5 DEF GithubFollows
<1> QED BY <1>1, <1>2, <1>5, <1>7, <1>8, <1>9 DEF GithubInv

\* What a request to the registry holds says nothing of the links.
RegistryAwaits ==
    {"register", "discover", "by name", "discovered", "fetch", "sync", "update", "link project"}

LEMMA RegistryApart == RegistryAwaits \cap LinksAwaits = {}
BY DEF RegistryAwaits, LinksAwaits, Starting, Reviewing, Telling

\* A step of the registry leaves the links alone.
LEMMA RegistryKeeps ==
    ASSUME GithubLinksAssumption, GithubInv, UNCHANGED <<links, stored, ghBranches, ghPull, hooks, emitted, missed>>,
           NEW h \in Handlers, h \in mode.handlers, NEW s, Awaits(h, s), "at" \in DOMAIN s,
           s.at \in RegistryAwaits \cup {"idle"}, req[h].at \in RegistryAwaits \cup {"idle"},
           HomeKnown => HomeStands'
    PROVE  GithubInv'
<1>1. /\ LinksRight' /\ GithubRight' /\ DOMAIN links \subseteq DOMAIN links' /\ links' = links
      /\ Waiting' = Waiting /\ ghBranches' = ghBranches /\ ghPull' = ghPull
  BY NothingWritten
<1>2. s.at \notin Starting \cup Reviewing \cup Telling /\ req[h].at \notin Starting \cup Reviewing \cup Telling
  BY DEF RegistryAwaits, Starting, Reviewing, Telling
<1>3. HoldsRight(s, links) /\ HoldsCurrent(s, links)
  BY <1>2 DEF HoldsRight, HoldsCurrent, Starting, Reviewing, Telling
<1>4. /\ HandsRight' /\ mode' = mode /\ req'[h] = s
      /\ \A g \in Handlers : g # h => req'[g] = req[g]
  BY <1>1, <1>3, HandsMove DEF GithubInv
<1>5. mode' \in Modes /\ (HomeKnown' => HomeStands')
  BY <1>4 DEF GithubInv, HomeKnown
<1>6. Orderly' => \A g \in mode'.handlers : HoldsCurrent(req'[g], links')
  <2>1. SUFFICES ASSUME Orderly, NEW g \in mode.handlers PROVE HoldsCurrent(req'[g], links')
    BY <1>4 DEF Orderly
  <2>2. g = h
    BY <2>1, OneHand DEF GithubInv
  <2> QED BY <1>1, <1>3, <1>4, <2>2
<1>7. ASSUME InOrder', HomeKnown', NEW g \in mode'.handlers
      PROVE  InStep(Followed', req'[g], links', Waiting', ghBranches', ghPull')
  <2>1. InOrder /\ HomeKnown /\ Orderly
    BY <1>4, <1>7 DEF InOrder, Orderly, HomeKnown
  <2>2. g = h
    BY <1>4, <1>7, <2>1, OneHand DEF GithubInv
  <2>3. InStep(Followed, req[h], links, Waiting, ghBranches, ghPull)
    BY <2>1 DEF GithubInv
  <2>4. s.at # "pulled" /\ s.at # "link"
    BY <1>2 DEF Starting, Reviewing
  <2>5. InStep(Followed, s, links, Waiting, ghBranches, ghPull)
    BY <1>2, <2>3, <2>4, RequestGoesOn
  <2>6. Followed' = Followed
    BY DEF Followed
  <2> QED BY <1>1, <1>4, <2>2, <2>5, <2>6
<1> QED BY <1>1, <1>4, <1>5, <1>6, <1>7 DEF GithubInv

\* Only updates and permits are asked of a registry that goes on knowing Home.
LEMMA HomeHeld ==
    ASSUME HomeStands, UNCHANGED <<registry, ghRepos>>, HandsRight, NEW h \in Handlers, NEW s, Awaits(h, s),
           s.at \in {"idle", "link project"} \/
           (s.at = "update" /\ s.id \in DOMAIN registry /\ RowShaped(s.row) /\
            s.row.ext = registry[s.id].ext /\ s.row.name = registry[s.id].name)
    PROVE  HomeStands'
<1>1. req' = [req EXCEPT ![h] = s] /\ mode' = mode /\ req = [g \in Handlers |-> req[g]]
  BY DEF Awaits, HandsRight
<1>2. req'[h] = s /\ \A g \in Handlers : g # h => req'[g] = req[g]
  BY <1>1
<1>3. registry' = registry /\ ghRepos' = ghRepos
  OBVIOUS
<1>4. \A g \in Handlers :
        /\ req'[g].at # "register" /\ req'[g].at # "discover" /\ req'[g].at # "by name"
        /\ req'[g].at # "discovered" /\ req'[g].at # "fetch" /\ req'[g].at # "sync"
        /\ req'[g].at = "update" =>
              /\ req'[g].id \in DOMAIN registry /\ RowShaped(req'[g].row)
              /\ req'[g].row.ext = registry[req'[g].id].ext
              /\ req'[g].row.name = registry[req'[g].id].name
  BY <1>2 DEF HomeStands, At
<1>5. \A g \in Handlers : req'[g].at = "update" =>
        /\ req'[g].id \in DOMAIN registry' /\ RowShaped(req'[g].row)
        /\ req'[g].row.ext = registry'[req'[g].id].ext
        /\ req'[g].row.name = registry'[req'[g].id].name
  BY <1>3, <1>4
<1>6. /\ ghRepos' = mode'.ghRepos /\ \A r \in DOMAIN registry' : RowShaped(registry'[r])
      /\ DOMAIN registry' = DOMAIN mode'.registry
      /\ \A r \in DOMAIN registry' :
            registry'[r].ext = mode'.registry[r].ext /\ registry'[r].name = mode'.registry[r].name
  BY <1>1, <1>3 DEF HomeStands
<1> QED BY <1>4, <1>5, <1>6 DEF HomeStands, At

\* An update that is saved changes neither the identifier nor the name.
LEMMA HomeUpdated ==
    ASSUME HomeStands, HandsRight, NEW h \in Handlers, UpdateSave(h)
    PROVE  HomeStands'
<1>1. req[h].at = "update" /\ Ends(h) /\ ghRepos' = ghRepos
  BY DEF UpdateSave, At
<1>2. PICK id : id = req[h].id
  OBVIOUS
<1>3. PICK row : row = req[h].row
  OBVIOUS
<1>4. registry' = With(registry, id, row)
  BY <1>2, <1>3 DEF UpdateSave
<1>5. id \in DOMAIN registry /\ RowShaped(row) /\ row.ext = registry[id].ext /\ row.name = registry[id].name
  BY <1>1, <1>2, <1>3 DEF HomeStands, At
<1>6. /\ DOMAIN registry' = DOMAIN registry
      /\ \A r \in DOMAIN registry : registry'[r] = IF r = id THEN row ELSE registry[r]
  BY <1>4, <1>5 DEF With
<1>7. \A r \in DOMAIN registry :
        /\ registry'[r].ext = registry[r].ext /\ registry'[r].name = registry[r].name
        /\ RowShaped(registry[r]) => RowShaped(registry'[r])
  BY <1>5, <1>6
<1>8. req' = [req EXCEPT ![h] = Idle] /\ mode' = mode /\ req = [g \in Handlers |-> req[g]]
  BY <1>1 DEF Awaits, Ends, HandsRight
<1>9. req'[h] = Idle /\ \A g \in Handlers : g # h => req'[g] = req[g]
  BY <1>8
<1>10. \A g \in Handlers :
        /\ req'[g].at # "register" /\ req'[g].at # "discover" /\ req'[g].at # "by name"
        /\ req'[g].at # "discovered" /\ req'[g].at # "fetch" /\ req'[g].at # "sync"
        /\ req'[g].at = "update" =>
              /\ req'[g].id \in DOMAIN registry /\ RowShaped(req'[g].row)
              /\ req'[g].row.ext = registry[req'[g].id].ext
              /\ req'[g].row.name = registry[req'[g].id].name
  BY <1>9, IdleHolds DEF HomeStands, At
<1>11. \A g \in Handlers : req'[g].at = "update" =>
        /\ req'[g].id \in DOMAIN registry' /\ RowShaped(req'[g].row)
        /\ req'[g].row.ext = registry'[req'[g].id].ext
        /\ req'[g].row.name = registry'[req'[g].id].name
  BY <1>6, <1>7, <1>10
<1>12. /\ ghRepos' = mode'.ghRepos /\ \A r \in DOMAIN registry' : RowShaped(registry'[r])
       /\ DOMAIN registry' = DOMAIN mode'.registry
       /\ \A r \in DOMAIN registry' :
             registry'[r].ext = mode'.registry[r].ext /\ registry'[r].name = mode'.registry[r].name
  BY <1>1, <1>6, <1>7, <1>8 DEF HomeStands
<1> QED BY <1>10, <1>11, <1>12 DEF HomeStands, At

LEMMA RegistryRequestKeeps ==
    ASSUME GithubLinksAssumption, GithubInv, UNCHANGED <<status, links, stored, ghBranches, ghPull, hooks, emitted, missed>>,
           NEW h \in Handlers, RegistryRequest(h)
    PROVE  GithubInv'
<1>1. HandsRight /\ (HomeKnown => HomeStands)
  BY DEF GithubInv
<1>2. "idle" \in RegistryAwaits \cup {"idle"}
  OBVIOUS
<1>3. ASSUME "discover" \in mode.manages, Discover(h) PROVE GithubInv'
  <2>1. PICK order : Awaits(h, [at |-> "discover", seen |-> [i \in DOMAIN order |-> Facts(order[i])],
                                done |-> 0, found |-> None, row |-> None])
    BY <1>3 DEF Discover
  <2>2. PICK s : s = [at |-> "discover", seen |-> [i \in DOMAIN order |-> Facts(order[i])],
                      done |-> 0, found |-> None, row |-> None]
    OBVIOUS
  <2>3. s.at = "discover" /\ "at" \in DOMAIN s /\ Awaits(h, s)
    BY <2>1, <2>2
  <2>4. h \in mode.handlers /\ req[h].at = "idle" /\ ~HomeKnown
    BY <1>3 DEF Discover, MayStart, HomeKnown
  <2> QED BY <2>3, <2>4, RegistryKeeps DEF RegistryAwaits
<1>4. ASSUME "register" \in mode.manages, NEW name, NEW ext, Register(h, name, ext) PROVE GithubInv'
  <2>1. PICK s : s = [at |-> "register", row |-> Row(ext, name, "main", FALSE, None)]
    OBVIOUS
  <2>2. s.at = "register" /\ "at" \in DOMAIN s /\ Awaits(h, s)
    BY <1>4, <2>1 DEF Register
  <2>3. h \in mode.handlers /\ req[h].at = "idle" /\ ~HomeKnown
    BY <1>4 DEF Register, MayStart, HomeKnown
  <2> QED BY <2>2, <2>3, RegistryKeeps DEF RegistryAwaits
<1>5. ASSUME "sync" \in mode.manages, NEW r, SyncFind(h, r) PROVE GithubInv'
  <2>1. PICK s : s = [at |-> "fetch", id |-> r, row |-> registry[r]]
    OBVIOUS
  <2>2. s.at = "fetch" /\ "at" \in DOMAIN s /\ Awaits(h, s)
    BY <1>5, <2>1 DEF SyncFind
  <2>3. h \in mode.handlers /\ req[h].at = "idle" /\ ~HomeKnown
    BY <1>5 DEF SyncFind, MayStart, HomeKnown
  <2> QED BY <2>2, <2>3, RegistryKeeps DEF RegistryAwaits
<1>6. ASSUME NEW r, NEW p, LinkFind(h, r, p) PROVE GithubInv'
  <2>1. PICK s : s = [at |-> "link project", id |-> r, project |-> p]
    OBVIOUS
  <2>2. s.at = "link project" /\ "at" \in DOMAIN s /\ Awaits(h, s) /\ UNCHANGED <<registry, ghRepos>>
    BY <1>6, <2>1 DEF LinkFind, repositories
  <2>3. h \in mode.handlers /\ req[h].at = "idle"
    BY <1>6 DEF LinkFind, MayStart
  <2>4. HomeKnown => HomeStands'
    BY <1>1, <2>2, HomeHeld
  <2> QED BY <2>2, <2>3, <2>4, RegistryKeeps DEF RegistryAwaits
<1>7. ASSUME NEW r, NEW p, UnlinkProject(h, r, p) PROVE GithubInv'
  <2>1. UNCHANGED <<registry, ghRepos, req, mode>>
    BY <1>7 DEF UnlinkProject
  <2> QED BY <2>1 DEF GithubInv, LinksRight, HandsRight, GithubRight, Orderly, HomeKnown, HomeStands, At, InOrder,
                      Waiting, Followed
<1>8. ASSUME NEW r \in DOMAIN registry, NEW archived, NEW side, UpdateFind(h, r, side, archived) PROVE GithubInv'
  <2>1. PICK row : row = [registry[r] EXCEPT !.side = Given(side, @), !.archived = Given(archived, @)]
    OBVIOUS
  <2>2. PICK s : s = [at |-> "update", id |-> r, row |-> row]
    OBVIOUS
  <2>3. s.at = "update" /\ s.id = r /\ s.row = row /\ "at" \in DOMAIN s /\ Awaits(h, s) /\ UNCHANGED <<registry, ghRepos>>
    BY <1>8, <2>1, <2>2 DEF UpdateFind, repositories
  <2>4. h \in mode.handlers /\ req[h].at = "idle"
    BY <1>8 DEF UpdateFind, MayStart
  <2>5. HomeKnown => HomeStands'
    <3>1. SUFFICES ASSUME HomeStands PROVE HomeStands'
      BY <1>1
    <3>2. RowShaped(registry[r])
      BY <1>8, <3>1 DEF HomeStands
    <3>3. RowShaped(row) /\ row.ext = registry[r].ext /\ row.name = registry[r].name
      BY <2>1, <3>2 DEF RowShaped
    <3>4. s.at = "update" /\ s.id \in DOMAIN registry /\ RowShaped(s.row)
          /\ s.row.ext = registry[s.id].ext /\ s.row.name = registry[s.id].name
      BY <1>8, <2>3, <3>3
    <3> QED BY <1>1, <2>3, <3>1, <3>4, HomeHeld
  <2> QED BY <2>3, <2>4, <2>5, RegistryKeeps DEF RegistryAwaits
<1> QED BY <1>3, <1>4, <1>5, <1>6, <1>7, <1>8 DEF RegistryRequest

\* The next await of a discovery holds what the last one did, and more.
LEMMA DiscoveryHolds ==
    ASSUME NEW h \in Handlers, "at" \in DOMAIN req[h], NEW await \in RegistryAwaits,
           NEW s, \/ s = [req[h] EXCEPT !.at = await]
                  \/ \E found, row : s = [req[h] EXCEPT !.at = await, !.found = found, !.row = row]
                  \/ \E done : s = [req[h] EXCEPT !.at = await, !.done = done]
    PROVE  s.at = await /\ "at" \in DOMAIN s
OBVIOUS

\* A step of the registry that does not concern Home.
LEMMA ElsewhereKeeps ==
    ASSUME GithubLinksAssumption, GithubInv, UNCHANGED <<status, links, stored, ghBranches, ghPull, hooks, emitted, missed>>,
           NEW h \in Handlers,
           req[h].at \in {"register", "discover", "by name", "discovered", "fetch", "sync"},
           NEW s, Awaits(h, s), "at" \in DOMAIN s, s.at \in RegistryAwaits \cup {"idle"}
    PROVE  GithubInv'
<1>1. h \in mode.handlers
  BY Busy
<1>2. ~HomeKnown
  BY DEF GithubInv, HomeStands, At
<1>3. req[h].at \in RegistryAwaits
  BY DEF RegistryAwaits
<1> QED BY <1>1, <1>2, <1>3, RegistryKeeps

LEMMA RegistryStepKeeps ==
    ASSUME GithubLinksAssumption, GithubInv, UNCHANGED <<status, links, stored, ghBranches, ghPull, hooks, emitted, missed>>,
           NEW h \in Handlers, RegistryStep(h)
    PROVE  GithubInv'
<1>1. HandsRight /\ (HomeKnown => HomeStands) /\ HoldsRight(req[h], links)
  BY DEF GithubInv, HandsRight
<1>2. Idle.at = "idle" /\ "at" \in DOMAIN Idle
  BY DEF Idle
<1>3. req[h].at \in RegistryAwaits => "at" \in DOMAIN req[h]
  BY <1>1, RegistryApart DEF HoldsRight, LinksAwaits
<1>4. CASE RegisterSave(h) \/ DiscoverEnds(h) \/ SyncSave(h)
  <2>1. req[h].at \in {"register", "discover", "sync"} /\ Awaits(h, Idle)
    BY <1>4 DEF RegisterSave, DiscoverEnds, SyncSave, At, Ends
  <2> QED BY <1>2, <2>1, ElsewhereKeeps
<1>5. ASSUME NEW r, HoldsRow(h, r), req[h].at \in {"discover", "by name"} PROVE GithubInv'
  <2>1. PICK row : row = IF r = None THEN None ELSE registry[r]
    OBVIOUS
  <2>2. PICK s : s = [req[h] EXCEPT !.at = "discovered", !.found = r, !.row = row]
    OBVIOUS
  <2>3. "at" \in DOMAIN req[h] /\ "discovered" \in RegistryAwaits
    BY <1>3, <1>5 DEF RegistryAwaits
  <2>4. s.at = "discovered" /\ "at" \in DOMAIN s
    BY <2>2, <2>3, DiscoveryHolds
  <2>5. Awaits(h, s)
    BY <1>5, <2>1, <2>2 DEF HoldsRow
  <2> QED BY <1>5, <2>4, <2>5, ElsewhereKeeps DEF RegistryAwaits
<1>6. CASE DiscoverById(h)
  <2>1. req[h].at = "discover"
    BY <1>6 DEF DiscoverById, At
  <2>2. CASE \E r : HoldsRow(h, r)
    BY <1>5, <2>1, <2>2
  <2>3. CASE Awaits(h, [req[h] EXCEPT !.at = "by name"])
    <3>1. PICK s : s = [req[h] EXCEPT !.at = "by name"]
      OBVIOUS
    <3>2. "at" \in DOMAIN req[h]
      BY <1>3, <2>1 DEF RegistryAwaits
    <3>3. s.at = "by name" /\ "at" \in DOMAIN s
      BY <3>1, <3>2
    <3> QED BY <2>1, <2>3, <3>1, <3>3, ElsewhereKeeps DEF RegistryAwaits
  <2> QED BY <1>6, <2>2, <2>3 DEF DiscoverById
<1>7. CASE DiscoverByName(h)
  <2>1. req[h].at = "by name"
    BY <1>7 DEF DiscoverByName, At
  <2>2. \E r : HoldsRow(h, r)
    BY <1>7 DEF DiscoverByName
  <2> QED BY <1>5, <2>1, <2>2
<1>8. CASE DiscoverSave(h)
  <2>1. req[h].at = "discovered"
    BY <1>8 DEF DiscoverSave, At
  <2>2. CASE Ends(h)
    BY <1>2, <2>1, <2>2, ElsewhereKeeps DEF Ends
  <2>3. CASE Awaits(h, [req[h] EXCEPT !.at = "discover", !.done = @ + 1])
    <3>1. PICK s : s = [req[h] EXCEPT !.at = "discover", !.done = @ + 1]
      OBVIOUS
    <3>2. "at" \in DOMAIN req[h]
      BY <1>3, <2>1 DEF RegistryAwaits
    <3>3. s.at = "discover" /\ "at" \in DOMAIN s
      BY <3>1, <3>2
    <3> QED BY <2>1, <2>3, <3>1, <3>3, ElsewhereKeeps DEF RegistryAwaits
  <2> QED BY <1>8, <2>2, <2>3 DEF DiscoverSave
<1>9. CASE SyncFetch(h)
  <2>1. req[h].at = "fetch"
    BY <1>9 DEF SyncFetch, At
  <2>2. CASE Ends(h)
    BY <1>2, <2>1, <2>2, ElsewhereKeeps DEF Ends
  <2>3. ASSUME NEW s, Awaits(h, s), s.at = "sync", "at" \in DOMAIN s PROVE GithubInv'
    BY <2>1, <2>3, ElsewhereKeeps DEF RegistryAwaits
  <2>4. ASSUME NEW id, Awaits(h, [at |-> "sync", id |-> req[h].id, row |-> req[h].row, facts |-> Facts(id)])
        PROVE  GithubInv'
    <3>1. PICK s : s = [at |-> "sync", id |-> req[h].id, row |-> req[h].row, facts |-> Facts(id)]
      OBVIOUS
    <3> QED BY <2>3, <2>4, <3>1
  <2> QED BY <1>9, <2>2, <2>4 DEF SyncFetch
<1>10. CASE UpdateSave(h)
  <2>1. req[h].at = "update" /\ Awaits(h, Idle)
    BY <1>10 DEF UpdateSave, At, Ends
  <2>2. HomeKnown => HomeStands'
    BY <1>1, <1>10, HomeUpdated
  <2>3. h \in mode.handlers /\ req[h].at \in RegistryAwaits
    BY <2>1, Busy DEF RegistryAwaits
  <2> QED BY <1>2, <2>1, <2>2, <2>3, RegistryKeeps
<1>11. CASE LinkSave(h)
  <2>1. req[h].at = "link project" /\ Awaits(h, Idle) /\ UNCHANGED <<registry, ghRepos>>
    BY <1>11 DEF LinkSave, At, Ends
  <2>2. HomeKnown => HomeStands'
    BY <1>1, <1>2, <2>1, HomeHeld
  <2>3. h \in mode.handlers /\ req[h].at \in RegistryAwaits
    BY <2>1, Busy DEF RegistryAwaits
  <2> QED BY <1>2, <2>1, <2>2, <2>3, RegistryKeeps
<1> QED BY <1>4, <1>6, <1>7, <1>8, <1>9, <1>10, <1>11 DEF RegistryStep

-----------------------------------------------------------------------------
(* Together *)

LEMMA GithubInit == GithubLinksAssumption /\ Init => GithubInv
<1> SUFFICES ASSUME GithubLinksAssumption, Init PROVE GithubInv
  OBVIOUS
<1>1. /\ mode \in Modes /\ DOMAIN links = {} /\ stored = {} /\ req = [h \in Handlers |-> Idle]
      /\ ghBranches = {} /\ ghPull = [n \in Names |-> "none"] /\ hooks = << >> /\ emitted = 0
      /\ ghRepos = mode.ghRepos /\ registry = mode.registry
  BY DEF Init
<1>2. \A h \in Handlers : req[h] = Idle /\ req[h].at = "idle"
  BY <1>1 DEF Idle
<1>3. LinksRight
  BY <1>1 DEF LinksRight
<1>4. HandsRight
  BY <1>1, <1>2, IdleHolds DEF HandsRight
<1>5. GithubRight /\ Waiting = {}
  <2>1. hooks \in Seq(Delivered) /\ DOMAIN hooks = {}
    BY <1>1
  <2>2. ghPull \in [Names -> PullStates]
    BY <1>1 DEF PullStates
  <2> QED BY <1>1, <2>1, <2>2 DEF GithubRight, QueueRight, HooksSorted, Waiting, Left, Queued
<1>6. \A h \in mode.handlers : h \in Handlers
  BY <1>1 DEF GithubLinksAssumption
<1>7. HomeStands
  <2>1. \A r \in DOMAIN registry : RowShaped(registry[r])
    BY <1>1, RepositoriesAssumption DEF RowShaped, RepositoriesAssumption, RowRight
  <2> QED BY <1>1, <1>2, <2>1 DEF HomeStands, At
<1>8. InStep(Followed, Idle, links, {}, {}, ghPull)
  <2>1. /\ \A n : ~Handling(Idle, {"create", "recognise"}, n)
        /\ \A n : ~Handling(Idle, PullTold \cup {"delete"}, n)
        /\ \A n : ~Handling(Idle, {"link"}, n)
    BY IdleHolds DEF Handling, PullTold
  <2>2. \A event, n : Coming({}, event, n) = {}
    BY DEF Coming
  <2>3. \A n : ~Joining(Idle, {}, n)
    BY <2>1, <2>2 DEF Joining, CreationNext
  <2>4. Idle.at \notin PullTold /\ Idle.at # "pulled"
    BY IdleHolds DEF PullTold
  <2>5. \A n \in Followed : ghPull[n] = "none"
    BY <1>1 DEF Followed
  <2>6. PullsInStep(Followed, Idle, links, {}, ghPull)
    BY <1>1, <2>2, <2>4, <2>5 DEF PullsInStep
  <2>7. MergesInStep(Followed, Idle, links, {}, ghPull)
    BY <2>5 DEF MergesInStep
  <2>8. CreationsInStep(Followed, Idle, links, {}, {}, ghPull)
    BY <1>1, <2>1, <2>3, <2>5 DEF CreationsInStep
  <2>9. DeletionsInStep(Followed, Idle, links, {}, {})
    BY <1>1 DEF DeletionsInStep
  <2> QED BY <2>6, <2>7, <2>8, <2>9 DEF InStep
<1>9. \A h \in Handlers : HoldsCurrent(req[h], links)
  BY <1>2 DEF HoldsCurrent
<1>10. \A h \in mode.handlers : InStep(Followed, req[h], links, Waiting, ghBranches, ghPull)
  BY <1>1, <1>2, <1>5, <1>6, <1>8
<1> QED BY <1>1, <1>3, <1>4, <1>5, <1>6, <1>7, <1>9, <1>10 DEF GithubInv

LEMMA RequestsKeep ==
    ASSUME GithubLinksAssumption, GithubInv, NEW h \in Handlers, LinksRequest(h) \/ LinksStep(h)
    PROVE  GithubInv'
<1>1. CASE LinksRequest(h)
  <2>1. CASE \E t \in mode.tickets, prefix \in Prefixes : StartReadiness(h, t, prefix)
    BY <2>1, ReadinessKeeps
  <2>2. CASE \E n \in DOMAIN links : PullFind(h, n)
    BY <2>2, PullFindKeeps
  <2>3. CASE \E t \in mode.tickets, s \in {"blocked", "review", "resolved"} : BoardMove(h, t, s)
    BY <2>3, BoardKeeps
  <2>4. CASE \E k \in 1 .. Len(hooks), answered \in BOOLEAN : Receive(h, k, answered)
    BY <2>4, ReceiveKeeps
  <2> QED BY <1>1, <2>1, <2>2, <2>3, <2>4 DEF LinksRequest
<1>2. CASE LinksStep(h)
  <2>1. CASE StartPick(h) \/ StartFind(h) \/ StartCreate(h) \/ StartLink(h) \/ StartStatus(h)
    BY <2>1, PickKeeps, FindKeeps, CreateKeeps, LinkKeeps, StatusKeeps
  <2>2. CASE PullCreate(h) \/ PullSave(h) \/ PullStatus(h)
    BY <2>2, PullCreateKeeps, PullSaveKeeps, StatusKeeps
  <2>3. CASE BranchCreatedFind(h) \/ BranchCreatedSave(h) \/ BranchDeleted(h)
    BY <2>3, CreatedFindKeeps, CreatedSaveKeeps, DeletedKeeps
  <2>4. CASE PullEventFind(h) \/ PullEventSave(h) \/ RequestFails(h)
    BY <2>4, PullEventFindKeeps, PullEventSaveKeeps, FailureKeeps
  <2> QED BY <1>2, <2>1, <2>2, <2>3, <2>4 DEF LinksStep
<1> QED BY <1>1, <1>2

LEMMA GithubStepKeeps == GithubLinksAssumption /\ GithubInv /\ [Next]_vars => GithubInv'
<1> SUFFICES ASSUME GithubLinksAssumption, GithubInv, [Next]_vars PROVE GithubInv'
  OBVIOUS
<1>1. CASE \E h \in Handlers : LinksRequest(h) \/ LinksStep(h)
  BY <1>1, RequestsKeep
<1>2. CASE \E n \in {NameOf(t, prefix) : t \in mode.tickets, prefix \in Prefixes} : GithubStep(n)
  <2>1. PICK n \in {NameOf(t, prefix) : t \in mode.tickets, prefix \in Prefixes} : GithubStep(n)
    BY <1>2
  <2>2. n \in Names
    BY <2>1 DEF Names, GithubInv, GithubLinksAssumption
  <2> QED BY <2>1, <2>2, GithubKeeps
<1>3. CASE /\ \E h \in Handlers : RegistryRequest(h) \/ RegistryStep(h)
           /\ UNCHANGED <<status, links, stored, ghBranches, ghPull, hooks, emitted, missed>>
  BY <1>3, RegistryRequestKeeps, RegistryStepKeeps
<1>4. CASE RegistryOfGithub /\ UNCHANGED <<status, links, stored, ghBranches, ghPull, hooks, emitted, missed>>
  <2>1. ~HomeKnown /\ UNCHANGED <<registry, permits, req, mode>>
    BY <1>4 DEF RegistryOfGithub, HomeKnown, repositories
  <2> QED BY <1>4, <2>1 DEF GithubInv, LinksRight, HandsRight, GithubRight, Orderly, HomeKnown, InOrder, Waiting,
                      Followed
<1>5. CASE UNCHANGED vars
  BY <1>5 DEF vars, GithubInv, LinksRight, HandsRight, GithubRight, Orderly, HomeKnown, HomeStands, At, InOrder, Waiting,
                  Followed
<1> QED BY <1>1, <1>2, <1>3, <1>4, <1>5 DEF Next

LEMMA InStepSettled ==
    ASSUME GithubInv, InOrder, HomeKnown, Quiet, mode.handlers # {}, NEW n \in DOMAIN links \ missed
    PROVE  /\ links[n].state = "open" => n \in ghBranches /\ ghPull[n] # "merged"
           /\ links[n].pr = ghPull[n]
<1>1. PICK h : h \in mode.handlers
  OBVIOUS
<1>2. h \in Handlers /\ n \in Followed
  BY <1>1, GithubLinksAssumption DEF GithubLinksAssumption, GithubInv, LinksRight, Followed
<1>3. InStep(Followed, req[h], links, Waiting, ghBranches, ghPull) /\ req[h].at = "idle"
  BY <1>1, <1>2 DEF GithubInv, Quiet
<1>4. Waiting = {}
  BY DEF Quiet, Waiting, Left, Queued
<1>5. \A event : Coming(Waiting, event, n) = {}
  BY <1>4 DEF Coming
<1>6. ~Handling(req[h], PullTold, n) /\ ~Handling(req[h], {"delete"}, n)
  BY <1>3 DEF Handling, PullTold
<1>7. links[n].pr = ghPull[n]
  BY <1>2, <1>3, <1>5, <1>6 DEF InStep, PullsInStep
<1>8. ASSUME links[n].state = "open" PROVE n \in ghBranches
  BY <1>2, <1>3, <1>5, <1>6, <1>8 DEF InStep, DeletionsInStep
<1>9. ASSUME links[n].state = "open" PROVE ghPull[n] # "merged"
  BY <1>2, <1>3, <1>5, <1>6, <1>9 DEF InStep, MergesInStep
<1> QED BY <1>7, <1>8, <1>9

\* A link's ticket is the one whose name the branch has, unless it is mistaken for
\* another.
LEMMA JoinsOne ==
    ASSUME GithubLinksAssumption, NEW t \in Tickets, NEW prefix \in Prefixes, NEW n, n = NameOf(t, prefix),
           Unmistaken(n, t), NEW s, Joins(s, n)
    PROVE  s = t
<1>1. CASE s \in Bearing(n)
  <2>1. Bearing(n) = {t}
    BY JoinsItsOwn
  <2> QED BY <1>1, <2>1
<1>2. CASE \E p \in Prefixes : n = NameOf(s, p)
  <2>1. PICK p \in Prefixes : n = NameOf(s, p)
    BY <1>2
  <2>2. s \in Tickets
    BY DEF Joins
  <2>3. StartsWithKey(n.body, Described[s].reference)
    BY <2>1, <2>2, NameStarts
  <2>4. BeginsWith(n.body, Described[s].reference)
    <3>1. PICK last : last = Len(Described[s].reference)
      OBVIOUS
    <3>2. last \in DOMAIN n.body /\ SubSeq(n.body, 1, last) = Described[s].reference
      BY <2>3, <3>1 DEF StartsWithKey, IsText
    <3> QED BY <3>2 DEF BeginsWith
  <2> QED BY <2>1, <2>2, <2>4 DEF Unmistaken
<1> QED BY <1>1, <1>2 DEF Joins

LEMMA EndedKept ==
    ASSUME GithubLinksAssumption, GithubInv, [Next]_vars, InOrder,
           NEW n \in DOMAIN links, links[n].state # "open"
    PROVE  links'[n].state = links[n].state
<1>1. CASE UNCHANGED links
  BY <1>1
<1>2. ASSUME NEW h \in Handlers, StartLink(h) PROVE links'[n].state = links[n].state
  BY <1>2 DEF StartLink, With
<1>3. ASSUME NEW h \in Handlers, BranchCreatedSave(h) PROVE links'[n].state = links[n].state
  BY <1>3 DEF BranchCreatedSave, With
<1>4. ASSUME NEW h \in Handlers, BranchDeleted(h) PROVE links'[n].state = links[n].state
  <2>1. CASE links' = links
    BY <2>1
  <2>2. CASE req[h].name \in DOMAIN links /\ links[req[h].name].state = "open"
    <3>1. links' = [links EXCEPT ![req[h].name].state = "deleted"] /\ n # req[h].name
      BY <1>4, <2>2 DEF BranchDeleted
    <3> QED BY <3>1
  <2> QED BY <1>4, <2>1, <2>2 DEF BranchDeleted
<1>5. ASSUME NEW h \in Handlers, req[h].at \in {"pulled", "mirror"}, NEW row,
             links' = With(links, req[h].name, row), LinkRight(req[h].link, req[h].name) =>
                 (req[h].link.state # "open" => row.state = req[h].link.state)
      PROVE  links'[n].state = links[n].state
  <2>1. h \in mode.handlers /\ HoldsRight(req[h], links)
    BY <1>5, Busy
  <2>2. LinkRight(req[h].link, req[h].name) /\ req[h].link = links[req[h].name]
    BY <1>5, <2>1 DEF HoldsRight, GithubInv, HoldsCurrent, InOrder
  <2>3. CASE n = req[h].name
    BY <1>5, <2>2, <2>3 DEF With
  <2>4. CASE n # req[h].name
    BY <1>5, <2>4 DEF With
  <2> QED BY <2>3, <2>4
<1>6. ASSUME NEW h \in Handlers, PullSave(h) PROVE links'[n].state = links[n].state
  <2>1. PICK row : row = [req[h].link EXCEPT !.pr = "open"]
    OBVIOUS
  <2>2. LinkRight(req[h].link, req[h].name) => row.state = req[h].link.state
    BY <2>1 DEF LinkRight
  <2>3. req[h].at = "pulled" /\ links' = With(links, req[h].name, row)
    BY <1>6, <2>1 DEF PullSave
  <2> QED BY <1>5, <2>2, <2>3
<1>7. ASSUME NEW h \in Handlers, PullEventSave(h) PROVE links'[n].state = links[n].state
  <2>1. PICK row : row = Mirrored(req[h].link, req[h].pr)
    OBVIOUS
  <2>2. LinkRight(req[h].link, req[h].name) =>
          (req[h].link.state # "open" => row.state = req[h].link.state)
    BY <2>1 DEF LinkRight, Mirrored
  <2>3. req[h].at = "mirror" /\ links' = With(links, req[h].name, row)
    BY <1>7, <2>1 DEF PullEventSave
  <2> QED BY <1>5, <2>2, <2>3
<1>8. ASSUME NEW h \in Handlers, LinksRequest(h) PROVE UNCHANGED links
  BY <1>8 DEF LinksRequest, StartReadiness, PullFind, BoardMove, Receive, hq
<1>9. ASSUME NEW h \in Handlers, LinksStep(h), ~StartLink(h), ~BranchCreatedSave(h), ~BranchDeleted(h),
             ~PullSave(h), ~PullEventSave(h)
      PROVE  UNCHANGED links
  BY <1>9 DEF LinksStep, StartPick, StartFind, StartCreate, RequestFails, StartStatus, PullCreate, PullStatus,
              BranchCreatedFind, PullEventFind, hq
<1>10. ASSUME NEW m, GithubStep(m) PROVE UNCHANGED links
  BY <1>10 DEF GithubStep, hq
<1> QED BY <1>1, <1>2, <1>3, <1>4, <1>6, <1>7, <1>8, <1>9, <1>10 DEF Next, vars

-----------------------------------------------------------------------------
(* The registry, one request at a time *)

Discovering == {"discover", "by name", "discovered"}

RowsRight ==
    /\ DOMAIN registry \subseteq RowIds
    /\ \A r \in DOMAIN registry : RowRight(registry[r], ghRepos)

\* What a discovery saw: each repository once, those it has treated in their rows.
SeenRight(r) ==
    /\ DOMAIN r = {"at", "seen", "done", "found", "row"}
    /\ IsText(r.seen) /\ r.done \in 0 .. Len(r.seen)
    /\ \A i \in DOMAIN r.seen : Bears(ghRepos, r.seen[i].ext, r.seen[i].name)
    /\ \A i, j \in DOMAIN r.seen :
          i # j => r.seen[i].ext # r.seen[j].ext /\ r.seen[i].name # r.seen[j].name
    /\ \A i \in 1 .. r.done : Told(r.seen[i])

NextSeen(r) == r.seen[r.done + 1]

\* Its row, the one that had its name while nobody had its identifier, or none.
FoundRight(r) ==
    IF r.found = None THEN ById(NextSeen(r).ext) = {}
    ELSE /\ r.found \in DOMAIN registry /\ r.row = registry[r.found]
         /\ \/ r.row.ext = NextSeen(r).ext
            \/ ById(NextSeen(r).ext) = {} /\ r.row.name = NextSeen(r).name

\* The row in hand is the one that stands, but for what HQ keeps to itself.
RowHeld(r) ==
    /\ r.id \in DOMAIN registry /\ RowShaped(r.row)
    /\ r.row.ext = registry[r.id].ext /\ r.row.name = registry[r.id].name

RegistryHeld(r) ==
    /\ r.at = "register" => RowRight(r.row, ghRepos)
    /\ r.at \in {"fetch", "sync", "update"} => RowHeld(r)
    /\ r.at = "sync" => Bears(ghRepos, r.facts.ext, r.facts.name)
    /\ r.at \in Discovering => SeenRight(r)
    /\ r.at \in {"by name", "discovered"} => r.done < Len(r.seen)
    /\ r.at = "by name" => ById(NextSeen(r).ext) = {}
    /\ r.at = "discovered" => FoundRight(r)

RegistryInv ==
    Orderly => /\ NamedApart(ghRepos, mode.reuse) /\ RowsRight
               /\ \A h \in mode.handlers : RegistryHeld(req[h])

\* What GitHub's users do takes no name from a repository.
LEMMA NamesStand ==
    ASSUME NamedApart(ghRepos, mode.reuse), mode \in Modes, RegistryOfGithub
    PROVE  /\ NamedApart(ghRepos', mode.reuse)
           /\ \A ext, name : Bears(ghRepos, ext, name) => Bears(ghRepos', ext, name)
<1>1. PICK id \in mode.repos :
        \/ \E name \in mode.names : GhAdds(id, name) \/ GhRenames(id, name)
        \/ GhChanges(id)
  BY DEF RegistryOfGithub
<1>2. id \in RepoIds
  BY <1>1, RepositoriesAssumption DEF RepositoriesAssumption
<1>3. ASSUME NEW name, FreeAtGithub(name)
      PROVE  \A p \in DOMAIN ghRepos :
                /\ ghRepos[p].name # name
                /\ ~mode.reuse => name \notin NamesOf(ghRepos[p])
  BY <1>3 DEF FreeAtGithub, EverGiven, NamesOf
<1>4. ASSUME NEW repo, DOMAIN repo = {"name", "former", "branch", "archived"},
             id \in DOMAIN ghRepos => NamesOf(ghRepos[id]) \subseteq NamesOf(repo),
             ghRepos' = With(ghRepos, id, repo),
             \A p \in DOMAIN ghRepos \ {id} :
                /\ ghRepos[p].name # repo.name
                /\ ~mode.reuse => NamesOf(ghRepos[p]) \cap NamesOf(repo) = {}
      PROVE  /\ NamedApart(ghRepos', mode.reuse)
             /\ \A ext, name : Bears(ghRepos, ext, name) => Bears(ghRepos', ext, name)
  <2>1. /\ DOMAIN ghRepos' = DOMAIN ghRepos \cup {id} /\ ghRepos'[id] = repo
        /\ \A p \in DOMAIN ghRepos \ {id} : ghRepos'[p] = ghRepos[p]
    BY <1>4 DEF With
  <2>2. NamedApart(ghRepos', mode.reuse)
    BY <1>2, <1>4, <2>1 DEF NamedApart
  <2>3. \A ext, name : Bears(ghRepos, ext, name) => Bears(ghRepos', ext, name)
    BY <1>4, <2>1 DEF Bears
  <2> QED BY <2>2, <2>3
<1>5. ASSUME NEW name, GhAdds(id, name)
      PROVE  /\ NamedApart(ghRepos', mode.reuse)
             /\ \A e, n : Bears(ghRepos, e, n) => Bears(ghRepos', e, n)
  <2>1. PICK repo : repo = [name |-> name, former |-> {}, branch |-> "main", archived |-> FALSE]
    OBVIOUS
  <2>2. /\ DOMAIN repo = {"name", "former", "branch", "archived"}
        /\ repo.name = name /\ NamesOf(repo) = {name}
    BY <2>1 DEF NamesOf
  <2>3. id \notin DOMAIN ghRepos /\ FreeAtGithub(name) /\ ghRepos' = With(ghRepos, id, repo)
    BY <1>5, <2>1 DEF GhAdds
  <2>4. \A p \in DOMAIN ghRepos \ {id} :
          /\ ghRepos[p].name # repo.name
          /\ ~mode.reuse => NamesOf(ghRepos[p]) \cap NamesOf(repo) = {}
    BY <1>3, <2>2, <2>3
  <2> QED BY <1>4, <2>2, <2>3, <2>4
<1>6. ASSUME NEW name, GhRenames(id, name)
      PROVE  /\ NamedApart(ghRepos', mode.reuse)
             /\ \A e, n : Bears(ghRepos, e, n) => Bears(ghRepos', e, n)
  <2>1. /\ id \in DOMAIN ghRepos /\ FreeAtGithub(name)
        /\ DOMAIN ghRepos[id] = {"name", "former", "branch", "archived"}
    BY <1>6 DEF GhRenames, NamedApart
  <2>2. PICK repo : repo = [ghRepos[id] EXCEPT !.name = name, !.former = @ \cup {ghRepos[id].name}]
    OBVIOUS
  <2>3. /\ DOMAIN repo = {"name", "former", "branch", "archived"}
        /\ repo.name = name /\ repo.former = NamesOf(ghRepos[id])
    BY <2>1, <2>2 DEF NamesOf
  <2>4. NamesOf(repo) = NamesOf(ghRepos[id]) \cup {name}
    BY <2>3 DEF NamesOf
  <2>5. ghRepos' = With(ghRepos, id, repo)
    <3>1. ghRepos' = [ghRepos EXCEPT ![id] = repo]
      BY <1>6, <2>1, <2>2 DEF GhRenames
    <3>2. DOMAIN ghRepos \cup {id} = DOMAIN ghRepos
      BY <2>1
    <3> QED BY <3>1, <3>2 DEF With
  <2>6. \A p \in DOMAIN ghRepos \ {id} :
          /\ ghRepos[p].name # repo.name
          /\ ~mode.reuse => NamesOf(ghRepos[p]) \cap NamesOf(repo) = {}
    BY <1>3, <2>1, <2>3, <2>4 DEF NamedApart
  <2> QED BY <1>4, <2>3, <2>4, <2>5, <2>6
<1>7. ASSUME GhChanges(id)
      PROVE  /\ NamedApart(ghRepos', mode.reuse)
             /\ \A e, n : Bears(ghRepos, e, n) => Bears(ghRepos', e, n)
  <2>1. id \in DOMAIN ghRepos /\ DOMAIN ghRepos[id] = {"name", "former", "branch", "archived"}
    BY <1>7 DEF GhChanges, NamedApart
  <2>2. PICK repo : /\ ghRepos' = [ghRepos EXCEPT ![id] = repo]
                    /\ DOMAIN repo = DOMAIN ghRepos[id]
                    /\ repo.name = ghRepos[id].name /\ repo.former = ghRepos[id].former
    <3>1. CASE ghRepos' = [ghRepos EXCEPT ![id].branch = "trunk"]
      <4>1. PICK repo : repo = [ghRepos[id] EXCEPT !.branch = "trunk"]
        OBVIOUS
      <4>2. ghRepos' = [ghRepos EXCEPT ![id] = repo]
        BY <2>1, <3>1, <4>1
      <4>3. DOMAIN repo = DOMAIN ghRepos[id] /\ repo.name = ghRepos[id].name /\ repo.former = ghRepos[id].former
        BY <2>1, <4>1
      <4> QED BY <4>2, <4>3
    <3>2. CASE ghRepos' = [ghRepos EXCEPT ![id].archived = TRUE]
      <4>1. PICK repo : repo = [ghRepos[id] EXCEPT !.archived = TRUE]
        OBVIOUS
      <4>2. ghRepos' = [ghRepos EXCEPT ![id] = repo]
        BY <2>1, <3>2, <4>1
      <4>3. DOMAIN repo = DOMAIN ghRepos[id] /\ repo.name = ghRepos[id].name /\ repo.former = ghRepos[id].former
        BY <2>1, <4>1
      <4> QED BY <4>2, <4>3
    <3> QED BY <1>7, <3>1, <3>2 DEF GhChanges
  <2>3. ghRepos' = With(ghRepos, id, repo)
    <3>1. DOMAIN ghRepos \cup {id} = DOMAIN ghRepos
      BY <2>1
    <3> QED BY <2>2, <3>1 DEF With
  <2>4. NamesOf(repo) = NamesOf(ghRepos[id])
    BY <2>2 DEF NamesOf
  <2>5. \A p \in DOMAIN ghRepos \ {id} :
          /\ ghRepos[p].name # repo.name
          /\ ~mode.reuse => NamesOf(ghRepos[p]) \cap NamesOf(repo) = {}
    BY <2>1, <2>2, <2>4 DEF NamedApart
  <2> QED BY <1>4, <2>1, <2>2, <2>3, <2>4, <2>5
<1> QED BY <1>1, <1>5, <1>6, <1>7

LEMMA NewRowIsNew ==
    ASSUME RowIds \ DOMAIN registry # {}
    PROVE  NewRow \in RowIds \ DOMAIN registry
<1>1. PICK S : S = RowIds \ DOMAIN registry
  OBVIOUS
<1>2. S \subseteq Nat /\ S # {}
  BY <1>1, RepositoriesAssumption DEF RepositoriesAssumption
<1>3. \E m \in S : \A k \in S : m <= k
  BY <1>2, FirstExists
<1>4. NewRow = CHOOSE r \in S : \A q \in S : r <= q
  BY <1>1 DEF NewRow
<1>5. NewRow \in S
  BY <1>3, <1>4
<1> QED BY <1>1, <1>5

\* With nothing written, a request goes on holding what it held.
LEMMA HeldStays ==
    ASSUME NEW r, RegistryHeld(r), UNCHANGED registry,
           \A ext, name : Bears(ghRepos, ext, name) => Bears(ghRepos', ext, name)
    PROVE  RegistryHeld(r)'
<1>1. r.at = "register" => RowRight(r.row, ghRepos')
  BY DEF RegistryHeld, RowRight
<1>2. r.at \in {"fetch", "sync", "update"} => RowHeld(r)'
  BY DEF RegistryHeld, RowHeld
<1>3. r.at = "sync" => Bears(ghRepos', r.facts.ext, r.facts.name)
  BY DEF RegistryHeld
<1>4. r.at \in Discovering => SeenRight(r)'
  BY DEF RegistryHeld, SeenRight, Told
<1>5. /\ r.at = "by name" => ById(NextSeen(r).ext)' = {}
      /\ r.at = "discovered" => FoundRight(r)'
  BY DEF RegistryHeld, FoundRight, ById, NextSeen
<1>6. r.at \in {"by name", "discovered"} => r.done < Len(r.seen)
  BY DEF RegistryHeld
<1> QED BY <1>1, <1>2, <1>3, <1>4, <1>5, <1>6 DEF RegistryHeld

LEMMA RowsStay ==
    ASSUME RowsRight, UNCHANGED registry,
           \A ext, name : Bears(ghRepos, ext, name) => Bears(ghRepos', ext, name)
    PROVE  RowsRight'
BY DEF RowsRight, RowRight

\* What a request about links holds says nothing of the registry.
LEMMA LinksHeld ==
    ASSUME NEW r, r.at \in LinksAwaits \cup {"link project"}
    PROVE  RegistryHeld(r) /\ RegistryHeld(r)'
<1>1. /\ r.at \notin {"register", "fetch", "sync", "update", "by name", "discovered"}
      /\ r.at \notin Discovering
  BY DEF LinksAwaits, Starting, Reviewing, Telling, Discovering
<1> QED BY <1>1 DEF RegistryHeld

\* The row of what a discovery saw next is saved: an identifier goes to nobody
\* else, and what was told stays told.
LEMMA NextIsSaved ==
    ASSUME RowsRight, NamedApart(ghRepos, mode.reuse), NEW r, SeenRight(r), r.done < Len(r.seen), FoundRight(r),
           r.found = None => RowIds \ DOMAIN registry # {},
           NEW q, q = IF r.found = None THEN NewRow ELSE r.found,
           NEW row, DOMAIN row = {"ext", "name", "branch", "archived", "side"},
           row.ext = NextSeen(r).ext, row.name = NextSeen(r).name, row.branch = NextSeen(r).branch,
           registry' = With(registry, q, row), UNCHANGED ghRepos,
           NEW s, DOMAIN s = DOMAIN r, s.seen = r.seen, s.done = r.done + 1
    PROVE  /\ RowsRight' /\ SeenRight(s)' /\ Twins' \subseteq Twins
           /\ ~mode.reuse => \A p \in DOMAIN registry : registry[p].ext # None => registry'[p].ext = registry[p].ext
<1>1. r.done \in Nat /\ Len(r.seen) \in Nat /\ DOMAIN r.seen = 1 .. Len(r.seen) /\ r.done + 1 \in DOMAIN r.seen
  BY DEF SeenRight, IsText
<1>2. PICK now : now = NextSeen(r)
  OBVIOUS
<1>3. Bears(ghRepos, now.ext, now.name)
  BY <1>1, <1>2 DEF SeenRight, NextSeen
<1>4. q \in RowIds /\ (r.found = None => q \notin DOMAIN registry)
  BY NewRowIsNew DEF FoundRight, RowsRight
<1>5. /\ DOMAIN registry' = DOMAIN registry \cup {q} /\ registry'[q] = row
      /\ \A p \in DOMAIN registry \ {q} : registry'[p] = registry[p]
  BY DEF With
<1>6. RowsRight'
  <2>1. RowRight(row, ghRepos)
    BY <1>2, <1>3 DEF RowRight
  <2> QED BY <1>4, <1>5, <2>1 DEF RowsRight
<1>7. \/ \A p \in DOMAIN registry : registry[p].ext # now.ext
      \/ q \in DOMAIN registry /\ registry[q].ext = now.ext
  BY <1>2 DEF FoundRight, ById
<1>8. Twins' \subseteq Twins
  <2>1. SUFFICES ASSUME NEW a \in DOMAIN registry', NEW b \in DOMAIN registry', a # b,
                        registry'[a].ext # None, registry'[a].ext = registry'[b].ext
                 PROVE  /\ a \in DOMAIN registry /\ b \in DOMAIN registry
                        /\ registry[a].ext # None /\ registry[a].ext = registry[b].ext
    BY DEF Twins
  <2>2. CASE a # q /\ b # q
    BY <1>5, <2>1, <2>2
  <2>3. CASE q \in DOMAIN registry /\ registry[q].ext = now.ext
    BY <1>2, <1>5, <2>1, <2>3
  <2>4. CASE \A p \in DOMAIN registry : registry[p].ext # now.ext
    BY <1>2, <1>5, <2>1, <2>4
  <2> QED BY <1>7, <2>3, <2>4
<1>9. ASSUME ~mode.reuse, NEW p \in DOMAIN registry, registry[p].ext # None
      PROVE  registry'[p].ext = registry[p].ext
  <2>1. CASE p # q
    BY <1>5, <2>1
  <2>2. CASE p = q /\ registry[q].ext = now.ext
    BY <1>2, <1>5, <2>2
  <2>3. CASE p = q /\ registry[q].ext # now.ext
    <3>1. r.found = q /\ registry[q].name = now.name
      BY <1>2, <1>4, <2>3 DEF FoundRight
    <3>2. Bears(ghRepos, registry[q].ext, now.name)
      BY <1>9, <2>3, <3>1 DEF RowsRight, RowRight
    <3> QED BY <1>3, <1>9, <2>3, <3>2 DEF NamedApart, Bears
  <2> QED BY <2>1, <2>2, <2>3
<1>10. \A i \in 1 .. s.done : Told(s.seen[i])'
  <2>1. SUFFICES ASSUME NEW i \in 1 .. r.done + 1
                 PROVE  \E p \in DOMAIN registry' :
                            /\ registry'[p].ext = r.seen[i].ext /\ registry'[p].name = r.seen[i].name
                            /\ registry'[p].branch = r.seen[i].branch
    BY DEF Told
  <2>2. CASE i = r.done + 1
    BY <1>5, <2>2 DEF NextSeen
  <2>3. CASE i \in 1 .. r.done
    <3>1. PICK p \in DOMAIN registry :
            /\ registry[p].ext = r.seen[i].ext /\ registry[p].name = r.seen[i].name
            /\ registry[p].branch = r.seen[i].branch
      BY <2>3 DEF SeenRight, Told
    <3>2. r.seen[i].ext # now.ext /\ r.seen[i].name # now.name
      BY <1>1, <1>2, <2>3 DEF SeenRight, NextSeen
    <3>3. p # q
      BY <1>2, <1>4, <3>1, <3>2 DEF FoundRight
    <3> QED BY <1>5, <3>1, <3>3
  <2> QED BY <1>1, <2>1, <2>2, <2>3
<1>11. SeenRight(s)'
  <2>1. /\ DOMAIN s = {"at", "seen", "done", "found", "row"} /\ IsText(s.seen) /\ s.done \in 0 .. Len(s.seen)
        /\ \A i \in DOMAIN s.seen : Bears(ghRepos, s.seen[i].ext, s.seen[i].name)
        /\ \A i, j \in DOMAIN s.seen :
              i # j => s.seen[i].ext # s.seen[j].ext /\ s.seen[i].name # s.seen[j].name
    BY <1>1 DEF SeenRight
  <2> QED BY <1>10, <2>1 DEF SeenRight
<1> QED BY <1>6, <1>8, <1>9, <1>11

\* The one handler's step, after which it holds s.
LEMMA RegistryMoves ==
    ASSUME GithubLinksAssumption, GithubInv, Orderly, NEW h \in Handlers, h \in mode.handlers, NEW s, Awaits(h, s),
           NamedApart(ghRepos', mode.reuse), RowsRight', RegistryHeld(s)'
    PROVE  RegistryInv'
<1>1. mode' = mode /\ req'[h] = s
  BY DEF Awaits, GithubInv, HandsRight
<1>2. \A g \in mode'.handlers : g = h
  BY <1>1, OneHand DEF GithubInv
<1>3. ASSUME NEW g \in mode'.handlers PROVE RegistryHeld(req[g])'
  <2>1. req'[g] = s
    BY <1>1, <1>2, <1>3
  <2> QED BY <2>1
<1> QED BY <1>1, <1>3 DEF RegistryInv

\* What is done at GitHub with branches leaves its repositories alone.
LEMMA BranchesOnly ==
    ASSUME NEW n, \/ GhCreates(n) \/ GhOpensPull(n) \/ GhDeletes(n)
                  \/ \E pr \in {"closed", "merged"} : GhEndsPull(n, pr)
    PROVE  UNCHANGED ghRepos
<1>1. CASE GhCreates(n)
  BY <1>1 DEF GhCreates, Emits
<1>2. CASE GhOpensPull(n)
  BY <1>2 DEF GhOpensPull, GhPulls, Emits
<1>3. CASE GhDeletes(n)
  BY <1>3 DEF GhDeletes, Emits
<1>4. CASE \E pr \in {"closed", "merged"} : GhEndsPull(n, pr)
  BY <1>4 DEF GhEndsPull, GhPulls, Emits
<1> QED BY <1>1, <1>2, <1>3, <1>4

LEMMA StepsOfLinks ==
    ASSUME NEW h \in Handlers, LinksStep(h)
    PROVE  UNCHANGED <<registry, ghRepos>>
<1>1. CASE StartCreate(h)
  BY <1>1, BranchesOnly DEF StartCreate, hq, github, repositories
<1>2. CASE PullCreate(h)
  BY <1>2, BranchesOnly DEF PullCreate, hq, github, repositories
<1>3. CASE StartPick(h) \/ StartFind(h) \/ RequestFails(h) \/ BranchCreatedFind(h) \/ PullEventFind(h)
  BY <1>3 DEF StartPick, StartFind, RequestFails, BranchCreatedFind, PullEventFind, hq, github, repositories
<1>4. CASE StartLink(h) \/ StartStatus(h) \/ PullSave(h) \/ PullStatus(h)
  BY <1>4 DEF StartLink, StartStatus, PullSave, PullStatus, github, repositories
<1>5. CASE BranchCreatedSave(h) \/ BranchDeleted(h) \/ PullEventSave(h)
  BY <1>5 DEF BranchCreatedSave, BranchDeleted, PullEventSave, github, repositories
<1> QED BY <1>1, <1>2, <1>3, <1>4, <1>5 DEF LinksStep

\* A step about links.
LEMMA LinksMove ==
    ASSUME GithubLinksAssumption, GithubInv, NEW h \in Handlers, LinksRequest(h) \/ LinksStep(h)
    PROVE  /\ UNCHANGED <<registry, ghRepos, mode>>
           /\ req' = req \/ \E s : s.at \in LinksAwaits /\ Awaits(h, s) /\ h \in mode.handlers
<1> DEFINE Moves == \E s : s.at \in LinksAwaits /\ Awaits(h, s) /\ h \in mode.handlers
<1>1. LinksAwaits = {"idle", "repositories", "find", "branch", "link", "status", "pull", "pulled", "review",
                     "create", "recognise", "delete", "pull_request", "mirror"}
  BY DEF LinksAwaits, Starting, Reviewing, Telling
<1>2. req[h].at # "idle" => h \in mode.handlers /\ "at" \in DOMAIN req[h]
  BY Busy DEF HoldsRight, Held
<1>3. ASSUME h \in mode.handlers, Ends(h) PROVE Moves
  BY <1>1, <1>3 DEF Ends, Idle
<1>4. CASE \E t \in mode.tickets, prefix \in Prefixes : StartReadiness(h, t, prefix)
  <2>1. PICK t, prefix : StartReadiness(h, t, prefix)
    BY <1>4
  <2>2. PICK s : s = Holding("repositories", t, NameOf(t, prefix))
    OBVIOUS
  <2>3. s.at = "repositories" /\ Awaits(h, s) /\ h \in mode.handlers
    BY <2>1, <2>2 DEF Holding, StartReadiness, MayStart
  <2>4. UNCHANGED <<registry, ghRepos, mode>>
    BY <2>1 DEF StartReadiness, hq, github, repositories, Awaits
  <2> QED BY <1>1, <2>3, <2>4
<1>5. CASE \E n \in DOMAIN links : PullFind(h, n)
  <2>1. PICK n \in DOMAIN links : PullFind(h, n)
    BY <1>5
  <2>2. PICK s : s = [Holding("pull", links[n].ticket, n) EXCEPT
                          !.found = status[links[n].ticket], !.link = links[n]]
    OBVIOUS
  <2>3. s.at = "pull" /\ Awaits(h, s) /\ h \in mode.handlers
    BY <2>1, <2>2 DEF Holding, PullFind, MayStart
  <2>4. UNCHANGED <<registry, ghRepos, mode>>
    BY <2>1 DEF PullFind, hq, github, repositories, Awaits
  <2> QED BY <1>1, <2>3, <2>4
<1>6. CASE \E t \in mode.tickets, s \in {"blocked", "review", "resolved"} : BoardMove(h, t, s)
  BY <1>6 DEF BoardMove, github, repositories
<1>7. CASE \E k \in 1 .. Len(hooks), answered \in BOOLEAN : Receive(h, k, answered)
  <2>1. PICK k \in 1 .. Len(hooks), answered \in BOOLEAN : Receive(h, k, answered)
    BY <1>7
  <2>2. hooks[k].event \in {"create", "delete", "pull_request"}
    <3>1. hooks \in Seq(Delivered)
      BY DEF GithubInv, GithubRight, QueueRight
    <3>2. hooks[k] \in Delivered
      BY <2>1, <3>1
    <3> QED BY <3>2 DEF Delivered
  <2>3. h \in mode.handlers /\ UNCHANGED <<registry, ghRepos, mode>>
    BY <2>1 DEF Receive, MayStart, repositories, Ends, Awaits
  <2>4. CASE Ends(h)
    BY <1>3, <2>3, <2>4
  <2>5. CASE ~Ends(h)
    <3>1. PICK s : s = [Holding(hooks[k].event, None, hooks[k].name) EXCEPT !.pr = hooks[k].pr]
      OBVIOUS
    <3>2. s.at = hooks[k].event /\ Awaits(h, s)
      BY <2>1, <2>5, <3>1 DEF Holding, Receive
    <3> QED BY <1>1, <2>2, <2>3, <3>2
  <2> QED BY <2>4, <2>5
<1>8. ASSUME NEW at \in LinksAwaits, NEW s, Awaits(h, s), req[h].at # "idle", s.at = at PROVE Moves
  BY <1>2, <1>8
<1>9. CASE LinksStep(h) /\ Ends(h)
  <2>1. req[h].at # "idle"
    BY <1>9 DEF LinksStep, StartPick, StartFind, StartCreate, RequestFails, StartLink, StartStatus, PullCreate,
                PullSave, PullStatus, BranchCreatedFind, BranchCreatedSave, BranchDeleted, PullEventFind, PullEventSave,
                Starting, Reviewing, Telling
  <2>2. UNCHANGED <<registry, ghRepos>>
    BY <1>9, StepsOfLinks
  <2> QED BY <1>2, <1>3, <1>9, <2>1, <2>2 DEF Ends, Awaits
<1>10. CASE LinksStep(h) /\ ~Ends(h)
  <2>1. \/ StartPick(h) \/ StartFind(h) \/ StartCreate(h) \/ StartLink(h)
        \/ PullCreate(h) \/ PullSave(h) \/ BranchCreatedFind(h) \/ PullEventFind(h)
    BY <1>10 DEF LinksStep, RequestFails, StartStatus, PullStatus, BranchCreatedSave, BranchDeleted, PullEventSave
  <2>2. CASE StartPick(h)
    <3>1. PICK r : Awaits(h, [req[h] EXCEPT !.at = "find", !.link = registry[r].name])
      BY <1>10, <2>2 DEF StartPick
    <3>2. PICK s : s = [req[h] EXCEPT !.at = "find", !.link = registry[r].name]
      OBVIOUS
    <3>3. Awaits(h, s) /\ req[h].at # "idle" /\ UNCHANGED <<registry, ghRepos, mode>>
      BY <2>2, <3>1, <3>2 DEF StartPick, hq, github, repositories, Awaits
    <3>4. s.at = "find"
      BY <1>2, <3>2, <3>3
    <3> QED BY <1>1, <1>8, <3>3, <3>4
  <2>3. CASE StartFind(h)
    <3>1. PICK s : s = [req[h] EXCEPT !.at = "branch", !.found = status[req[h].ticket]]
      OBVIOUS
    <3>2. Awaits(h, s) /\ req[h].at # "idle" /\ UNCHANGED <<registry, ghRepos, mode>>
      BY <2>3, <3>1 DEF StartFind, hq, github, repositories, Awaits
    <3>3. s.at = "branch"
      BY <1>2, <3>1, <3>2
    <3> QED BY <1>1, <1>8, <3>2, <3>3
  <2>4. CASE StartCreate(h) \/ PullCreate(h) \/ StartLink(h) \/ PullSave(h)
    <3>1. PICK at \in {"link", "pulled", "status", "review"} : Awaits(h, [req[h] EXCEPT !.at = at])
      BY <1>10, <2>4 DEF StartCreate, PullCreate, StartLink, PullSave
    <3>2. PICK s : s = [req[h] EXCEPT !.at = at]
      OBVIOUS
    <3>3. Awaits(h, s) /\ req[h].at # "idle"
      BY <2>4, <3>1, <3>2 DEF StartCreate, PullCreate, StartLink, PullSave
    <3>4. UNCHANGED <<registry, ghRepos, mode>>
      BY <1>10, <3>3, StepsOfLinks DEF Awaits
    <3>5. s.at = at
      BY <1>2, <3>2, <3>3
    <3> QED BY <1>1, <1>8, <3>1, <3>3, <3>4, <3>5
  <2>5. CASE BranchCreatedFind(h)
    <3>1. PICK t : Awaits(h, [req[h] EXCEPT !.at = "recognise", !.ticket = t])
      BY <1>10, <2>5 DEF BranchCreatedFind
    <3>2. PICK s : s = [req[h] EXCEPT !.at = "recognise", !.ticket = t]
      OBVIOUS
    <3>3. Awaits(h, s) /\ req[h].at # "idle" /\ UNCHANGED <<registry, ghRepos, mode>>
      BY <2>5, <3>1, <3>2 DEF BranchCreatedFind, hq, github, repositories, Awaits
    <3>4. s.at = "recognise"
      BY <1>2, <3>2, <3>3
    <3> QED BY <1>1, <1>8, <3>3, <3>4
  <2>6. CASE PullEventFind(h)
    <3>1. PICK s : s = [req[h] EXCEPT !.at = "mirror", !.link = links[req[h].name]]
      OBVIOUS
    <3>2. Awaits(h, s) /\ req[h].at # "idle" /\ UNCHANGED <<registry, ghRepos, mode>>
      BY <1>10, <2>6, <3>1 DEF PullEventFind, hq, github, repositories, Awaits
    <3>3. s.at = "mirror"
      BY <1>2, <3>1, <3>2
    <3> QED BY <1>1, <1>8, <3>2, <3>3
  <2> QED BY <2>1, <2>2, <2>3, <2>4, <2>5, <2>6
<1> QED BY <1>4, <1>5, <1>6, <1>7, <1>9, <1>10 DEF LinksRequest

LEMMA AnswersBear ==
    ASSUME NEW name, NEW id \in Answers(name)
    PROVE  Bears(ghRepos, id, name)
BY DEF Answers, Bears, NamesOf

\* What a discovery sees: each repository once.
LEMMA SeesEachOnce ==
    ASSUME NamedApart(ghRepos, mode.reuse), NEW order, order \in [1 .. Cardinality(DOMAIN ghRepos) -> DOMAIN ghRepos],
           \A i, j \in DOMAIN order : order[i] = order[j] => i = j,
           NEW s, s = [at |-> "discover", seen |-> [i \in DOMAIN order |-> Facts(order[i])],
                       done |-> 0, found |-> None, row |-> None]
    PROVE  SeenRight(s)
<1>1. Cardinality(DOMAIN ghRepos) \in Nat
  <2>1. IsFiniteSet(DOMAIN ghRepos)
    BY FS_Subset, RepositoriesAssumption DEF RepositoriesAssumption, NamedApart
  <2> QED BY <2>1, FS_CardinalityType
<1>2. PICK n \in Nat : n = Cardinality(DOMAIN ghRepos)
  BY <1>1
<1>3. DOMAIN s = {"at", "seen", "done", "found", "row"} /\ s.done = 0
  OBVIOUS
<1>4. PICK seen : seen = [i \in 1 .. n |-> Facts(order[i])]
  OBVIOUS
<1>5. s.seen = seen /\ DOMAIN seen = 1 .. n
  BY <1>2, <1>4
<1>6. seen \in Seq({seen[i] : i \in DOMAIN seen}) /\ Len(seen) = n
  <2>1. PICK S : S = {seen[i] : i \in DOMAIN seen}
    OBVIOUS
  <2>2. \A i \in 1 .. n : seen[i] \in S
    BY <1>5, <2>1
  <2>3. seen \in [1 .. n -> S]
    BY <1>4, <2>2
  <2>4. seen \in Seq(S) /\ Len(seen) = n
    BY <1>2, <2>3
  <2> QED BY <2>1, <2>4
<1>7. \A i \in 1 .. n : order[i] \in DOMAIN ghRepos
  BY <1>2
<1>8. \A i \in 1 .. n : seen[i].ext = order[i] /\ seen[i].name = ghRepos[order[i]].name
  BY <1>4 DEF Facts
<1>9. \A i \in 1 .. n : Bears(ghRepos, seen[i].ext, seen[i].name)
  BY <1>7, <1>8 DEF Bears, NamesOf
<1>10. \A i, j \in 1 .. n : i # j => order[i] # order[j]
  BY <1>2
<1>11. \A i, j \in 1 .. n : i # j => seen[i].ext # seen[j].ext /\ seen[i].name # seen[j].name
  BY <1>7, <1>8, <1>10 DEF NamedApart
<1>12. IsText(s.seen) /\ s.done \in 0 .. Len(s.seen) /\ 1 .. s.done = {}
  BY <1>2, <1>3, <1>5, <1>6 DEF IsText
<1>13. /\ \A i \in DOMAIN s.seen : Bears(ghRepos, s.seen[i].ext, s.seen[i].name)
       /\ \A i, j \in DOMAIN s.seen :
             i # j => s.seen[i].ext # s.seen[j].ext /\ s.seen[i].name # s.seen[j].name
  <2>1. s.seen = seen
    BY <1>5
  <2>2. DOMAIN seen = 1 .. n
    BY <1>5
  <2>3. \A i \in DOMAIN seen : Bears(ghRepos, seen[i].ext, seen[i].name)
    BY <1>9, <2>2
  <2>4. \A i, j \in DOMAIN seen : i # j => seen[i].ext # seen[j].ext /\ seen[i].name # seen[j].name
    BY <1>11, <2>2
  <2>5. \A i : s.seen[i] = seen[i] /\ (i \in DOMAIN s.seen <=> i \in DOMAIN seen)
    BY <2>1
  <2>6. ASSUME NEW i \in DOMAIN s.seen PROVE Bears(ghRepos, s.seen[i].ext, s.seen[i].name)
    <3>1. i \in DOMAIN seen /\ s.seen[i] = seen[i]
      BY <2>5, <2>6
    <3> QED BY <2>3, <3>1
  <2>7. ASSUME NEW i \in DOMAIN s.seen, NEW j \in DOMAIN s.seen, i # j
        PROVE  s.seen[i].ext # s.seen[j].ext /\ s.seen[i].name # s.seen[j].name
    <3>1. i \in DOMAIN seen /\ s.seen[i] = seen[i] /\ j \in DOMAIN seen /\ s.seen[j] = seen[j]
      BY <2>5, <2>7
    <3> QED BY <2>4, <2>7, <3>1
  <2> QED BY <2>6, <2>7
<1>14. \A i \in 1 .. s.done : Told(s.seen[i])
  BY <1>12
<1> QED BY <1>3, <1>12, <1>13, <1>14 DEF SeenRight

LEMMA RegistryRequested ==
    ASSUME GithubLinksAssumption, GithubInv, RegistryInv, Orderly, NEW h \in Handlers, RegistryRequest(h)
    PROVE  RegistryInv'
<1>1. NamedApart(ghRepos, mode.reuse) /\ RowsRight
  BY DEF RegistryInv
<1>2. ASSUME h \in mode.handlers, NEW s, Awaits(h, s), RegistryHeld(s), UNCHANGED <<registry, ghRepos>>
      PROVE  RegistryInv'
  <2>1. RegistryHeld(s)' /\ RowsRight'
    BY <1>1, <1>2, HeldStays, RowsStay
  <2>2. NamedApart(ghRepos', mode.reuse)
    BY <1>1, <1>2
  <2> QED BY <1>2, <2>1, <2>2, RegistryMoves
<1>3. CASE Discover(h)
  <2>1. PICK order \in [1 .. Cardinality(DOMAIN ghRepos) -> DOMAIN ghRepos] :
          /\ \A i, j \in DOMAIN order : order[i] = order[j] => i = j
          /\ Awaits(h, [at |-> "discover", seen |-> [i \in DOMAIN order |-> Facts(order[i])],
                        done |-> 0, found |-> None, row |-> None])
    BY <1>3 DEF Discover
  <2>2. PICK s : s = [at |-> "discover", seen |-> [i \in DOMAIN order |-> Facts(order[i])],
                      done |-> 0, found |-> None, row |-> None]
    OBVIOUS
  <2>3. h \in mode.handlers /\ UNCHANGED <<registry, ghRepos>> /\ Awaits(h, s) /\ s.at = "discover"
    BY <1>3, <2>1, <2>2 DEF Discover, MayStart, repositories
  <2>4. SeenRight(s)
    BY <1>1, <2>1, <2>2, SeesEachOnce
  <2>5. RegistryHeld(s)
    BY <2>3, <2>4 DEF RegistryHeld
  <2> QED BY <1>2, <2>3, <2>5
<1>4. CASE \E name \in mode.names, ext \in RepoIds \cup {None} : Register(h, name, ext)
  <2>1. PICK name, ext : Register(h, name, ext)
    BY <1>4
  <2>2. PICK row : row = Row(ext, name, "main", FALSE, None)
    OBVIOUS
  <2>3. PICK s : s = [at |-> "register", row |-> row]
    OBVIOUS
  <2>4. h \in mode.handlers /\ UNCHANGED <<registry, ghRepos>> /\ Awaits(h, s) /\ s.at = "register" /\ s.row = row
    BY <2>1, <2>2, <2>3 DEF Register, MayStart, repositories
  <2>5. ext \in Answers(name) \cup {None}
    BY <2>1 DEF Register
  <2>6. ext # None => Bears(ghRepos, ext, name)
    BY <2>5, AnswersBear
  <2>7. RowRight(row, ghRepos)
    BY <2>2, <2>6 DEF RowRight, Row
  <2>8. RegistryHeld(s)
    BY <2>4, <2>7 DEF RegistryHeld, Discovering
  <2> QED BY <1>2, <2>4, <2>8
<1>5. CASE \E r \in DOMAIN registry : SyncFind(h, r)
  <2>1. PICK r \in DOMAIN registry : SyncFind(h, r)
    BY <1>5
  <2>2. PICK s : s = [at |-> "fetch", id |-> r, row |-> registry[r]]
    OBVIOUS
  <2>3. /\ h \in mode.handlers /\ UNCHANGED <<registry, ghRepos>> /\ Awaits(h, s)
        /\ s.at = "fetch" /\ s.id = r /\ s.row = registry[r]
    BY <2>1, <2>2 DEF SyncFind, MayStart, repositories
  <2>4. RowHeld(s)
    BY <1>1, <2>3 DEF RowHeld, RowsRight, RowRight, RowShaped
  <2>5. RegistryHeld(s)
    BY <2>3, <2>4 DEF RegistryHeld, Discovering
  <2> QED BY <1>2, <2>3, <2>5
<1>6. CASE \E r \in DOMAIN registry, p \in Projects : LinkFind(h, r, p)
  <2>1. PICK r, p : LinkFind(h, r, p)
    BY <1>6
  <2>2. PICK s : s = [at |-> "link project", id |-> r, project |-> p]
    OBVIOUS
  <2>3. h \in mode.handlers /\ UNCHANGED <<registry, ghRepos>> /\ Awaits(h, s) /\ s.at = "link project"
    BY <2>1, <2>2 DEF LinkFind, MayStart, repositories
  <2>4. RegistryHeld(s)
    BY <2>3, LinksHeld
  <2> QED BY <1>2, <2>3, <2>4
<1>7. CASE \E r \in DOMAIN registry, p \in Projects : UnlinkProject(h, r, p)
  <2>1. UNCHANGED <<registry, ghRepos, req, mode>>
    BY <1>7 DEF UnlinkProject
  <2>2. ASSUME NEW g \in mode.handlers PROVE RegistryHeld(req[g])'
    <3>1. PICK r : r = req[g]
      OBVIOUS
    <3>2. RegistryHeld(r)'
      BY <2>1, <3>1, HeldStays DEF RegistryInv
    <3> QED BY <2>1, <3>1, <3>2
  <2>3. RowsRight'
    BY <1>1, <2>1, RowsStay
  <2> QED BY <1>1, <2>1, <2>2, <2>3 DEF RegistryInv
<1>8. CASE \E r \in DOMAIN registry, archived \in {TRUE, FALSE, Keep}, side \in {"frontend", Keep} :
              UpdateFind(h, r, side, archived)
  <2>1. PICK r \in DOMAIN registry, archived \in {TRUE, FALSE, Keep}, side \in {"frontend", Keep} :
          UpdateFind(h, r, side, archived)
    BY <1>8
  <2>2. PICK row : row = [registry[r] EXCEPT !.side = Given(side, @), !.archived = Given(archived, @)]
    OBVIOUS
  <2>3. PICK s : s = [at |-> "update", id |-> r, row |-> row]
    OBVIOUS
  <2>4. /\ h \in mode.handlers /\ UNCHANGED <<registry, ghRepos>> /\ Awaits(h, s)
        /\ s.at = "update" /\ s.id = r /\ s.row = row
    BY <2>1, <2>2, <2>3 DEF UpdateFind, MayStart, repositories
  <2>5. RowShaped(registry[r])
    BY <1>1 DEF RowsRight, RowRight, RowShaped
  <2>6. RowShaped(row) /\ row.ext = registry[r].ext /\ row.name = registry[r].name
    BY <2>2, <2>5 DEF RowShaped
  <2>7. RowHeld(s)
    BY <2>4, <2>6 DEF RowHeld
  <2>8. RegistryHeld(s)
    BY <2>4, <2>7 DEF RegistryHeld, Discovering
  <2> QED BY <1>2, <2>4, <2>8
<1> QED BY <1>3, <1>4, <1>5, <1>6, <1>7, <1>8 DEF RegistryRequest

\* What a step at the registry may not do.
RightStep(h) ==
    /\ At(h, "sync") \/ (At(h, "discovered") /\ ~mode.reuse) =>
          \A r \in DOMAIN registry : registry[r].ext # None => registry'[r].ext = registry[r].ext
    /\ At(h, "discovered") => Twins' \subseteq Twins
    /\ At(h, "discover") /\ req'[h] = Idle => \A i \in DOMAIN req[h].seen : Told(req[h].seen[i])

LEMMA RegistryStepped ==
    ASSUME GithubLinksAssumption, GithubInv, RegistryInv, Orderly, NEW h \in Handlers, RegistryStep(h)
    PROVE  RegistryInv' /\ RightStep(h)
<1>1. NamedApart(ghRepos, mode.reuse) /\ RowsRight
  BY DEF RegistryInv
<1>2. req[h].at # "idle"
  BY DEF RegistryStep, RegisterSave, DiscoverById, DiscoverByName, DiscoverSave, DiscoverEnds, SyncFetch, SyncSave,
         UpdateSave, LinkSave, At
<1>3. PICK r : r = req[h]
  OBVIOUS
<1>4. h \in mode.handlers /\ RegistryHeld(r)
  BY <1>2, <1>3, Busy DEF RegistryInv
<1>6. ASSUME NEW s, Awaits(h, s), RowsRight', RegistryHeld(s)', UNCHANGED ghRepos PROVE RegistryInv'
  BY <1>1, <1>4, <1>6, RegistryMoves
<1>7. RegistryHeld(Idle)'
  BY LinksHeld DEF LinksAwaits, Idle
<1>8. ASSUME Ends(h), UNCHANGED ghRepos, RowsRight' PROVE RegistryInv'
  BY <1>6, <1>7, <1>8 DEF Ends
<1>9. CASE RegisterSave(h)
  <2>1. r.at = "register" /\ Ends(h) /\ UNCHANGED ghRepos
    BY <1>3, <1>9 DEF RegisterSave, At
  <2>2. RowRight(r.row, ghRepos)
    BY <1>4, <2>1 DEF RegistryHeld
  <2>5. RowsRight'
    <3>1. CASE registry' = registry
      BY <1>1, <2>1, <3>1 DEF RowsRight
    <3>2. CASE registry' # registry
      <4>1. RowIds \ DOMAIN registry # {} /\ registry' = With(registry, NewRow, r.row)
        BY <1>3, <1>9, <3>2 DEF RegisterSave
      <4>2. NewRow \in RowIds
        BY <4>1, NewRowIsNew
      <4> QED BY <1>1, <2>1, <2>2, <4>1, <4>2 DEF RowsRight, With
    <3> QED BY <3>1, <3>2
  <2>6. RightStep(h)
    BY <1>3, <2>1 DEF RightStep, At
  <2> QED BY <1>8, <2>1, <2>5, <2>6
<1>10. ASSUME UNCHANGED <<registry, ghRepos>> PROVE RowsRight' /\ Twins' = Twins
  BY <1>1, <1>10 DEF RowsRight, Twins
<1>11. ASSUME UNCHANGED <<registry, ghRepos>>, NEW s, Awaits(h, s), RegistryHeld(s), s.at # "idle"
       PROVE  RegistryInv' /\ RightStep(h)
  <2>1. RegistryHeld(s)'
    BY <1>11, HeldStays
  <2>2. RegistryInv'
    BY <1>6, <1>10, <1>11, <2>1
  <2>3. req'[h] = s
    BY <1>11 DEF Awaits, GithubInv, HandsRight
  <2>4. req'[h] # Idle
    BY <1>11, <2>3 DEF Idle
  <2> QED BY <1>10, <1>11, <2>2, <2>4 DEF RightStep
<1>12. CASE DiscoverById(h)
  <2>1. /\ r.at = "discover" /\ r.done < Len(r.seen) /\ UNCHANGED <<registry, ghRepos>> /\ SeenRight(r)
        /\ NextSeen(r) = Discovered(h)
    BY <1>3, <1>4, <1>12 DEF DiscoverById, At, repositories, RegistryHeld, Discovering, NextSeen, Discovered
  <2>2. CASE ById(NextSeen(r).ext) = {}
    <3>1. PICK s : s = [r EXCEPT !.at = "by name"]
      OBVIOUS
    <3>2. Awaits(h, s)
      BY <1>3, <1>12, <2>1, <2>2, <3>1 DEF DiscoverById
    <3>3. /\ s.at = "by name" /\ DOMAIN s = DOMAIN r /\ s.seen = r.seen /\ s.done = r.done
      BY <2>1, <3>1 DEF SeenRight
    <3>4. RegistryHeld(s)
      BY <2>1, <2>2, <3>3 DEF RegistryHeld, SeenRight, NextSeen
    <3> QED BY <1>11, <2>1, <3>2, <3>3, <3>4
  <2>3. CASE ById(NextSeen(r).ext) # {}
    <3>1. PICK q \in ById(NextSeen(r).ext) : HoldsRow(h, q)
      BY <1>12, <2>1, <2>3 DEF DiscoverById
    <3>2. q \in DOMAIN registry /\ registry[q].ext = NextSeen(r).ext /\ q # None
      BY <1>1, <3>1, RepositoriesAssumption DEF ById, RowsRight, RepositoriesAssumption
    <3>3. PICK s : s = [r EXCEPT !.at = "discovered", !.found = q, !.row = registry[q]]
      OBVIOUS
    <3>4. Awaits(h, s)
      BY <1>3, <3>1, <3>2, <3>3 DEF HoldsRow
    <3>5. /\ s.at = "discovered" /\ DOMAIN s = DOMAIN r /\ s.seen = r.seen /\ s.done = r.done
          /\ s.found = q /\ s.row = registry[q]
      BY <2>1, <3>3 DEF SeenRight
    <3>6. SeenRight(s) /\ FoundRight(s)
      BY <2>1, <3>2, <3>5 DEF SeenRight, FoundRight, NextSeen
    <3>7. RegistryHeld(s)
      BY <2>1, <3>5, <3>6 DEF RegistryHeld
    <3> QED BY <1>11, <2>1, <3>4, <3>5, <3>7
  <2> QED BY <2>2, <2>3
<1>13. CASE DiscoverByName(h)
  <2>1. /\ r.at = "by name" /\ r.done < Len(r.seen) /\ UNCHANGED <<registry, ghRepos>> /\ SeenRight(r)
        /\ NextSeen(r) = Discovered(h) /\ ById(NextSeen(r).ext) = {}
    BY <1>3, <1>4, <1>13 DEF DiscoverByName, At, repositories, RegistryHeld, Discovering, NextSeen, Discovered
  <2>2. PICK q : HoldsRow(h, q) /\ (q = None \/ (q \in DOMAIN registry /\ registry[q].name = NextSeen(r).name))
    BY <1>13, <2>1 DEF DiscoverByName, ByRef
  <2>3. PICK row : row = IF q = None THEN None ELSE registry[q]
    OBVIOUS
  <2>4. PICK s : s = [r EXCEPT !.at = "discovered", !.found = q, !.row = row]
    OBVIOUS
  <2>5. Awaits(h, s)
    BY <1>3, <2>2, <2>3, <2>4 DEF HoldsRow
  <2>6. /\ s.at = "discovered" /\ DOMAIN s = DOMAIN r /\ s.seen = r.seen /\ s.done = r.done
        /\ s.found = q /\ s.row = row
    BY <2>1, <2>4 DEF SeenRight
  <2>7. SeenRight(s) /\ FoundRight(s)
    BY <2>1, <2>2, <2>3, <2>6 DEF SeenRight, FoundRight, NextSeen
  <2>8. RegistryHeld(s)
    BY <2>1, <2>6, <2>7 DEF RegistryHeld
  <2> QED BY <1>11, <2>1, <2>5, <2>6, <2>8
<1>14. CASE DiscoverSave(h)
  <2>1. /\ r.at = "discovered" /\ r.done < Len(r.seen) /\ UNCHANGED ghRepos /\ SeenRight(r) /\ FoundRight(r)
        /\ NextSeen(r) = Discovered(h)
    BY <1>3, <1>4, <1>14 DEF DiscoverSave, At, RegistryHeld, Discovering, NextSeen, Discovered
  <2>2. PICK q : q = IF r.found = None THEN NewRow ELSE r.found
    OBVIOUS
  <2>3. PICK row : row = IF r.found # None THEN Refreshed(r.row, NextSeen(r))
                         ELSE Row(NextSeen(r).ext, NextSeen(r).name, NextSeen(r).branch, NextSeen(r).archived, None)
    OBVIOUS
  <2>4. /\ r.found = None => RowIds \ DOMAIN registry # {}
        /\ \/ Ends(h) /\ UNCHANGED registry
           \/ /\ registry' = With(registry, q, row)
              /\ Awaits(h, [r EXCEPT !.at = "discover", !.done = @ + 1])
    <3>1. (r.found # None) = (req[h].found # None)
      BY <1>3
    <3>2. CASE r.found = None
      BY <1>3, <1>14, <2>1, <2>2, <2>3, <3>2 DEF DiscoverSave
    <3>3. CASE r.found # None
      BY <1>3, <1>14, <2>1, <2>2, <2>3, <3>3 DEF DiscoverSave
    <3> QED BY <3>2, <3>3
  <2>5. CASE Ends(h) /\ UNCHANGED registry
    <3>1. RightStep(h)
      BY <1>3, <1>10, <2>1, <2>5 DEF RightStep, At
    <3> QED BY <1>8, <1>10, <2>1, <2>5, <3>1
  <2>6. CASE registry' = With(registry, q, row) /\ Awaits(h, [r EXCEPT !.at = "discover", !.done = @ + 1])
    <3>1. PICK s : s = [r EXCEPT !.at = "discover", !.done = @ + 1]
      OBVIOUS
    <3>2. Awaits(h, s)
      BY <2>6, <3>1
    <3>3. DOMAIN s = DOMAIN r /\ s.at = "discover" /\ s.seen = r.seen /\ s.done = r.done + 1
      BY <2>1, <3>1 DEF SeenRight
    <3>4. /\ DOMAIN row = {"ext", "name", "branch", "archived", "side"}
          /\ row.ext = NextSeen(r).ext /\ row.name = NextSeen(r).name /\ row.branch = NextSeen(r).branch
      <4>1. CASE r.found = None
        BY <2>3, <4>1 DEF Row
      <4>2. CASE r.found # None
        <5>1. DOMAIN r.row = {"ext", "name", "branch", "archived", "side"}
          BY <1>1, <2>1, <4>2 DEF FoundRight, RowsRight, RowRight
        <5> QED BY <2>3, <4>2, <5>1 DEF Refreshed
      <4> QED BY <4>1, <4>2
    <3>5. /\ RowsRight' /\ SeenRight(s)' /\ Twins' \subseteq Twins
          /\ ~mode.reuse => \A p \in DOMAIN registry :
                                registry[p].ext # None => registry'[p].ext = registry[p].ext
      BY <1>1, <2>1, <2>2, <2>4, <2>6, <3>3, <3>4, NextIsSaved
    <3>6. RegistryHeld(s)'
      BY <3>3, <3>5 DEF RegistryHeld
    <3>7. RegistryInv'
      BY <1>6, <2>1, <3>2, <3>5, <3>6
    <3>8. RightStep(h)
      BY <1>3, <2>1, <3>5 DEF RightStep, At
    <3> QED BY <3>7, <3>8
  <2> QED BY <2>4, <2>5, <2>6
<1>15. CASE DiscoverEnds(h)
  <2>1. r.at = "discover" /\ r.done = Len(r.seen) /\ Ends(h) /\ UNCHANGED <<registry, ghRepos>> /\ SeenRight(r)
    BY <1>3, <1>4, <1>15 DEF DiscoverEnds, At, repositories, RegistryHeld, Discovering
  <2>2. \A i \in DOMAIN r.seen : Told(r.seen[i])
    BY <2>1 DEF SeenRight, IsText
  <2>3. RightStep(h)
    BY <1>3, <2>1, <2>2 DEF RightStep, At
  <2> QED BY <1>8, <1>10, <2>1, <2>3
<1>16. CASE SyncFetch(h)
  <2>1. r.at = "fetch" /\ UNCHANGED <<registry, ghRepos>> /\ RowHeld(r)
    BY <1>3, <1>4, <1>16 DEF SyncFetch, At, repositories, RegistryHeld
  <2>2. CASE Ends(h)
    <3>1. RightStep(h)
      BY <1>3, <2>1 DEF RightStep, At
    <3> QED BY <1>8, <1>10, <2>1, <2>2, <3>1
  <2>3. CASE ~Ends(h)
    <3>1. PICK id \in Answers(r.row.name) :
            Awaits(h, [at |-> "sync", id |-> r.id, row |-> r.row, facts |-> Facts(id)])
      BY <1>3, <1>16, <2>3 DEF SyncFetch
    <3>2. PICK s : s = [at |-> "sync", id |-> r.id, row |-> r.row, facts |-> Facts(id)]
      OBVIOUS
    <3>3. /\ Awaits(h, s) /\ s.at = "sync" /\ s.id = r.id /\ s.row = r.row
          /\ s.facts.ext = id /\ s.facts.name = ghRepos[id].name
      BY <3>1, <3>2 DEF Facts
    <3>4. Bears(ghRepos, s.facts.ext, s.facts.name)
      BY <3>1, <3>3, AnswersBear DEF Bears, NamesOf
    <3>5. RegistryHeld(s)
      BY <2>1, <3>3, <3>4 DEF RegistryHeld, RowHeld, Discovering
    <3> QED BY <1>11, <2>1, <3>3, <3>5
  <2> QED BY <2>2, <2>3
<1>17. ASSUME NEW row, RowRight(row, ghRepos), r.id \in DOMAIN registry, UNCHANGED ghRepos,
              registry' = registry \/ registry' = With(registry, r.id, row)
       PROVE  RowsRight'
  <2>1. CASE registry' = registry
    BY <1>10, <1>17, <2>1
  <2>2. CASE registry' = With(registry, r.id, row)
    BY <1>1, <1>17, <2>2 DEF RowsRight, With
  <2> QED BY <1>17, <2>1, <2>2
<1>18. CASE SyncSave(h)
  <2>1. /\ r.at = "sync" /\ Ends(h) /\ UNCHANGED ghRepos /\ RowHeld(r)
        /\ Bears(ghRepos, r.facts.ext, r.facts.name)
    BY <1>3, <1>4, <1>18 DEF SyncSave, At, RegistryHeld
  <2>2. PICK row : row = Refreshed(r.row, r.facts)
    OBVIOUS
  <2>3. \/ registry' = registry
        \/ r.row.ext \in {None, r.facts.ext} /\ registry' = With(registry, r.id, row)
    BY <1>3, <1>18, <2>2 DEF SyncSave
  <2>4. /\ DOMAIN row = {"ext", "name", "branch", "archived", "side"}
        /\ row.ext = r.facts.ext /\ row.name = r.facts.name
    BY <2>1, <2>2 DEF Refreshed, RowHeld, RowShaped
  <2>5. RowsRight'
    BY <1>17, <2>1, <2>3, <2>4 DEF RowRight, RowHeld
  <2>6. \A p \in DOMAIN registry : registry[p].ext # None => registry'[p].ext = registry[p].ext
    BY <2>1, <2>3, <2>4 DEF With, RowHeld
  <2>7. RightStep(h)
    BY <1>3, <2>1, <2>6 DEF RightStep, At
  <2> QED BY <1>8, <2>1, <2>5, <2>7
<1>19. CASE UpdateSave(h)
  <2>1. /\ r.at = "update" /\ Ends(h) /\ UNCHANGED ghRepos /\ RowHeld(r)
        /\ registry' = With(registry, r.id, r.row)
    BY <1>3, <1>4, <1>19 DEF UpdateSave, At, RegistryHeld
  <2>2. RowRight(r.row, ghRepos)
    BY <1>1, <2>1 DEF RowHeld, RowShaped, RowsRight, RowRight
  <2>3. RowsRight'
    BY <1>17, <2>1, <2>2 DEF RowHeld
  <2>4. RightStep(h)
    BY <1>3, <2>1 DEF RightStep, At
  <2> QED BY <1>8, <2>1, <2>3, <2>4
<1>20. CASE LinkSave(h)
  <2>1. r.at = "link project" /\ Ends(h) /\ UNCHANGED <<registry, ghRepos>>
    BY <1>3, <1>20 DEF LinkSave, At
  <2>2. RightStep(h)
    BY <1>3, <2>1 DEF RightStep, At
  <2> QED BY <1>8, <1>10, <2>1, <2>2
<1> QED BY <1>9, <1>12, <1>13, <1>14, <1>15, <1>16, <1>18, <1>19, <1>20 DEF RegistryStep

LEMMA RegistryInit == GithubLinksAssumption /\ Init => RegistryInv
<1> SUFFICES ASSUME GithubLinksAssumption, Init PROVE RegistryInv
  OBVIOUS
<1>1. mode \in Modes /\ ghRepos = mode.ghRepos /\ registry = mode.registry /\ req = [h \in Handlers |-> Idle]
  BY DEF Init
<1>2. NamedApart(ghRepos, mode.reuse) /\ RowsRight
  BY <1>1, RepositoriesAssumption DEF RepositoriesAssumption, RowsRight
<1>3. ASSUME NEW h \in mode.handlers PROVE RegistryHeld(req[h])
  <2>1. req[h] = Idle
    BY <1>1, <1>3 DEF GithubLinksAssumption
  <2> QED BY <2>1, LinksHeld DEF LinksAwaits, Idle
<1> QED BY <1>2, <1>3 DEF RegistryInv

LEMMA RegistryKept ==
    ASSUME GithubLinksAssumption, GithubInv, RegistryInv, Orderly, [Next]_vars
    PROVE  /\ RegistryInv'
           /\ (\A h \in Handlers : RightStep(h)) \/ UNCHANGED <<registry, permits, ghRepos, req, mode>>
<1>1. NamedApart(ghRepos, mode.reuse) /\ RowsRight /\ mode \in Modes
  BY DEF RegistryInv, GithubInv
\* Nobody at the registry moves.
<1>2. ASSUME UNCHANGED <<registry, req, mode>>, NamedApart(ghRepos', mode.reuse),
             \A ext, name : Bears(ghRepos, ext, name) => Bears(ghRepos', ext, name)
      PROVE  RegistryInv' /\ \A h \in Handlers : RightStep(h)
  <2>1. ASSUME NEW h \in mode.handlers PROVE RegistryHeld(req[h])'
    <3>1. PICK r : r = req[h]
      OBVIOUS
    <3>2. RegistryHeld(r)'
      BY <1>2, <3>1, HeldStays DEF RegistryInv
    <3> QED BY <1>2, <3>1, <3>2
  <2>2. RowsRight'
    BY <1>1, <1>2, RowsStay
  <2>3. Twins' = Twins
    BY <1>2 DEF Twins
  <2>4. \A h \in Handlers : RightStep(h)
    BY <1>2, <2>3 DEF RightStep, At, Idle
  <2> QED BY <1>2, <2>1, <2>2, <2>4 DEF RegistryInv
<1>3. ASSUME NEW h \in Handlers, \A g \in Handlers \ {h} : req[g].at = "idle", RightStep(h)
      PROVE  \A g \in Handlers : RightStep(g)
  BY <1>3 DEF RightStep, At
<1>4. ASSUME NEW h \in mode.handlers, NEW g \in Handlers \ {h} PROVE req[g].at = "idle"
  <2>1. g \notin mode.handlers
    BY <1>1, <1>4, OneHand
  <2> QED BY <1>4, <2>1, Busy
<1>5. CASE \E h \in Handlers : LinksRequest(h) \/ LinksStep(h)
  <2>1. PICK h \in Handlers : LinksRequest(h) \/ LinksStep(h)
    BY <1>5
  <2>2. UNCHANGED <<registry, ghRepos, mode>>
    BY <2>1, LinksMove
  <2>3. CASE req' = req
    BY <1>1, <1>2, <2>2, <2>3
  <2>4. CASE req' # req
    <3>1. PICK s : s.at \in LinksAwaits /\ Awaits(h, s) /\ h \in mode.handlers
      BY <2>1, <2>4, LinksMove
    <3>2. RegistryHeld(s)' /\ RowsRight'
      BY <1>1, <2>2, <3>1, LinksHeld, RowsStay
    <3>3. RegistryInv'
      BY <1>1, <2>2, <3>1, <3>2, RegistryMoves
    <3>4. Twins' = Twins /\ registry' = registry
      BY <2>2 DEF Twins
    <3>5. ~At(h, "discover")
      BY <2>1 DEF LinksRequest, LinksStep, StartReadiness, PullFind, BoardMove, Receive, MayStart, StartPick, StartFind,
                  StartCreate, RequestFails, StartLink, StartStatus, PullCreate, PullSave, PullStatus,
                  BranchCreatedFind, BranchCreatedSave, BranchDeleted, PullEventFind, PullEventSave, At,
                  Starting, Reviewing, Telling
    <3>6. RightStep(h)
      BY <3>4, <3>5 DEF RightStep
    <3> QED BY <1>3, <1>4, <3>1, <3>3, <3>6
  <2> QED BY <2>3, <2>4
<1>6. CASE \E n \in {NameOf(t, prefix) : t \in mode.tickets, prefix \in Prefixes} : GithubStep(n)
  <2>1. PICK n : GithubStep(n)
    BY <1>6
  <2>2. UNCHANGED <<registry, ghRepos, req, mode>>
    BY <2>1, BranchesOnly DEF GithubStep, hq, repositories
  <2> QED BY <1>1, <1>2, <2>2
<1>7. CASE \E h \in Handlers : RegistryRequest(h) \/ RegistryStep(h)
  <2>1. PICK h \in Handlers : RegistryRequest(h) \/ RegistryStep(h)
    BY <1>7
  <2>2. CASE RegistryRequest(h)
    <3>1. RegistryInv'
      BY <2>1, <2>2, RegistryRequested
    <3>2. h \in mode.handlers /\ req[h].at = "idle"
      BY <2>2 DEF RegistryRequest, Discover, Register, SyncFind, LinkFind, UnlinkProject, UpdateFind, MayStart
    <3>3. RightStep(h)
      BY <3>2 DEF RightStep, At
    <3> QED BY <1>3, <1>4, <2>1, <3>1, <3>2, <3>3
  <2>3. CASE RegistryStep(h)
    <3>1. RegistryInv' /\ RightStep(h)
      BY <2>1, <2>3, RegistryStepped
    <3>2. req[h].at # "idle"
      BY <2>3 DEF RegistryStep, RegisterSave, DiscoverById, DiscoverByName, DiscoverSave, DiscoverEnds, SyncFetch, SyncSave,
                  UpdateSave, LinkSave, At
    <3>3. h \in mode.handlers
      BY <2>1, <3>2, Busy
    <3> QED BY <1>3, <1>4, <2>1, <3>1, <3>3
  <2> QED BY <2>1, <2>2, <2>3
<1>8. CASE RegistryOfGithub
  <2>1. UNCHANGED <<registry, req, mode>>
    BY <1>8 DEF RegistryOfGithub, repositories
  <2> QED BY <1>1, <1>2, <1>8, <2>1, NamesStand
<1>9. CASE UNCHANGED vars
  BY <1>1, <1>2, <1>9 DEF vars
<1> QED BY <1>5, <1>6, <1>7, <1>8, <1>9 DEF Next

LEMMA ModeStands ==
    ASSUME GithubLinksAssumption, GithubInv, [Next]_vars
    PROVE  mode' = mode
<1>1. CASE \E h \in Handlers : LinksRequest(h) \/ LinksStep(h)
  BY <1>1, LinksMove
<1>2. ASSUME NEW n, GithubStep(n) PROVE mode' = mode
  BY <1>2 DEF GithubStep
<1>3. ASSUME NEW h, RegistryRequest(h) PROVE mode' = mode
  BY <1>3 DEF RegistryRequest, Discover, Register, SyncFind, LinkFind, UnlinkProject, UpdateFind, Awaits
<1>4. ASSUME NEW h, RegistryStep(h) PROVE mode' = mode
  BY <1>4 DEF RegistryStep, RegisterSave, DiscoverById, DiscoverByName, HoldsRow, DiscoverSave, DiscoverEnds, SyncFetch,
              SyncSave, UpdateSave, LinkSave, Ends, Awaits
<1>5. CASE RegistryOfGithub
  BY <1>5 DEF RegistryOfGithub
<1> QED BY <1>1, <1>2, <1>3, <1>4, <1>5 DEF Next, vars

-----------------------------------------------------------------------------
\* The inductive invariant: whatever overlaps, every link joins its branch to a
\* ticket that names it or is read in its name, and a request knows what its await
\* says; in order, what HQ shows of a branch is what GitHub holds, or a delivery
\* that tells of the difference is being handled or still to come -- but for the
\* branches a delivery about which was kept and not applied.
THEOREM GithubTyped == Spec => []GithubInv
<1>1. GithubLinksAssumption
  BY GithubLinksAssumption
<1> QED BY <1>1, GithubInit, GithubStepKeeps, PTL DEF Spec

\* "une branche fusionnee ou supprimee sur GitHub cesse d'etre ouverte dans HQ":
\* for any tickets, branches and number of deliveries, each repeated as often as it
\* may be, and whatever requests fail, once GitHub has every answer the links are
\* what it holds, except those a delivery failed to be applied to.
THEOREM LinksAreMirrored == Spec => []LinksMirrorGithub
<1>1. GithubInv => LinksMirrorGithub
  <2>1. SUFFICES ASSUME GithubInv, InOrder, HomeKnown, Quiet, NEW n \in DOMAIN links \ missed
                 PROVE  /\ links[n].state = "open" => n \in ghBranches /\ ghPull[n] # "merged"
                        /\ links[n].pr = ghPull[n]
    BY DEF LinksMirrorGithub
  <2>2. mode.handlers # {}
    BY <2>1, FS_EmptySet DEF InOrder, Orderly
  <2> QED BY <2>1, <2>2, InStepSettled
<1> QED BY <1>1, GithubTyped, PTL

\* "une branche poussee depuis un terminal rejoint son ticket", however requests
\* and deliveries overlap: the way back from a name to its ticket, for any titles.
THEOREM BranchesJoin == Spec => []BranchesJoinTheirTicket
<1>1. GithubInv => BranchesJoinTheirTicket
  <2>1. SUFFICES ASSUME GithubInv PROVE BranchesJoinTheirTicket
    OBVIOUS
  <2>2. ASSUME NEW n \in DOMAIN links, NEW t \in Tickets, NEW prefix \in Prefixes,
               n = NameOf(t, prefix), Unmistaken(n, t)
        PROVE  links[n].ticket = t
    <3>1. Joins(links[n].ticket, n)
      BY <2>1 DEF GithubInv, LinksRight, LinkRight
    <3> QED BY <2>2, <3>1, JoinsOne, GithubLinksAssumption
  <2>3. \A h \in Handlers : req[h].at = "status" => req[h].name \in DOMAIN links
    BY <2>1 DEF GithubInv, HandsRight, HoldsRight
  <2> QED BY <2>2, <2>3 DEF BranchesJoinTheirTicket
<1> QED BY <1>1, GithubTyped, PTL

\* "Seule la fusion est un fait acquis": no request and no delivery, in order,
\* opens again a link that was merged or deleted.
THEOREM EndedStand == Spec => EndedLinksStayEnded
<1>1. GithubInv /\ [Next]_vars =>
        [InOrder => \A n \in DOMAIN links :
                       links[n].state # "open" => links'[n].state = links[n].state]_vars
  BY EndedKept, GithubLinksAssumption
<1> QED BY <1>1, GithubTyped, PTL DEF Spec, EndedLinksStayEnded

\* Requests one at a time, the registry never gives a row to another repository
\* and never a second row to one, and what a discovery has treated stands under
\* the name it saw: for any repositories, renamed at any moment.
THEOREM OneRowEach == Spec => OneRepositoryOneRow
<1>1. GithubLinksAssumption
  BY GithubLinksAssumption
<1>2. GithubInv /\ RegistryInv /\ [Next]_vars => RegistryInv'
  <2>1. CASE Orderly
    BY <1>1, <2>1, RegistryKept
  <2>2. ASSUME ~Orderly, GithubInv, [Next]_vars PROVE RegistryInv'
    <3>1. mode' = mode
      BY <1>1, <2>2, ModeStands
    <3> QED BY <2>2, <3>1 DEF RegistryInv, Orderly
  <2> QED BY <2>1, <2>2
<1>3. GithubInv /\ RegistryInv /\ [Next]_vars =>
        [Orderly => \A h \in Handlers :
            /\ At(h, "sync") \/ (At(h, "discovered") /\ ~mode.reuse) =>
                  \A r \in DOMAIN registry :
                      registry[r].ext # None => registry'[r].ext = registry[r].ext
            /\ At(h, "discovered") => Twins' \subseteq Twins
            /\ At(h, "discover") /\ req'[h] = Idle =>
                  \A i \in DOMAIN req[h].seen : Told(req[h].seen[i])]_<<registry, permits, ghRepos, req, mode>>
  BY <1>1, RegistryKept DEF RightStep
<1> QED BY <1>1, <1>2, <1>3, RegistryInit, GithubTyped, PTL DEF Spec, OneRepositoryOneRow
=============================================================================
