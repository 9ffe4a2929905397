-------------------------- MODULE TicketRuns_proofs --------------------------
(***************************************************************************)
(* Theorems about TicketRuns, for any set of POST requests.                *)
(***************************************************************************)
EXTENDS TicketRuns, FiniteSetTheorems, SequenceTheorems, WellFoundedInduction,
        TLAPS

(* The invariant.                                                          *)

\* created lists each run once, and the runs are those of the POSTs that have
\* committed.
CreatedOnce ==
  /\ \A i, j \in DOMAIN created : created[i] = created[j] => i = j
  /\ \A p \in Posts : post[p] = "created" <=> \E i \in DOMAIN created : created[i] = p
  /\ \A p \in Posts : post[p] # "created" =>
       status[p] = "none" /\ task[p] = "none" /\ p \notin asked
  /\ \A p \in Posts : post[p] = "created" => status[p] # "none"
  /\ \A p \in Posts : givenUp[p] # NoRun => post[givenUp[p]] = "created"

Prompt == ~overlapped /\ ~slow /\ ~meddled /\ ~revived

\* A run that no reviewer holds up is not old.
AgeFits(r) == status[r] \in {"queued", "running"} => age[r] = "fresh"

\* While a POST is about to insert it has given nothing up, no other POST is,
\* and no run is live.
InsertsAlone(p) ==
  post[p] = "inserting" => /\ givenUp[p] = NoRun
                           /\ \A q \in Posts : post[q] = "inserting" => q = p
                           /\ \A r \in Posts : status[r] \notin Live

AtMostOneLive == \A r, q \in Posts : status[r] \in Live /\ status[q] \in Live => r = q

PromptInv ==
  Prompt => /\ \A r \in Posts : AgeFits(r) /\ InsertsAlone(r)
            /\ AtMostOneLive

IInv == TypeOK /\ CreatedOnce /\ PromptInv

-----------------------------------------------------------------------------
(* The newest live run.                                                    *)

\* Least numbers exist: the well-foundedness of < without an induction.
LEMMA LeastNumber ==
  ASSUME NEW T, T \subseteq Nat, T # {}
  PROVE  \E x \in T : \A y \in T : x <= y
<1> DEFINE R == OpToRel(<, Nat)
<1>1. IsWellFoundedOn(R, Nat)
  BY NatLessThanWellFounded
<1>2. \E x \in T : \A y \in T : ~(<<y, x>> \in R)
  <2> HIDE DEF R
  <2> QED BY <1>1, WFMin
<1>3. \A x, y \in Nat : y < x => <<y, x>> \in R
  BY DEF OpToRel
<1>4. \A x, y \in Nat : ~(y < x) => x <= y
  OBVIOUS
<1> QED BY <1>2, <1>3, <1>4

LEMMA GreatestPlace ==
  ASSUME NEW n \in Nat, NEW T, T \subseteq 1..n, T # {}
  PROVE  Max(T) \in T
<1> DEFINE U == {n - i : i \in T}
<1>1. U \subseteq Nat /\ U # {}
  <2>1. \A i \in 1..n : n - i \in Nat
    OBVIOUS
  <2>2. U \subseteq Nat
    BY <2>1
  <2>3. PICK i \in T : TRUE
    OBVIOUS
  <2>4. n - i \in U
    OBVIOUS
  <2> QED BY <2>2, <2>4
<1>2. PICK x \in U : \A y \in U : x <= y
  BY <1>1, LeastNumber
<1>3. PICK i \in T : x = n - i
  BY <1>2
<1>4. \A j \in T : i >= j
  <2> SUFFICES ASSUME NEW j \in T PROVE i >= j
    OBVIOUS
  <2>1. n - j \in U
    OBVIOUS
  <2>2. n - i <= n - j
    BY <1>2, <1>3, <2>1
  <2> QED BY <2>2
<1> QED BY <1>4 DEF Max

LEMMA NewestLiveType ==
  ASSUME TypeOK, NewestLive # NoRun
  PROVE  /\ NewestLive \in Posts
         /\ status[NewestLive] \in Live
         /\ \E i \in DOMAIN created : created[i] = NewestLive
<1>1. /\ Len(created) \in Nat
      /\ created \in [1..Len(created) -> Posts]
      /\ DOMAIN created = 1..Len(created)
  BY LenProperties DEF TypeOK
<1>2. LivePlaces # {} /\ NewestLive = created[Max(LivePlaces)]
  BY DEF NewestLive
<1>3. LivePlaces \subseteq 1..Len(created)
  BY <1>1 DEF LivePlaces
<1>4. Max(LivePlaces) \in LivePlaces
  BY <1>1, <1>2, <1>3, GreatestPlace
<1> QED BY <1>1, <1>2, <1>4 DEF LivePlaces

\* A look-up that finds nothing has looked at every run.
LEMMA NoNewestLive ==
  ASSUME TypeOK, CreatedOnce, NewestLive = NoRun
  PROVE  \A r \in Posts : status[r] \notin Live
<1>1. LivePlaces = {}
  <2> SUFFICES ASSUME LivePlaces # {} PROVE FALSE
    OBVIOUS
  <2>1. /\ Len(created) \in Nat
        /\ created \in [1..Len(created) -> Posts]
        /\ DOMAIN created = 1..Len(created)
    BY LenProperties DEF TypeOK
  <2>2. LivePlaces \subseteq 1..Len(created)
    BY <2>1 DEF LivePlaces
  <2>3. Max(LivePlaces) \in 1..Len(created)
    BY <2>1, <2>2, GreatestPlace
  <2>4. created[Max(LivePlaces)] \in Posts
    BY <2>1, <2>3
  <2> QED BY <2>4, TicketRunsAssumption DEF NewestLive
<1> SUFFICES ASSUME NEW r \in Posts, status[r] \in Live PROVE FALSE
  OBVIOUS
<1>2. post[r] = "created"
  BY DEF CreatedOnce, Live
<1>3. PICK i \in DOMAIN created : created[i] = r
  BY <1>2 DEF CreatedOnce
<1> QED BY <1>1, <1>3 DEF LivePlaces

-----------------------------------------------------------------------------
LEMMA InitIInv == Init => IInv
<1> SUFFICES ASSUME Init PROVE IInv
  OBVIOUS
<1>1. created \in Seq(Posts) /\ DOMAIN created = {}
  BY DEF Init
<1>2. TypeOK
  BY <1>1 DEF Init, TypeOK, Statuses, Live
<1>3. CreatedOnce
  BY <1>1, TicketRunsAssumption DEF Init, CreatedOnce
<1>4. PromptInv
  BY DEF Init, PromptInv, AgeFits, InsertsAlone, AtMostOneLive, Live
<1> QED BY <1>2, <1>3, <1>4 DEF IInv

\* What Written leaves: a live run stays alone, and an ended one comes back only
\* as a revival.
LEMMA WrittenKeeps ==
  ASSUME IInv, NEW r \in Posts, NEW st \in Statuses \ {"none"}, Written(r, st),
         status[r] # "none",
         task' \in [Posts -> {"none", "queued", "running", "done", "lost"}],
         \A q \in Posts \ {r} : task'[q] = task[q],
         asked' \in {asked, asked \cup {r}},
         meddled' \in {meddled, TRUE}
  PROVE  IInv'
<1> USE DEF IInv
<1>1. /\ status' = [status EXCEPT ![r] = st]
      /\ age' = [age EXCEPT ![r] = "fresh"]
      /\ revived' = (revived \/ (status[r] \notin Live /\ st \in Live))
      /\ UNCHANGED <<created, post, givenUp, overlapped, slow>>
  BY DEF Written, NoteRevival
<1>2. /\ status'[r] = st /\ age'[r] = "fresh"
      /\ \A q \in Posts \ {r} : status'[q] = status[q] /\ age'[q] = age[q]
  BY <1>1 DEF TypeOK
<1>3. TypeOK'
  BY <1>1 DEF TypeOK
<1>4. CreatedOnce'
  <2>1. post[r] = "created"
    BY DEF CreatedOnce
  <2> QED BY <1>1, <1>2, <2>1 DEF CreatedOnce
<1>5. PromptInv'
  <2> SUFFICES ASSUME ~overlapped', ~slow', ~meddled', ~revived'
               PROVE  /\ \A q \in Posts : (AgeFits(q) /\ InsertsAlone(q))'
                      /\ AtMostOneLive'
    BY DEF PromptInv, Prompt
  <2>1. ~overlapped /\ ~slow /\ ~meddled /\ ~revived
    BY <1>1 DEF TypeOK
  <2>2. /\ \A q \in Posts : AgeFits(q) /\ InsertsAlone(q)
        /\ AtMostOneLive
    BY <2>1 DEF PromptInv, Prompt
  <2>3. st \in Live => status[r] \in Live
    BY <1>1
  <2>4. \A q \in Posts : status'[q] \in Live => status[q] \in Live
    BY <1>2, <2>3
  <2>5. \A q \in Posts : InsertsAlone(q)'
    BY <1>1, <2>2, <2>4 DEF InsertsAlone
  <2>6. \A q \in Posts : AgeFits(q)'
    BY <1>2, <2>2 DEF AgeFits
  <2>7. AtMostOneLive'
    BY <2>2, <2>4 DEF AtMostOneLive
  <2> QED BY <2>5, <2>6, <2>7
<1> QED BY <1>3, <1>4, <1>5

LEMMA NextIInv == IInv /\ [Next]_vars => IInv'
<1> SUFFICES ASSUME IInv, [Next]_vars PROVE IInv'
  OBVIOUS
<1>0. TypeOK /\ CreatedOnce /\ PromptInv
  BY DEF IInv
<1>1. CASE UNCHANGED vars
  BY <1>0, <1>1 DEF vars, IInv, TypeOK, CreatedOnce, PromptInv, Prompt, AgeFits,
                    InsertsAlone, AtMostOneLive
<1>2. ASSUME NEW p \in Posts, Return(p) PROVE IInv'
  <2>1. /\ post' = [post EXCEPT ![p] = "returned"] /\ post[p] = "idle"
        /\ UNCHANGED <<status, age, created, task, asked, givenUp>>
        /\ UNCHANGED <<overlapped, slow, meddled, revived>>
    BY <1>2 DEF Return, historyUnchanged
  <2>2. post'[p] = "returned" /\ \A q \in Posts \ {p} : post'[q] = post[q]
    BY <1>0, <2>1 DEF TypeOK
  <2>3. TypeOK'
    BY <1>0, <2>1 DEF TypeOK
  <2>4. CreatedOnce'
    BY <1>0, <2>1, <2>2 DEF CreatedOnce
  <2>5. PromptInv'
    BY <1>0, <2>1, <2>2 DEF PromptInv, Prompt, AgeFits, InsertsAlone, AtMostOneLive
  <2> QED BY <2>3, <2>4, <2>5 DEF IInv
<1>3. ASSUME NEW p \in Posts, Decline(p) PROVE IInv'
  <2> DEFINE g == IF NewestLive # NoRun /\ age[NewestLive] = "stale"
                  THEN NewestLive ELSE NoRun
  <2>1. /\ post[p] = "idle" /\ ~Returnable
        /\ post' = [post EXCEPT ![p] = "inserting"]
        /\ givenUp' = [givenUp EXCEPT ![p] = g]
        /\ overlapped' = (overlapped \/ \E q \in Posts \ {p} : post[q] = "inserting")
        /\ UNCHANGED <<status, age, created, task, asked, slow, meddled, revived>>
    BY <1>3 DEF Decline, NoteLookup
  <2>2. /\ g \in Posts \cup {NoRun}
        /\ g # NoRun => post[g] = "created"
    BY <1>0, NewestLiveType DEF CreatedOnce
  <2>3. /\ post'[p] = "inserting" /\ givenUp'[p] = g
        /\ \A q \in Posts \ {p} : post'[q] = post[q] /\ givenUp'[q] = givenUp[q]
    BY <1>0, <2>1 DEF TypeOK
  <2>4. TypeOK'
    BY <1>0, <2>1, <2>2 DEF TypeOK
  <2>5. CreatedOnce'
    BY <1>0, <2>1, <2>2, <2>3 DEF CreatedOnce
  <2>6. PromptInv'
    <3> SUFFICES ASSUME ~overlapped', ~slow', ~meddled', ~revived'
                 PROVE  /\ \A r \in Posts : (AgeFits(r) /\ InsertsAlone(r))'
                        /\ AtMostOneLive'
      BY DEF PromptInv, Prompt
    <3>1. /\ \A r \in Posts : AgeFits(r) /\ InsertsAlone(r)
          /\ AtMostOneLive
          /\ \A q \in Posts \ {p} : post[q] # "inserting"
      BY <1>0, <2>1 DEF PromptInv, Prompt
    <3>2. NewestLive = NoRun
      <4> SUFFICES ASSUME NewestLive # NoRun PROVE FALSE
        OBVIOUS
      <4>1. NewestLive \in Posts /\ status[NewestLive] \in Live
        BY <1>0, NewestLiveType
      <4>2. Reusable(NewestLive)
        BY <3>1, <4>1 DEF AgeFits, Reusable, Live
      <4> QED BY <2>1, <4>2 DEF Returnable
    <3>3. \A r \in Posts : status[r] \notin Live
      BY <1>0, <3>2, NoNewestLive
    <3>4. \A r \in Posts : InsertsAlone(r)'
      BY <2>1, <2>3, <3>1, <3>2, <3>3 DEF InsertsAlone
    <3> QED BY <2>1, <3>1, <3>4 DEF AgeFits, AtMostOneLive
  <2> QED BY <2>4, <2>5, <2>6 DEF IInv
<1>4. ASSUME NEW p \in Posts, Create(p) PROVE IInv'
  <2>1. /\ post[p] = "inserting"
        /\ post' = [post EXCEPT ![p] = "created"]
        /\ status' = [r \in Posts |-> CASE r = p -> "queued"
                                        [] r = givenUp[p] -> "failed"
                                        [] OTHER -> status[r]]
        /\ age' = [r \in Posts |-> IF r \in {p, givenUp[p]} THEN "fresh" ELSE age[r]]
        /\ created' = Append(created, p)
        /\ task' = [task EXCEPT ![p] = "queued"]
        /\ UNCHANGED <<asked, givenUp, overlapped, slow, meddled, revived>>
    BY <1>4 DEF Create, historyUnchanged
  <2>2. /\ givenUp[p] # p
        /\ givenUp[p] \in Posts => post[givenUp[p]] = "created"
        /\ status[p] = "none" /\ task[p] = "none"
    BY <1>0, <2>1, TicketRunsAssumption DEF CreatedOnce
  <2>3. /\ post'[p] = "created" /\ task'[p] = "queued"
        /\ \A q \in Posts \ {p} : post'[q] = post[q] /\ task'[q] = task[q]
    BY <1>0, <2>1 DEF TypeOK
  <2>4. /\ status'[p] = "queued" /\ age'[p] = "fresh"
        /\ \A q \in Posts \ {p} :
             /\ q = givenUp[p] => status'[q] = "failed" /\ age'[q] = "fresh"
             /\ q # givenUp[p] => status'[q] = status[q] /\ age'[q] = age[q]
    BY <2>1, <2>2
  <2>5. /\ created' \in Seq(Posts)
        /\ DOMAIN created = 1..Len(created) /\ Len(created) \in Nat
        /\ DOMAIN created' = 1..(Len(created) + 1)
        /\ \A i \in DOMAIN created : created'[i] = created[i]
        /\ created'[Len(created) + 1] = p
    <3>1. created \in Seq(Posts)
      BY <1>0 DEF TypeOK
    <3> QED BY <2>1, <3>1, AppendProperties, LenProperties
  <2>6. TypeOK'
    <3>1. status' \in [Posts -> Statuses]
      BY <1>0, <2>1, <2>2, <2>4 DEF TypeOK, Statuses, Live
    <3> QED BY <1>0, <2>1, <2>5, <3>1 DEF TypeOK
  <2>7. CreatedOnce'
    <3>1. \A i \in DOMAIN created : created[i] # p
      BY <1>0, <2>1 DEF CreatedOnce
    <3>2. \A i, j \in DOMAIN created' : created'[i] = created'[j] => i = j
      BY <1>0, <2>5, <3>1 DEF CreatedOnce
    <3>3. \A q \in Posts : post'[q] = "created" <=>
                             \E i \in DOMAIN created' : created'[i] = q
      BY <1>0, <2>3, <2>5, <3>1 DEF CreatedOnce
    <3>4. /\ \A q \in Posts : post'[q] # "created" =>
                                status'[q] = "none" /\ task'[q] = "none" /\ q \notin asked'
          /\ \A q \in Posts : post'[q] = "created" => status'[q] # "none"
          /\ \A q \in Posts : givenUp'[q] # NoRun => post'[givenUp'[q]] = "created"
      BY <1>0, <2>1, <2>2, <2>3, <2>4 DEF CreatedOnce, TypeOK
    <3> QED BY <3>2, <3>3, <3>4 DEF CreatedOnce
  <2>8. PromptInv'
    <3> SUFFICES ASSUME ~overlapped', ~slow', ~meddled', ~revived'
                 PROVE  /\ \A r \in Posts : (AgeFits(r) /\ InsertsAlone(r))'
                        /\ AtMostOneLive'
      BY DEF PromptInv, Prompt
    <3>1. /\ \A r \in Posts : AgeFits(r) /\ InsertsAlone(r)
          /\ givenUp[p] = NoRun
          /\ \A q \in Posts \ {p} : post[q] # "inserting"
          /\ \A r \in Posts : status[r] \notin Live
      BY <1>0, <2>1 DEF PromptInv, Prompt, InsertsAlone
    <3>2. \A q \in Posts \ {p} : status'[q] = status[q] /\ age'[q] = age[q]
      BY <2>4, <3>1, TicketRunsAssumption
    <3>3. \A r \in Posts : AgeFits(r)'
      BY <2>3, <2>4, <3>1, <3>2 DEF AgeFits
    <3>4. \A r \in Posts : InsertsAlone(r)'
      BY <2>3, <3>1 DEF InsertsAlone
    <3>5. AtMostOneLive'
      BY <2>4, <3>1, <3>2 DEF AtMostOneLive
    <3> QED BY <3>3, <3>4, <3>5
  <2> QED BY <2>6, <2>7, <2>8 DEF IInv
<1>5. ASSUME NEW r \in Posts, Start(r) \/ Ask(r) \/ Finish(r) PROVE IInv'
  <2>1. /\ task[r] \in {"queued", "running"}
        /\ \E t \in {"running", "done"} : task' = [task EXCEPT ![r] = t]
        /\ asked' \in {asked, asked \cup {r}} /\ meddled' = meddled
    <3>1. CASE Start(r)
      BY <3>1 DEF Start
    <3>2. CASE Ask(r)
      <4>1. task' = [task EXCEPT ![r] = "running"]
        BY <1>0, <3>2 DEF Ask, TypeOK
      <4> QED BY <3>2, <4>1 DEF Ask
    <3>3. CASE Finish(r)
      BY <3>3 DEF Finish
    <3> QED BY <1>5, <3>1, <3>2, <3>3
  <2>2. PICK st \in Statuses \ {"none"} : Written(r, st)
    BY <1>5 DEF Start, Ask, Finish, Derivable, Statuses, Live
  <2>3. status[r] # "none"
    BY <1>0, <2>1 DEF CreatedOnce
  <2>4. /\ task' \in [Posts -> {"none", "queued", "running", "done", "lost"}]
        /\ \A q \in Posts \ {r} : task'[q] = task[q]
    BY <1>0, <2>1 DEF TypeOK
  <2> QED BY <2>1, <2>2, <2>3, <2>4, WrittenKeeps
<1>6. ASSUME NEW r \in Posts, Reviewed(r) PROVE IInv'
  <2>1. r \in asked /\ UNCHANGED <<task, asked, meddled>>
    BY <1>6 DEF Reviewed
  <2>2. PICK st \in Statuses \ {"none"} : Written(r, st)
    BY <1>6 DEF Reviewed, Derivable, Statuses, Live
  <2>3. status[r] # "none"
    BY <1>0, <2>1 DEF CreatedOnce
  <2>4. task' \in [Posts -> {"none", "queued", "running", "done", "lost"}]
    BY <1>0, <2>1 DEF TypeOK
  <2> QED BY <2>1, <2>2, <2>3, <2>4, WrittenKeeps
<1>7. ASSUME NEW r \in Posts, Cancel(r) \/ GiveUp(r) PROVE IInv'
  <2>1. /\ status[r] # "none" /\ meddled' = TRUE /\ UNCHANGED <<task, asked>>
        /\ \E st \in {"cancelled", "failed"} : Written(r, st)
    BY <1>7 DEF Cancel, GiveUp
  <2>2. PICK st \in {"cancelled", "failed"} : Written(r, st)
    BY <2>1
  <2>3. task' \in [Posts -> {"none", "queued", "running", "done", "lost"}]
    BY <1>0, <2>1 DEF TypeOK
  <2> QED BY <2>1, <2>2, <2>3, WrittenKeeps DEF Statuses, Live
<1>8. ASSUME NEW r \in Posts, Age(r) PROVE IInv'
  <2>1. /\ age' = [age EXCEPT ![r] = IF @ = "fresh" THEN "slow" ELSE "stale"]
        /\ slow' = (slow \/ status[r] # "waiting_for_approval")
        /\ UNCHANGED <<status, created, task, asked, post, givenUp, overlapped>>
        /\ UNCHANGED <<meddled, revived>>
    BY <1>8 DEF Age
  <2>2. TypeOK'
    BY <1>0, <2>1 DEF TypeOK
  <2>3. CreatedOnce'
    BY <1>0, <2>1 DEF CreatedOnce
  <2>4. \A q \in Posts \ {r} : age'[q] = age[q]
    BY <1>0, <2>1 DEF TypeOK
  <2>5. PromptInv'
    BY <1>0, <2>1, <2>4 DEF PromptInv, Prompt, AgeFits, InsertsAlone, AtMostOneLive
  <2> QED BY <2>2, <2>3, <2>5 DEF IInv
<1>9. CASE Restart
  <2>1. /\ task' = [p \in Posts |->
                     IF task[p] \in {"queued", "running"} THEN "lost" ELSE task[p]]
        /\ post' = [p \in Posts |-> IF post[p] = "inserting" THEN "lost" ELSE post[p]]
        /\ UNCHANGED <<status, age, created, asked, givenUp, overlapped, slow, meddled>>
        /\ revived' = revived
    BY <1>9 DEF Restart, historyUnchanged
  <2>2. /\ \A p \in Posts : post'[p] = "created" <=> post[p] = "created"
        /\ \A p \in Posts : post'[p] # "inserting"
        /\ \A p \in Posts : task'[p] \notin {"queued", "running"}
        /\ \A p \in Posts : task[p] = "none" => task'[p] = "none"
    BY <2>1
  <2>3. TypeOK'
    BY <1>0, <2>1 DEF TypeOK
  <2>4. CreatedOnce'
    BY <1>0, <2>1, <2>2 DEF CreatedOnce, TypeOK
  <2>5. PromptInv'
    BY <1>0, <2>1, <2>2 DEF PromptInv, Prompt, AgeFits, InsertsAlone, AtMostOneLive
  <2> QED BY <2>3, <2>4, <2>5 DEF IInv
<1> QED
  BY <1>1, <1>2, <1>3, <1>4, <1>5, <1>6, <1>7, <1>8, <1>9 DEF Next

LEMMA IInvAlways == Spec => []IInv
BY InitIInv, NextIInv, PTL DEF Spec

-----------------------------------------------------------------------------
\* The types, whatever overlaps and however slow the tasks are.
THEOREM TypeCorrect == Spec => []TypeOK
<1>1. IInv => TypeOK
  BY DEF IInv
<1> QED BY <1>1, IInvAlways, PTL

\* The look-up without a lock and without a constraint is enough for one live
\* run, for any number of POSTs, as long as the tasks are prompt, the POSTs do
\* not overlap, nobody meddles and no ended run is taken back to live.
THEOREM OneLiveRun == Spec => []OneLiveRunWhenPrompt
<1>1. IInv => OneLiveRunWhenPrompt
  <2> SUFFICES ASSUME IInv, ~overlapped, ~slow, ~meddled, ~revived PROVE OneLive
    BY DEF OneLiveRunWhenPrompt
  <2> DEFINE live == {r \in Posts : status[r] \in Live}
  <2>1. \A r, q \in live : r = q
    BY DEF IInv, PromptInv, Prompt, AtMostOneLive
  <2>2. CASE live = {}
    BY <2>2, FS_EmptySet DEF OneLive
  <2>3. CASE live # {}
    <3>1. PICK r \in live : TRUE
      BY <2>3
    <3>2. live = {r}
      BY <2>1, <3>1
    <3>3. Cardinality(live) = 1
      BY <3>2, FS_Singleton
    <3> QED BY <3>3 DEF OneLive
  <2> QED BY <2>2, <2>3
<1> QED BY <1>1, IInvAlways, PTL
=============================================================================
