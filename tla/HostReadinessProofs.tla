------------------------- MODULE HostReadinessProofs -------------------------
(***************************************************************************)
(* The host-readiness registry never loses or closes twice a descriptor,   *)
(* reports every task it wakes, and replays a live poll exactly, for every *)
(* number of tasks and registrations and every length of replay.           *)
(*                                                                         *)
(* The scheduler underneath keeps its own invariant: each call is a step   *)
(* of it, or a sequence of wake-ups of suspended tasks.  A call is         *)
(* followed as the chain of states it goes through; what a chain keeps is  *)
(* `Reached'.                                                              *)
(***************************************************************************)
EXTENDS HostReadiness, SchedulerCoreProofs, FiniteSetTheorems

\* The registry alone: oldest first, and a duplicate is closed once its
\* registration was made and is no longer there.
RegistryExact(reg, rel, n) ==
  /\ reg \in Seq(Decision)
  /\ rel \in [Registration -> Nat]
  /\ \A i, j \in DOMAIN reg : i < j => reg[i].id < reg[j].id
  /\ \A e : In(e, reg) => e.id < n
  /\ \A r \in Registration :
       rel[r] = IF r < n /\ \A e \in ToSet(reg) : e.id # r THEN 1 ELSE 0

\* The registry and the tasks: who waits for readiness is registered.
Covered(E, reg) ==
  \A t \in Task, r \in Registration :
    SuspendedOn(E, t, "Host_readiness", r) => In([id |-> r, task |-> t], reg)

HIInv ==
  /\ IInv
  /\ NoWaitCycle
  /\ next_id \in Nat /\ outcome \in Outcome
  /\ RegistryExact(registry, releases, next_id)
  /\ Covered(entries, registry)
  /\ closed => registry = <<>>

----------------------------------------------------------------------------
(* Retiring registrations.                                                 *)

CallState == [ entries : Table, registry : Seq(Decision),
               releases : [Registration -> Nat],
               awakened : Seq(Task), outcome : Outcome ]

\* Where a list holds the registration r, if it is one to retire.
Retired(reg, retiring, r) == {i \in DOMAIN reg : reg[i] \in retiring /\ reg[i].id = r}

LEMMA RetiredCount ==
  ASSUME NEW reg \in Seq(Decision), NEW retiring, NEW r
  PROVE  Cardinality(Retired(reg, retiring, r)) \in Nat
<1>1. DOMAIN reg = 1..Len(reg) /\ Len(reg) \in Int /\ 1 \in Int
  OBVIOUS
<1>2. IsFiniteSet(DOMAIN reg)
  BY <1>1, FS_Interval
<1>3. Retired(reg, retiring, r) \in SUBSET (DOMAIN reg)
  BY DEF Retired
<1> QED
  BY <1>2, <1>3, FS_Subset, FS_CardinalityType

\* Retiring touches the registry and the releases only.
LEMMA RetireFields ==
  ASSUME NEW S \in CallState, NEW retiring
  PROVE  /\ RetireMatching(S, retiring) \in CallState
         /\ RetireMatching(S, retiring).registry
              = Filtered(S.registry, Decision \ retiring)
         /\ RetireMatching(S, retiring).releases
              = [r \in Registration |->
                   S.releases[r] + Cardinality(Retired(S.registry, retiring, r))]
         /\ RetireMatching(S, retiring).entries = S.entries
         /\ RetireMatching(S, retiring).awakened = S.awakened
         /\ RetireMatching(S, retiring).outcome = S.outcome
<1> DEFINE reg == Filtered(S.registry, Decision \ retiring)
           rel == [r \in Registration |->
                     S.releases[r] + Cardinality(Retired(S.registry, retiring, r))]
<1>1. RetireMatching(S, retiring) = [S EXCEPT !.registry = reg, !.releases = rel]
  BY DEF RetireMatching, Retired, CallState
<1>2. reg \in Seq(Decision)
  BY FilteredIs DEF CallState
<1>3. rel \in [Registration -> Nat]
  BY RetiredCount DEF CallState
<1> HIDE DEF reg, rel
<1>4. [S EXCEPT !.registry = reg, !.releases = rel] \in CallState
  BY <1>2, <1>3 DEF CallState
<1> QED
  BY <1>1, <1>4 DEF CallState, reg, rel

\* What is left is what was not retired, and the duplicates stay exact.
LEMMA RetireExact ==
  ASSUME NEW S \in CallState, NEW retiring, NEW n \in Nat,
         RegistryExact(S.registry, S.releases, n)
  PROVE  /\ RegistryExact(RetireMatching(S, retiring).registry,
                          RetireMatching(S, retiring).releases, n)
         /\ \A e : In(e, RetireMatching(S, retiring).registry)
                     <=> In(e, S.registry) /\ e \notin retiring
<1> DEFINE reg == S.registry
           new == RetireMatching(S, retiring).registry
           rel == RetireMatching(S, retiring).releases
           Count(r) == Cardinality(Retired(reg, retiring, r))
<1>1. /\ new \in Seq(Decision) /\ rel \in [Registration -> Nat]
      /\ new = Filtered(reg, Decision \ retiring)
      /\ \A r \in Registration : rel[r] = S.releases[r] + Count(r)
  <2>1. RetireMatching(S, retiring) \in CallState
    BY RetireFields
  <2>2. new \in Seq(Decision) /\ rel \in [Registration -> Nat]
    BY <2>1 DEF CallState
  <2>3. rel = [r \in Registration |-> S.releases[r] + Count(r)]
    BY RetireFields
  <2>4. new = Filtered(reg, Decision \ retiring)
    BY RetireFields
  <2> HIDE DEF new, rel, Count
  <2> QED
    BY <2>2, <2>3, <2>4
<1>2. /\ reg \in Seq(Decision)
      /\ \A i, j \in DOMAIN reg : i < j => reg[i].id < reg[j].id
      /\ \A e : In(e, reg) => e.id < n
      /\ \A r \in Registration :
           S.releases[r] = IF r < n /\ \A e \in ToSet(reg) : e.id # r THEN 1 ELSE 0
  BY DEF RegistryExact
<1>3. \A e : In(e, reg) => e \in Decision
  BY <1>2 DEF In
<1>4. \A e : In(e, new) <=> In(e, reg) /\ e \notin retiring
  BY <1>1, <1>2, <1>3, FilteredIs
<1>5. \A i, j \in DOMAIN new : i < j => new[i].id < new[j].id
  <2> SUFFICES ASSUME NEW i \in DOMAIN new, NEW j \in DOMAIN new, i < j
               PROVE  new[i].id < new[j].id
    OBVIOUS
  <2>1. PICK a \in DOMAIN reg : \E b \in DOMAIN reg : a < b /\ reg[a] = new[i] /\ reg[b] = new[j]
    BY <1>1, <1>2, FilteredIs
  <2> QED
    BY <1>2, <2>1
<1>6. \A i, j \in DOMAIN reg : reg[i].id = reg[j].id => i = j
  <2> SUFFICES ASSUME NEW i \in DOMAIN reg, NEW j \in DOMAIN reg,
                      reg[i].id = reg[j].id, i # j
               PROVE  FALSE
    OBVIOUS
  <2>1. reg[i] \in Decision /\ reg[j] \in Decision
    BY <1>2
  <2>2. reg[i].id \in Nat /\ reg[j].id \in Nat
    BY <2>1, RegistrationAssumption DEF Decision
  <2>3. DOMAIN reg = 1..Len(reg) /\ Len(reg) \in Nat
    BY <1>2
  <2>4. i < j \/ j < i
    BY <2>3
  <2>5. reg[i].id < reg[j].id \/ reg[j].id < reg[i].id
    BY <1>2, <2>4
  <2> QED
    BY <2>2, <2>5
<1> HIDE DEF reg, new, rel
<1>8. \A q, e : e \in ToSet(q) <=> In(e, q)
  BY DEF ToSet, In
<1>7. ASSUME NEW r \in Registration
      PROVE  rel[r] = IF r < n /\ \A e \in ToSet(new) : e.id # r THEN 1 ELSE 0
  <2> DEFINE Freed(q) == r < n /\ \A e \in ToSet(q) : e.id # r
  <2>1. S.releases[r] = (IF Freed(reg) THEN 1 ELSE 0) /\ rel[r] = S.releases[r] + Count(r)
    BY <1>1, <1>2
  <2>2. CASE \E k \in DOMAIN reg : reg[k].id = r
    <3>1. PICK k \in DOMAIN reg : reg[k].id = r
      BY <2>2
    <3>2. In(reg[k], reg) /\ ~Freed(reg) /\ r < n
      BY <1>2, <1>8, <3>1 DEF In
    <3>3. CASE reg[k] \in retiring
      <4>1. Retired(reg, retiring, r) = {k}
        BY <1>6, <3>1, <3>3 DEF Retired
      <4>2. Count(r) = 1
        BY <4>1, FS_Singleton
      <4>3. Freed(new)
        <5>1. ASSUME NEW e, In(e, new), e.id = r PROVE FALSE
          <6>1. In(e, reg) /\ e \notin retiring
            BY <1>4, <5>1
          <6>2. PICK i \in DOMAIN reg : reg[i] = e
            BY <6>1 DEF In
          <6>3. i = k
            BY <1>6, <3>1, <5>1, <6>2
          <6> QED
            BY <3>3, <6>1, <6>2, <6>3
        <5> QED
          BY <1>8, <3>2, <5>1
      <4> HIDE DEF Freed
      <4> QED
        BY <2>1, <3>2, <4>2, <4>3 DEF Freed
    <3>4. CASE reg[k] \notin retiring
      <4>1. Retired(reg, retiring, r) = {}
        BY <1>6, <3>1, <3>4 DEF Retired
      <4>2. Count(r) = 0
        BY <4>1, FS_EmptySet
      <4>3. ~Freed(new)
        BY <1>4, <1>8, <3>1, <3>2, <3>4
      <4> HIDE DEF Freed
      <4> QED
        BY <2>1, <3>2, <4>2, <4>3 DEF Freed
    <3> QED
      BY <3>3, <3>4
  <2>3. CASE ~\E k \in DOMAIN reg : reg[k].id = r
    <3>1. Retired(reg, retiring, r) = {}
      BY <2>3 DEF Retired
    <3>2. Count(r) = 0
      BY <3>1, FS_EmptySet
    <3>3. \A e : In(e, reg) => e.id # r
      BY <2>3 DEF In
    <3>4. Freed(reg) <=> Freed(new)
      BY <1>4, <1>8, <3>3
    <3> HIDE DEF Freed
    <3> QED
      BY <2>1, <3>2, <3>4 DEF Freed
  <2> QED
    BY <2>2, <2>3
<1>9. \A e : In(e, new) => e.id < n
  BY <1>2, <1>4
<1>10. RegistryExact(new, rel, n)
  BY <1>1, <1>5, <1>7, <1>9 DEF RegistryExact
<1> QED
  BY <1>4, <1>10 DEF reg, new, rel

----------------------------------------------------------------------------
(* What a call keeps at each state S it goes through.                      *)

\* S is reached from the state before the call by waking suspended tasks, or
\* settling one, and retiring registrations.
Reached(S) ==
  /\ S \in CallState
  /\ TableInv(S.entries, held, next_spawn, closed)
  /\ RegistryExact(S.registry, S.releases, next_id)
  /\ Covered(S.entries, S.registry)
  /\ closed => S.registry = <<>>
  /\ Reports(S.awakened, entries, S.entries)
  /\ \A u \in Task :
       /\ S.entries[u].lifecycle = "Suspended" => entries[u].lifecycle = "Suspended"
       /\ IsAwaiting(S.entries[u]) => IsAwaiting(entries[u])
                                      /\ S.entries[u].on = entries[u].on

AllOwned(S) == \A e : In(e, S.registry) => StillOwned(S.entries, e)

LEMMA BeforeReached ==
  ASSUME HIInv
  PROVE  Reached(Before) /\ Before.outcome = "Ok" /\ Before.entries = entries
         /\ Before.registry = registry /\ Before.releases = releases
<1>1. /\ IInv /\ RegistryExact(registry, releases, next_id)
      /\ Covered(entries, registry) /\ closed => registry = <<>>
  BY DEF HIInv
<1>2. TableInv(entries, held, next_spawn, closed) /\ entries \in Table
  BY <1>1, IInvIsTableInv DEF TableInv, Consistent
<1>3. <<>> \in Seq(Task) /\ Distinct(<<>>) /\ \A u : ~In(u, <<>>)
  BY DEF Distinct, In
<1>4. Reports(<<>>, entries, entries)
  BY <1>3 DEF Reports
<1>5. /\ Before.entries = entries /\ Before.registry = registry
      /\ Before.releases = releases /\ Before.awakened = <<>> /\ Before.outcome = "Ok"
  BY DEF Before
<1>6. Before \in CallState
  BY <1>1, <1>2, <1>3 DEF Before, CallState, RegistryExact, Outcome
<1> QED
  BY <1>1, <1>2, <1>4, <1>5, <1>6 DEF Reached, HIInv

\* Retiring what no task waits on.
LEMMA RetireReached ==
  ASSUME next_id \in Nat, NEW S, Reached(S), NEW retiring,
         \A e \in retiring : In(e, S.registry)
                               => ~SuspendedOn(S.entries, e.task, "Host_readiness", e.id)
  PROVE  Reached(RetireMatching(S, retiring))
<1> DEFINE T == RetireMatching(S, retiring)
<1>1. S \in CallState /\ RegistryExact(S.registry, S.releases, next_id)
  BY DEF Reached
<1>2. /\ T \in CallState /\ T.entries = S.entries /\ T.awakened = S.awakened
  BY <1>1, RetireFields
<1>3. /\ RegistryExact(T.registry, T.releases, next_id)
      /\ \A e : In(e, T.registry) <=> In(e, S.registry) /\ e \notin retiring
  BY <1>1, RetireExact
<1> HIDE DEF T
<1>4. Covered(T.entries, T.registry)
  <2> SUFFICES ASSUME NEW t \in Task, NEW r \in Registration,
                      SuspendedOn(S.entries, t, "Host_readiness", r)
               PROVE  In([id |-> r, task |-> t], T.registry)
    BY <1>2 DEF Covered
  <2>1. In([id |-> r, task |-> t], S.registry)
    BY DEF Reached, Covered
  <2>2. [id |-> r, task |-> t] \notin retiring
    BY <2>1
  <2> QED
    BY <1>3, <2>1, <2>2
<1>5. closed => T.registry = <<>>
  <2> SUFFICES ASSUME closed, T.registry # <<>> PROVE FALSE
    OBVIOUS
  <2>1. T.registry \in Seq(Decision)
    BY <1>2 DEF CallState
  <2>2. 1 \in DOMAIN T.registry
    BY <2>1
  <2>3. In(T.registry[1], T.registry)
    BY <2>2 DEF In
  <2>4. In(T.registry[1], S.registry) /\ S.registry = <<>>
    BY <1>3, <2>3 DEF Reached
  <2> QED
    BY <2>4 DEF In
<1>6. Reached(T)
  BY <1>2, <1>3, <1>4, <1>5 DEF Reached
<1> QED
  BY <1>6 DEF T

LEMMA RegisteredIsDecision ==
  ASSUME NEW reg \in Seq(Decision), NEW e, In(e, reg)
  PROVE  e \in Decision /\ e.task \in Task /\ e.id \in Registration
<1>1. PICK i \in DOMAIN reg : reg[i] = e
  BY DEF In
<1>2. e \in Decision
  BY <1>1
<1> QED
  BY <1>2 DEF Decision

\* A suspended task has its token.
LEMMA SuspendedHasToken ==
  ASSUME NEW S, Reached(S), NEW t \in Task, S.entries[t].lifecycle = "Suspended"
  PROVE  S.entries[t].resume
BY DEF Reached, TableInv, OneOwner, InvalidOwnership

\* After reconcile every registration left is its task's to wake.
LEMMA ReconciledReached ==
  ASSUME next_id \in Nat, NEW S, Reached(S)
  PROVE  /\ Reached(Reconciled(S)) /\ AllOwned(Reconciled(S))
         /\ Reconciled(S).outcome = S.outcome
         /\ Reconciled(S).entries = S.entries
         /\ Reconciled(S).awakened = S.awakened
         /\ \A e : In(e, Reconciled(S).registry)
                     <=> In(e, S.registry) /\ StillOwned(S.entries, e)
<1> DEFINE lost == {e \in ToSet(S.registry) : ~StillOwned(S.entries, e)}
           T == RetireMatching(S, lost)
<1>1. S \in CallState /\ RegistryExact(S.registry, S.releases, next_id)
  BY DEF Reached
<1>2. \A e : e \in lost <=> In(e, S.registry) /\ ~StillOwned(S.entries, e)
  BY DEF ToSet, In
<1>3. \A e : In(e, S.registry) => e \in Decision /\ e.task \in Task
  BY <1>1, RegisteredIsDecision DEF CallState
<1>4. \A e \in lost : ~SuspendedOn(S.entries, e.task, "Host_readiness", e.id)
  BY <1>2, <1>3, SuspendedHasToken DEF StillOwned, SuspendedOn
<1> HIDE DEF lost
<1>5. Reached(T)
  BY <1>4, RetireReached
<1>6. T.entries = S.entries /\ T.awakened = S.awakened /\ T.outcome = S.outcome
  BY <1>1, RetireFields
<1>7. \A e : In(e, T.registry) <=> In(e, S.registry) /\ StillOwned(S.entries, e)
  BY <1>1, <1>2, RetireExact
<1>8. Reconciled(S) = T
  BY DEF Reconciled, lost
<1> QED
  BY <1>5, <1>6, <1>7, <1>8 DEF AllOwned

----------------------------------------------------------------------------
(* Waking the task of one registration.                                    *)

\* Making a suspended task runnable, its token still in its entry.
LEMMA WakeTable ==
  ASSUME NEW E, NEW t \in Task, TableInv(E, held, next_spawn, closed),
         E[t].lifecycle = "Suspended", E[t].suspension = "Host_readiness", E[t].resume
  PROVE  /\ TableInv(Wake(E, t), held, next_spawn, closed)
         /\ Wake(E, t) \in Table
         /\ Wake(E, t)[t].lifecycle = "Runnable"
         /\ \A u \in Task \ {t} : Wake(E, t)[u] = E[u]
<1> DEFINE e == [E[t] EXCEPT !.lifecycle = "Runnable", !.suspension = "None", !.on = Nothing]
<1>1. Wake(E, t) = [E EXCEPT ![t] = e]
  BY DEF Wake
<1>2. E \in Table /\ E[t] \in Entry /\ EntryAgrees(E[t])
  BY DEF TableInv, Consistent, Table
<1>3. /\ e \in Entry /\ e.lifecycle = "Runnable"
      /\ e.resume /\ e.waiters = E[t].waiters
  BY <1>2 DEF Entry, Lifecycle, Blocker
<1>4. EntryAgrees(e)
  BY <1>2 DEF Entry, EntryAgrees, Terminal
<1> HIDE DEF e
<1>5. ~closed /\ t \notin held /\ held \in SUBSET Task
  BY DEF TableInv, Drained, Live, OneOwner
<1>6. TableInv([E EXCEPT ![t] = e], held, next_spawn, closed)
  BY <1>2, <1>3, <1>4, <1>5, UpdateStep DEF Present, IsAwaiting, Terminal
<1>7. [E EXCEPT ![t] = e] \in Table
  BY <1>2, <1>3 DEF Table
<1> QED
  BY <1>1, <1>2, <1>3, <1>6, <1>7 DEF Table

\* Reporting one more task.
LEMMA ReportOneMore ==
  ASSUME NEW list \in Seq(Task), Distinct(list), NEW t \in Task, ~In(t, list)
  PROVE  /\ Append(list, t) \in Seq(Task)
         /\ Distinct(Append(list, t))
         /\ \A u : In(u, Append(list, t)) <=> In(u, list) \/ u = t
<1> DEFINE q == Append(list, t)
           m == Len(list)
<1>1. m \in Nat /\ DOMAIN list = 1..m
  OBVIOUS
<1>2. /\ q \in Seq(Task) /\ DOMAIN q = 1..(m + 1)
      /\ q[m + 1] = t /\ \A j \in 1..m : q[j] = list[j]
  BY <1>1
<1> HIDE DEF q, m
<1>3. \A j : j \in 1..(m + 1) <=> j \in 1..m \/ j = m + 1
  BY <1>1
<1>4. \A u : In(u, q) <=> In(u, list) \/ u = t
  BY <1>1, <1>2, <1>3 DEF In
<1>5. Distinct(q)
  BY <1>1, <1>2, <1>3 DEF Distinct, In
<1> QED
  BY <1>2, <1>4, <1>5 DEF q

\* A wake through the registry, from a state where the registry owns it.
LEMMA WokenReached ==
  ASSUME next_id \in Nat, NEW S, Reached(S), AllOwned(S), S.outcome = "Ok",
         NEW e, In(e, S.registry)
  PROVE  /\ Reached(Woken(S, e)) /\ AllOwned(Woken(S, e))
         /\ Woken(S, e).outcome = "Ok"
         /\ \A x : In(x, Woken(S, e).registry) <=> In(x, S.registry) /\ x # e
<1> DEFINE t == e.task
           R == RetireMatching(S, {e})
           E == S.entries
           F == Wake(E, t)
           list == Append(S.awakened, t)
           W == Woken(S, e)
<1>1. S \in CallState /\ RegistryExact(S.registry, S.releases, next_id)
  BY DEF Reached
<1>2. S.registry \in Seq(Decision) /\ S.awakened \in Seq(Task)
  BY <1>1 DEF CallState
<1>3. e \in Decision /\ t \in Task /\ e.id \in Registration
  BY <1>2, RegisteredIsDecision
<1>4. StillOwned(E, e)
  BY DEF AllOwned
<1>5. E[t].lifecycle = "Suspended" /\ E[t].suspension = "Host_readiness"
      /\ E[t].on = e.id /\ E[t].resume
  BY <1>4 DEF StillOwned, SuspendedOn
<1>6. /\ R \in CallState /\ R.entries = E /\ R.awakened = S.awakened /\ R.outcome = "Ok"
  BY <1>1, RetireFields
<1>7. /\ RegistryExact(R.registry, R.releases, next_id)
      /\ \A x : In(x, R.registry) <=> In(x, S.registry) /\ x # e
  BY <1>1, RetireExact
<1>8. W = [R EXCEPT !.entries = F, !.awakened = list]
  BY <1>4, <1>6 DEF Woken
<1>9. /\ TableInv(F, held, next_spawn, closed) /\ F \in Table
      /\ F[t].lifecycle = "Runnable" /\ \A u \in Task \ {t} : F[u] = E[u]
  <2>1. TableInv(E, held, next_spawn, closed)
    BY DEF Reached
  <2> HIDE DEF E, t
  <2> QED
    BY <1>3, <1>5, <2>1, WakeTable
<1>10. Reports(S.awakened, entries, E)
       /\ \A u \in Task :
            /\ E[u].lifecycle = "Suspended" => entries[u].lifecycle = "Suspended"
            /\ IsAwaiting(E[u]) => IsAwaiting(entries[u]) /\ E[u].on = entries[u].on
  BY DEF Reached
<1>11. ~In(t, S.awakened)
  BY <1>3, <1>5, <1>10 DEF Reports
<1>12. /\ list \in Seq(Task) /\ Distinct(list)
       /\ \A u : In(u, list) <=> In(u, S.awakened) \/ u = t
  BY <1>2, <1>3, <1>10, <1>11, ReportOneMore DEF Reports
<1>13. \A x : In(x, S.registry) /\ x # e => x.task # t
  <2> SUFFICES ASSUME NEW x, In(x, S.registry), x.task = t PROVE x = e
    OBVIOUS
  <2>1. x \in Decision /\ SuspendedOn(E, t, "Host_readiness", x.id)
    BY <1>2, RegisteredIsDecision DEF AllOwned, StillOwned
  <2>2. x.id = e.id /\ x.task = e.task
    BY <1>5, <2>1 DEF SuspendedOn
  <2> QED
    BY <1>3, <2>1, <2>2 DEF Decision
<1> HIDE DEF R, F, list, W
<1>14. W \in CallState /\ W.entries = F /\ W.awakened = list /\ W.outcome = "Ok"
       /\ W.registry = R.registry /\ W.releases = R.releases
  BY <1>6, <1>8, <1>9, <1>12 DEF CallState
<1>15. Reports(list, entries, F)
  BY <1>3, <1>5, <1>9, <1>10, <1>12 DEF Reports
<1>16. Covered(F, R.registry)
  <2> SUFFICES ASSUME NEW u \in Task, NEW r \in Registration,
                      SuspendedOn(F, u, "Host_readiness", r)
               PROVE  In([id |-> r, task |-> u], R.registry)
    BY DEF Covered
  <2>1. u # t /\ F[u] = E[u]
    BY <1>9 DEF SuspendedOn
  <2>2. In([id |-> r, task |-> u], S.registry)
    BY <2>1 DEF Reached, Covered, SuspendedOn
  <2> QED
    BY <1>7, <2>1, <2>2
<1>17. closed => R.registry = <<>>
  <2>1. ~closed
    BY DEF Reached, In
  <2> QED
    BY <2>1
<1>18. \A u \in Task :
         /\ F[u].lifecycle = "Suspended" => entries[u].lifecycle = "Suspended"
         /\ IsAwaiting(F[u]) => IsAwaiting(entries[u]) /\ F[u].on = entries[u].on
  BY <1>9, <1>10 DEF IsAwaiting
<1>19. Reached(W)
  BY <1>7, <1>9, <1>14, <1>15, <1>16, <1>17, <1>18 DEF Reached
<1>20. AllOwned(W)
  <2> SUFFICES ASSUME NEW x, In(x, R.registry) PROVE StillOwned(F, x)
    BY <1>14 DEF AllOwned
  <2>1. In(x, S.registry) /\ x # e
    BY <1>7
  <2>2. x.task # t /\ x.task \in Task
    BY <1>2, <1>13, <2>1, RegisteredIsDecision
  <2>3. F[x.task] = E[x.task]
    BY <1>9, <2>2
  <2>4. StillOwned(E, x)
    BY <2>1 DEF AllOwned
  <2> QED
    BY <2>3, <2>4 DEF StillOwned, SuspendedOn
<1> QED
  BY <1>7, <1>14, <1>19, <1>20 DEF W

----------------------------------------------------------------------------
(* The chain of states a poll or a replay goes through.                    *)

LEMMA WokenTyped ==
  ASSUME NEW S \in CallState, NEW e \in Decision
  PROVE  Woken(S, e) \in CallState
<1> DEFINE R == RetireMatching(S, {e})
           F == Wake(S.entries, e.task)
           list == Append(S.awakened, e.task)
<1>1. R \in CallState /\ R.entries = S.entries /\ R.awakened = S.awakened
  BY RetireFields
<1>2. e.task \in Task
  BY DEF Decision
<1>3. list \in Seq(Task)
  BY <1>2 DEF CallState
<1>4. F \in Table
  <2> DEFINE E == S.entries
             t == e.task
             x == [E[t] EXCEPT !.lifecycle = "Runnable", !.suspension = "None", !.on = Nothing]
  <2>1. E \in Table /\ t \in Task
    BY <1>2 DEF CallState
  <2> HIDE DEF E, t
  <2>2. E[t] \in Entry
    BY <2>1 DEF Table
  <2>3. x \in Entry
    BY <2>2 DEF Entry, Lifecycle, Blocker
  <2>4. Wake(E, t) = [E EXCEPT ![t] = x]
    BY DEF Wake
  <2> HIDE DEF x
  <2>5. Wake(E, t) \in Table
    BY <2>1, <2>3, <2>4 DEF Table
  <2> QED
    BY <2>5 DEF E, t
<1>5. CASE S.outcome # "Ok" \/ ~StillOwned(S.entries, e)
  <2>1. [S EXCEPT !.outcome = "Not_suspended"] \in CallState
    BY DEF CallState, Outcome
  <2> QED
    BY <1>5, <2>1 DEF Woken
<1>6. CASE S.outcome = "Ok" /\ StillOwned(S.entries, e)
  <2>1. Woken(S, e) = [R EXCEPT !.entries = F, !.awakened = list]
    BY <1>1, <1>6 DEF Woken
  <2> HIDE DEF R, F, list
  <2> QED
    BY <1>1, <1>3, <1>4, <2>1 DEF CallState
<1> QED
  BY <1>5, <1>6

\* find_exact finds the registration of a decision, if it is there.
LEMMA FoundExactly ==
  ASSUME NEW S \in CallState, NEW d
  PROVE  /\ FindExact(S, d) = <<>> <=> ~In(d, S.registry)
         /\ In(d, S.registry) => FindExact(S, d)[1] = d
<1> DEFINE found == FindExact(S, d)
<1>1. /\ found \in Seq(Decision)
      /\ \A x : In(x, found) <=> In(x, S.registry) /\ x \in {d}
  BY FilteredIs DEF FindExact, CallState
<1> HIDE DEF found
<1>2. found # <<>> => 1 \in DOMAIN found
  BY <1>1
<1>3. found # <<>> => In(found[1], found)
  BY <1>2 DEF In
<1>4. found # <<>> => found[1] = d /\ In(d, S.registry)
  BY <1>1, <1>3
<1>5. In(d, S.registry) => found # <<>>
  BY <1>1 DEF In
<1> QED
  BY <1>4, <1>5 DEF found

LEMMA ConsumeIs ==
  ASSUME NEW S \in CallState, NEW d
  PROVE  /\ Consume(S, d) \in CallState
         /\ S.outcome # "Ok" => Consume(S, d) = S
         /\ S.outcome = "Ok" /\ ~In(d, S.registry)
              => Consume(S, d) = [S EXCEPT !.outcome = "Stale"]
         /\ S.outcome = "Ok" /\ In(d, S.registry) => Consume(S, d) = Woken(S, d)
<1> DEFINE found == FindExact(S, d)
<1>1. /\ found = <<>> <=> ~In(d, S.registry)
      /\ In(d, S.registry) => found[1] = d
  BY FoundExactly
<1>2. Consume(S, d) = IF S.outcome # "Ok" THEN S
                      ELSE IF found = <<>> THEN [S EXCEPT !.outcome = "Stale"]
                      ELSE Woken(S, found[1])
  BY DEF Consume
<1> HIDE DEF found
<1>3. /\ S.outcome # "Ok" => Consume(S, d) = S
      /\ S.outcome = "Ok" /\ ~In(d, S.registry)
              => Consume(S, d) = [S EXCEPT !.outcome = "Stale"]
      /\ S.outcome = "Ok" /\ In(d, S.registry) => Consume(S, d) = Woken(S, d)
  BY <1>1, <1>2
<1>4. In(d, S.registry) => d \in Decision
  BY RegisteredIsDecision DEF CallState
<1>5. [S EXCEPT !.outcome = "Stale"] \in CallState
  BY DEF CallState, Outcome
<1> QED
  BY <1>3, <1>4, <1>5, WokenTyped

\* A poll wakes the ready registrations one after the other.
LEMMA PollChain ==
  ASSUME NEW S, Reconciled(S) \in CallState, NEW readable
  PROVE  \E after :
           /\ after[0] = Reconciled(S)
           /\ \A i \in 1..Len(Ready(S, readable)) :
                after[i] = Woken(after[i - 1], Ready(S, readable)[i])
           /\ Polled(S, readable) = after[Len(Ready(S, readable))]
<1> DEFINE ready == Ready(S, readable)
           n == Len(ready)
           base == Reconciled(S)
           Equation(h) == h = [i \in 0..n |-> IF i = 0 THEN base ELSE Woken(h[i - 1], ready[i])]
           chain == CHOOSE h : Equation(h)
           step == [i \in 1..n |-> [T \in CallState |-> Woken(T, ready[i])]]
<1>1. n \in Nat /\ \A i \in 1..n : ready[i] \in Decision
  <2>1. base.registry \in Seq(Decision)
    BY DEF CallState
  <2>2. ready \in Seq(Decision)
    BY <2>1, FilteredIs DEF Ready
  <2> HIDE DEF ready
  <2> QED
    BY <2>2
<1>2. Polled(S, readable) = chain[n]
  BY DEF Polled
<1>3. \A i \in 1..n, T \in CallState : Woken(T, ready[i]) \in CallState
  BY <1>1, WokenTyped
<1> HIDE DEF n, ready, base
<1>4. PICK f \in [0..n -> CallState] : Equation(f)
  <2>1. step \in [1..n -> [CallState -> CallState]]
    BY <1>3
  <2>2. \A i \in 1..n, T \in CallState : step[i][T] = Woken(T, ready[i])
    OBVIOUS
  <2>3. base \in CallState
    BY DEF base
  <2> HIDE DEF step
  <2>4. PICK f \in [0..n -> CallState] : Computes(f, n, base, step)
    BY <1>1, <2>1, <2>3, Computation
  <2>5. f[0] = base /\ \A i \in 1..n : f[i] = step[i][f[i - 1]]
    BY <2>4 DEF Computes
  <2>6. ASSUME NEW i \in 0..n, i # 0 PROVE f[i] = Woken(f[i - 1], ready[i])
    <3>1. i \in 1..n /\ i - 1 \in 0..n
      BY <1>1, <2>6
    <3> QED
      BY <2>2, <2>5, <3>1
  <2>7. Equation(f)
    BY <2>5, <2>6
  <2> HIDE DEF Equation
  <2> QED
    BY <2>7
<1>5. Equation(chain)
  BY <1>4
<1> HIDE DEF chain
<1>6. chain = [i \in 0..n |-> IF i = 0 THEN base ELSE Woken(chain[i - 1], ready[i])]
  BY <1>5
<1>7. chain[0] = base /\ \A i \in 1..n : chain[i] = Woken(chain[i - 1], ready[i])
  <2>1. 0 \in 0..n /\ \A i \in 1..n : i \in 0..n /\ i # 0
    BY <1>1
  <2> QED
    BY <1>6, <2>1
<1> QED
  BY <1>2, <1>7 DEF base, ready, n

\* A replay consumes its decisions one after the other.
LEMMA ReplayChain ==
  ASSUME NEW S, Reconciled(S) \in CallState, NEW decisions, Len(decisions) \in Nat
  PROVE  \E after :
           /\ after[0] = Reconciled(S)
           /\ \A i \in 1..Len(decisions) :
                after[i] = Consume(after[i - 1], decisions[i])
           /\ Replayed(S, decisions) = after[Len(decisions)]
<1> DEFINE n == Len(decisions)
           base == Reconciled(S)
           Equation(h) == h = [i \in 0..n |-> IF i = 0 THEN base ELSE Consume(h[i - 1], decisions[i])]
           chain == CHOOSE h : Equation(h)
           step == [i \in 1..n |-> [T \in CallState |-> Consume(T, decisions[i])]]
<1>1. n \in Nat
  OBVIOUS
<1>2. Replayed(S, decisions) = chain[n]
  BY DEF Replayed
<1>3. \A i \in 1..n, T \in CallState : Consume(T, decisions[i]) \in CallState
  BY ConsumeIs
<1> HIDE DEF n, base
<1>4. PICK f \in [0..n -> CallState] : Equation(f)
  <2>1. step \in [1..n -> [CallState -> CallState]]
    BY <1>3
  <2>2. \A i \in 1..n, T \in CallState : step[i][T] = Consume(T, decisions[i])
    OBVIOUS
  <2>3. base \in CallState
    BY DEF base
  <2> HIDE DEF step
  <2>4. PICK f \in [0..n -> CallState] : Computes(f, n, base, step)
    BY <1>1, <2>1, <2>3, Computation
  <2>5. f[0] = base /\ \A i \in 1..n : f[i] = step[i][f[i - 1]]
    BY <2>4 DEF Computes
  <2>6. ASSUME NEW i \in 0..n, i # 0 PROVE f[i] = Consume(f[i - 1], decisions[i])
    <3>1. i \in 1..n /\ i - 1 \in 0..n
      BY <1>1, <2>6
    <3> QED
      BY <2>2, <2>5, <3>1
  <2>7. Equation(f)
    BY <2>5, <2>6
  <2> HIDE DEF Equation
  <2> QED
    BY <2>7
<1>5. Equation(chain)
  BY <1>4
<1> HIDE DEF chain
<1>6. chain = [i \in 0..n |-> IF i = 0 THEN base ELSE Consume(chain[i - 1], decisions[i])]
  BY <1>5
<1>7. chain[0] = base /\ \A i \in 1..n : chain[i] = Consume(chain[i - 1], decisions[i])
  <2>1. 0 \in 0..n /\ \A i \in 1..n : i \in 0..n /\ i # 0
    BY <1>1
  <2> QED
    BY <1>6, <2>1
<1> QED
  BY <1>2, <1>7 DEF base, n

----------------------------------------------------------------------------
(* What polls and replays reach.                                           *)

\* Only the outcome of a call changes.
LEMMA OutcomeOnly ==
  ASSUME NEW S, Reached(S), NEW o \in Outcome
  PROVE  /\ Reached([S EXCEPT !.outcome = o])
         /\ AllOwned(S) => AllOwned([S EXCEPT !.outcome = o])
         /\ [S EXCEPT !.outcome = o].outcome = o
         /\ [S EXCEPT !.outcome = o].entries = S.entries
         /\ [S EXCEPT !.outcome = o].registry = S.registry
         /\ [S EXCEPT !.outcome = o].awakened = S.awakened
<1> DEFINE T == [S EXCEPT !.outcome = o]
<1>1. S \in CallState
  BY DEF Reached
<1>2. /\ T \in CallState /\ T.outcome = o /\ T.entries = S.entries
      /\ T.registry = S.registry /\ T.releases = S.releases /\ T.awakened = S.awakened
  BY <1>1 DEF CallState
<1> HIDE DEF T
<1>3. Reached(T)
  BY <1>2 DEF Reached
<1>4. AllOwned(S) => AllOwned(T)
  BY <1>2 DEF AllOwned
<1> QED
  BY <1>2, <1>3, <1>4 DEF T

\* Where a poll of the list `ready' is after i of its wakes.
PolledSoFar(S, ready, i) ==
  /\ Reached(S) /\ AllOwned(S) /\ S.outcome = "Ok"
  /\ \A j \in 1..Len(ready) : In(ready[j], S.registry) <=> i < j

\* The poll takes each ready registration in turn, always one that is still
\* its task's to wake.
LEMMA PollFollows ==
  ASSUME next_id \in Nat, NEW S, Reached(S), S.outcome = "Ok", NEW readable
  PROVE  \E after :
           /\ after[0] = Reconciled(S)
           /\ \A i \in 1..Len(Ready(S, readable)) :
                after[i] = Woken(after[i - 1], Ready(S, readable)[i])
           /\ Polled(S, readable) = after[Len(Ready(S, readable))]
           /\ \A i \in 0..Len(Ready(S, readable)) :
                PolledSoFar(after[i], Ready(S, readable), i)
<1> DEFINE ready == Ready(S, readable)
           n == Len(ready)
           B == Reconciled(S)
<1>1. Reached(B) /\ AllOwned(B) /\ B.outcome = "Ok"
  BY ReconciledReached
<1>2. B \in CallState /\ B.registry \in Seq(Decision)
      /\ RegistryExact(B.registry, B.releases, next_id)
  BY <1>1 DEF Reached, CallState
<1>3. Distinct(B.registry)
  <2> DEFINE reg == B.registry
  <2>1. reg \in Seq(Decision) /\ \A i, j \in DOMAIN reg : i < j => reg[i].id < reg[j].id
    BY <1>2 DEF RegistryExact
  <2> HIDE DEF reg
  <2>2. \A i \in DOMAIN reg : reg[i].id \in Nat
    <3>1. \A i \in DOMAIN reg : reg[i] \in Decision
      BY <2>1
    <3>2. \A e \in Decision : e.id \in Nat
      BY RegistrationAssumption DEF Decision
    <3> QED
      BY <3>1, <3>2
  <2>3. \A i, j \in DOMAIN reg : i < j \/ j < i \/ i = j
    <3>1. DOMAIN reg = 1..Len(reg) /\ Len(reg) \in Nat
      BY <2>1
    <3> QED
      BY <3>1
  <2>4. Distinct(reg)
    <3> SUFFICES ASSUME NEW i \in DOMAIN reg, NEW j \in DOMAIN reg, reg[i] = reg[j], i # j
                 PROVE  FALSE
      BY DEF Distinct
    <3>1. reg[i].id < reg[j].id \/ reg[j].id < reg[i].id
      BY <2>1, <2>3
    <3> QED
      BY <2>2, <3>1
  <2> QED
    BY <2>4 DEF reg
<1>4. /\ ready \in Seq(Decision) /\ Distinct(ready)
      /\ \A x : In(x, ready) => In(x, B.registry)
  BY <1>2, <1>3, FilteredIs, FilteredDistinct DEF Ready
<1>5. PICK after :
        /\ after[0] = B
        /\ \A i \in 1..n : after[i] = Woken(after[i - 1], ready[i])
        /\ Polled(S, readable) = after[n]
  BY <1>2, PollChain
<1> HIDE DEF ready, B
<1>6. n \in Nat /\ DOMAIN ready = 1..n
  BY <1>4
<1> HIDE DEF n
<1> DEFINE G == {i \in 0..n : PolledSoFar(after[i], ready, i)}
<1>7. 0 \in G
  <2>1. \A j \in 1..n : In(ready[j], B.registry) /\ 0 < j
    <3>1. \A j \in 1..n : In(ready[j], ready)
      BY <1>6 DEF In
    <3>2. \A j \in 1..n : 0 < j
      BY <1>6
    <3> QED
      BY <1>4, <3>1, <3>2
  <2>2. PolledSoFar(B, ready, 0)
    BY <1>1, <2>1 DEF PolledSoFar, n
  <2> QED
    BY <1>5, <1>6, <2>2
<1>8. ASSUME NEW i \in 0..n, i < n, i \in G PROVE i + 1 \in G
  <2> DEFINE k == i + 1
             T == after[i]
             W == Woken(T, ready[k])
  <2>1. k \in 1..n /\ k \in 0..n /\ k - 1 = i /\ i < k
        /\ \A j \in 1..n : k < j <=> i < j /\ j # k
    BY <1>6, <1>8
  <2> HIDE DEF k
  <2>2. after[k] = W
    <3>1. after[k] = Woken(after[k - 1], ready[k])
      BY <1>5, <2>1
    <3> QED
      BY <2>1, <3>1
  <2>3. /\ Reached(T) /\ AllOwned(T) /\ T.outcome = "Ok"
        /\ \A j \in 1..n : In(ready[j], T.registry) <=> i < j
    BY <1>8 DEF PolledSoFar, n
  <2>4. In(ready[k], T.registry)
    BY <2>1, <2>3
  <2> HIDE DEF T
  <2>5. /\ Reached(W) /\ AllOwned(W) /\ W.outcome = "Ok"
        /\ \A x : In(x, W.registry) <=> In(x, T.registry) /\ x # ready[k]
    BY <2>3, <2>4, WokenReached
  <2> HIDE DEF W
  <2>6. \A j \in 1..n : ready[j] = ready[k] <=> j = k
    BY <1>4, <1>6, <2>1 DEF Distinct
  <2>7. \A j \in 1..n : In(ready[j], W.registry) <=> k < j
    BY <2>1, <2>3, <2>5, <2>6
  <2>8. PolledSoFar(W, ready, k)
    BY <2>5, <2>7 DEF PolledSoFar, n
  <2>9. k \in G
    BY <2>1, <2>2, <2>8
  <2> QED
    BY <2>9 DEF k
<1> HIDE DEF G
<1>9. \A i \in 0..n : i \in G
  BY <1>6, <1>7, <1>8, StepByStep
<1>10. \A i \in 0..n : PolledSoFar(after[i], ready, i)
  BY <1>9 DEF G
<1> QED
  BY <1>5, <1>10 DEF n, ready, B

LEMMA PollReached ==
  ASSUME next_id \in Nat, NEW S, Reached(S), S.outcome = "Ok", NEW readable
  PROVE  /\ Reached(Polled(S, readable)) /\ Polled(S, readable).outcome = "Ok"
         /\ \A d \in ToSet(Ready(S, readable)) : ~In(d, Polled(S, readable).registry)
<1> DEFINE ready == Ready(S, readable)
           n == Len(ready)
<1>1. PICK after :
        /\ Polled(S, readable) = after[n]
        /\ \A i \in 0..n : PolledSoFar(after[i], ready, i)
  BY PollFollows
<1>2. ready \in Seq(Decision)
  <2>1. Reconciled(S) \in CallState
    BY ReconciledReached DEF Reached
  <2> QED
    BY <2>1, FilteredIs DEF Ready, CallState
<1> HIDE DEF ready
<1>3. n \in Nat /\ DOMAIN ready = 1..n
  BY <1>2
<1>4. PolledSoFar(after[n], ready, n)
  BY <1>1, <1>3
<1>5. \A d \in ToSet(ready) : \E j \in 1..n : ready[j] = d /\ ~(n < j)
  BY <1>3 DEF ToSet
<1> QED
  BY <1>1, <1>4, <1>5 DEF PolledSoFar, ready

\* Consuming a decision, stale or not.
LEMMA ConsumeReached ==
  ASSUME next_id \in Nat, NEW S, Reached(S), AllOwned(S), S.outcome \in {"Ok", "Stale"}, NEW d
  PROVE  /\ Reached(Consume(S, d)) /\ AllOwned(Consume(S, d))
         /\ Consume(S, d).outcome \in {"Ok", "Stale"}
<1>1. S \in CallState
  BY DEF Reached
<1>2. CASE S.outcome = "Stale"
  <2>1. Consume(S, d) = S
    BY <1>1, <1>2, ConsumeIs
  <2> QED
    BY <2>1
<1>3. CASE S.outcome = "Ok" /\ ~In(d, S.registry)
  <2>1. Consume(S, d) = [S EXCEPT !.outcome = "Stale"] /\ "Stale" \in Outcome
    BY <1>1, <1>3, ConsumeIs DEF Outcome
  <2> QED
    BY <2>1, OutcomeOnly
<1>4. CASE S.outcome = "Ok" /\ In(d, S.registry)
  <2>1. Consume(S, d) = Woken(S, d)
    BY <1>1, <1>4, ConsumeIs
  <2> QED
    BY <1>4, <2>1, WokenReached
<1> QED
  BY <1>2, <1>3, <1>4

LEMMA ReplayReached ==
  ASSUME next_id \in Nat, NEW S, Reached(S), S.outcome = "Ok",
         NEW decisions, Len(decisions) \in Nat
  PROVE  /\ Reached(Replayed(S, decisions))
         /\ Replayed(S, decisions).outcome \in {"Ok", "Stale"}
<1> DEFINE n == Len(decisions)
           B == Reconciled(S)
           Fine(T) == Reached(T) /\ AllOwned(T) /\ T.outcome \in {"Ok", "Stale"}
<1>1. Fine(B) /\ B \in CallState
  BY ReconciledReached DEF Reached
<1>2. PICK after :
        /\ after[0] = B
        /\ \A i \in 1..n : after[i] = Consume(after[i - 1], decisions[i])
        /\ Replayed(S, decisions) = after[n]
  BY <1>1, ReplayChain
<1>3. \A T, d : Fine(T) => Fine(Consume(T, d))
  BY ConsumeReached
<1>4. n \in Nat
  OBVIOUS
<1> HIDE DEF n, B, Fine
<1> DEFINE G == {i \in 0..n : Fine(after[i])}
<1>5. 0 \in G
  BY <1>1, <1>2, <1>4
<1>6. ASSUME NEW i \in 0..n, i < n, i \in G PROVE i + 1 \in G
  <2> DEFINE k == i + 1
  <2>1. k \in 1..n /\ k \in 0..n /\ k - 1 = i
    BY <1>4, <1>6
  <2>2. Fine(after[i])
    BY <1>6
  <2> HIDE DEF k
  <2>3. after[k] = Consume(after[i], decisions[k])
    BY <1>2, <2>1
  <2>4. Fine(after[k])
    BY <1>3, <2>2, <2>3
  <2>5. k \in G
    BY <2>1, <2>4
  <2> QED
    BY <2>5 DEF k
<1> HIDE DEF G
<1>7. \A i \in 0..n : i \in G
  BY <1>4, <1>5, <1>6, StepByStep
<1>8. Fine(after[n])
  BY <1>4, <1>7 DEF G
<1> QED
  BY <1>2, <1>8 DEF Fine

----------------------------------------------------------------------------
(* The scheduler under the registry.                                       *)

\* No settling makes a task wait for readiness.
LEMMA SettleSuspends ==
  ASSUME NEW E, NEW M, Consistent(E), Settlable(E, M), NEW r \in Result,
         NEW u \in Task, NEW reason, NEW blocker,
         SuspendedOn(Settle(E, M, r), u, reason, blocker)
  PROVE  SuspendedOn(E, u, reason, blocker) /\ u \notin M
<1> DEFINE F == Settle(E, M, r)
           Wakes == \E m \in M : SuspendedOn(E, u, "Awaiting", m)
<1>1. F[u] = IF u \in M THEN SettledEntry(E[u], r)
             ELSE IF Wakes THEN WokenEntry(E[u], M) ELSE KeptEntry(E[u], M)
  BY SettleShape
<1>2. E[u] \in Entry /\ EntryAgrees(E[u]) /\ Without(E[u].waiters, M) \in Seq(Task)
  BY RemoveWaiterShape DEF Consistent
<1>3. Wakes => E[u].lifecycle = "Suspended"
  BY DEF SuspendedOn
<1>4. F[u].lifecycle = "Suspended" /\ F[u].suspension = reason /\ F[u].on = blocker
  BY DEF SuspendedOn
<1> HIDE DEF F, Wakes
<1>5. CASE u \in M
  BY <1>1, <1>2, <1>4, <1>5, SettledEntryAgrees DEF Terminal
<1>6. CASE u \notin M /\ Wakes
  BY <1>1, <1>2, <1>3, <1>4, <1>6, WokenEntryAgrees
<1>7. CASE u \notin M /\ ~Wakes
  BY <1>1, <1>2, <1>4, <1>7, KeptEntryAgrees DEF SuspendedOn
<1> QED
  BY <1>5, <1>6, <1>7

\* No step of the scheduler alone makes a task wait for readiness.
NoNewReadiness(E, F) ==
  \A t \in Task, r \in Registration :
    SuspendedOn(F, t, "Host_readiness", r) => SuspendedOn(E, t, "Host_readiness", r)

LEMMA OneEntryReadiness ==
  ASSUME NEW E \in Table, NEW t \in Task, NEW e,
         e.lifecycle = "Suspended"
           => /\ E[t].lifecycle = "Suspended" /\ e.suspension = E[t].suspension
              /\ e.on = E[t].on
  PROVE  NoNewReadiness(E, [E EXCEPT ![t] = e])
<1> DEFINE F == [E EXCEPT ![t] = e]
<1>1. F[t] = e /\ \A u \in Task \ {t} : F[u] = E[u]
  BY DEF Table
<1> HIDE DEF F
<1>2. NoNewReadiness(E, F)
  BY <1>1 DEF NoNewReadiness, SuspendedOn
<1> QED
  BY <1>2 DEF F

LEMMA SettleReadiness ==
  ASSUME NEW E, NEW M, Consistent(E), Settlable(E, M), NEW r \in Result
  PROVE  NoNewReadiness(E, Settle(E, M, r))
BY SettleSuspends DEF NoNewReadiness

LEMMA AwaitReadiness ==
  ASSUME IInv, NoWaitCycle, NEW w \in Task, NEW t \in Task, AwaitLive(w, t)
  PROVE  NoNewReadiness(entries, entries')
<1> DEFINE R == RegisterWaiter(entries, w, t)
           c == AwaitCycle(entries, w, t)
           x == [entries[w] EXCEPT !.lifecycle = "Suspended", !.suspension = "Awaiting",
                                   !.on = t, !.resume = TRUE]
           F == Suspend(entries, w, "Awaiting", t)
<1>1. Consistent(entries) /\ entries \in Table /\ CheckedOut(entries, w) /\ Live(entries, t)
  BY IInvIsTableInv DEF TableInv, Consistent, AwaitLive
<1>2. Consistent(R)
  BY <1>1, RegisterConsistent
<1>3. NoNewReadiness(entries, R)
  <2>1. \A u \in Task : entries[u] \in Entry
    BY <1>1 DEF Table
  <2>2. F = [entries EXCEPT ![w] = x]
    BY DEF Suspend
  <2>9. x \in Entry /\ x.suspension = "Awaiting"
    BY <2>1 DEF Entry, Lifecycle, Suspension, Blocker
  <2> HIDE DEF x
  <2>3. F[w].suspension = "Awaiting" /\ \A u \in Task \ {w} : F[u] = entries[u]
    BY <1>1, <2>2, <2>9 DEF Table
  <2>4. R = [F EXCEPT ![t].waiters = Append(@, w)]
    BY DEF RegisterWaiter
  <2>5. \A u \in Task : F[u] \in Entry
    BY <1>1, <2>1, <2>2, <2>9 DEF Table
  <2>6. DOMAIN F = Task
    BY <1>1, <2>2 DEF Table
  <2> HIDE DEF F, R
  <2>7. \A u \in Task : /\ R[u].lifecycle = F[u].lifecycle
                        /\ R[u].suspension = F[u].suspension
                        /\ R[u].on = F[u].on
    BY <2>4, <2>5, <2>6 DEF Entry
  <2>8. \A u \in Task, r \in Registration :
          SuspendedOn(R, u, "Host_readiness", r) => u # w
    BY <2>3, <2>7 DEF SuspendedOn
  <2> QED
    BY <2>3, <2>7, <2>8 DEF NoNewReadiness, SuspendedOn
<1>4. CASE c = <<>>
  <2>1. entries' = R
    BY <1>4 DEF AwaitLive
  <2> QED
    BY <1>3, <2>1
<1>5. CASE c # <<>>
  <2>1. entries' = Settle(R, ToSet(c), "Failed") /\ "Failed" \in Result
    BY <1>5 DEF AwaitLive, FailCycle, Result
  <2>2. c \in Seq(Task) /\ IsWaitCycle(WaitEdges(R), c)
    BY <1>1, <1>5, NewCycleHasWaiter
  <2> HIDE DEF R, c
  <2>3. NoNewReadiness(R, entries')
    BY <1>2, <2>1, <2>2, CycleSettlable, SettleReadiness
  <2> QED
    BY <1>3, <2>3 DEF NoNewReadiness
<1> QED
  BY <1>4, <1>5

LEMMA SchedulerReadiness ==
  ASSUME IInv, NoWaitCycle, SchedulerStep
  PROVE  NoNewReadiness(entries, entries')
<1> DEFINE Goal == NoNewReadiness(entries, entries')
<1>1. Consistent(entries) /\ entries \in Table
  BY IInvIsTableInv DEF TableInv, Consistent
<1>2. \A t \in Task : entries[t] \in Entry
  BY <1>1 DEF Table
<1>3. ASSUME Spawn PROVE Goal
  <2>1. next_spawn \in Task
    BY <1>3, IInvIsTableInv, MaxTasksAssumption DEF Spawn, Task
  <2>2. SpawnedEntry.lifecycle # "Suspended"
    BY DEF SpawnedEntry, AbsentEntry
  <2> QED
    BY <1>1, <1>3, <2>1, <2>2, OneEntryReadiness DEF Spawn
<1>4. ASSUME NEW t \in Task, NEW b \in BOOLEAN,
             entries' = [entries EXCEPT ![t] = [@ EXCEPT !.resume = b]]
      PROVE  Goal
  <2> DEFINE e == [entries[t] EXCEPT !.resume = b]
  <2>1. /\ e.lifecycle = entries[t].lifecycle /\ e.suspension = entries[t].suspension
        /\ e.on = entries[t].on
    BY <1>2 DEF Entry
  <2>2. entries' = [entries EXCEPT ![t] = e]
    BY <1>4
  <2> HIDE DEF e
  <2> QED
    BY <1>1, <2>1, <2>2, OneEntryReadiness
<1>5. entries' = entries => Goal
  BY DEF NoNewReadiness
<1>6. ASSUME NEW t \in Task, NEW r \in Result, Live(entries, t),
             entries' = Terminalize(entries, t, r)
      PROVE  Goal
  BY <1>1, <1>6, OneTaskSettlable, SettleReadiness DEF Terminalize
<1>7. ASSUME NEW t \in Task, RequestCancel(t) PROVE Goal
  <2> DEFINE e == [entries[t] EXCEPT !.cancellation_requested = TRUE]
  <2>1. /\ e.lifecycle = entries[t].lifecycle /\ e.suspension = entries[t].suspension
        /\ e.on = entries[t].on
    BY <1>2 DEF Entry
  <2>2. entries' = [entries EXCEPT ![t] = e]
    BY <1>7 DEF RequestCancel
  <2> HIDE DEF e
  <2> QED
    BY <1>1, <2>1, <2>2, OneEntryReadiness
<1> HIDE DEF Goal
<1>8. ASSUME NEW t \in Task, Checkout(t) PROVE Goal
  <2>1. entries' = [entries EXCEPT ![t] = [@ EXCEPT !.resume = FALSE]] /\ FALSE \in BOOLEAN
    BY <1>8 DEF Checkout
  <2> QED
    BY <1>4, <2>1
<1>13. ASSUME NEW t \in Task, RestoreCheckout(t) PROVE Goal
  <2>1. CASE CheckedOut(entries, t)
    <3>1. entries' = [entries EXCEPT ![t] = [@ EXCEPT !.resume = TRUE]] /\ TRUE \in BOOLEAN
      BY <1>13, <2>1 DEF RestoreCheckout
    <3> QED
      BY <1>4, <3>1
  <2>2. CASE ~CheckedOut(entries, t)
    BY <1>5, <1>13, <2>2 DEF RestoreCheckout
  <2> QED
    BY <2>1, <2>2
<1>14. "Done" \in Result /\ "Cancelled" \in Result
  BY DEF Result
<1>15. \A t \in Task : CheckedOut(entries, t) => Live(entries, t)
  BY DEF CheckedOut, Live
<1>9. ASSUME NEW t \in Task, Finish(t, "Done") PROVE Goal
  BY <1>6, <1>9, <1>14, <1>15 DEF Finish
<1>16. ASSUME NEW t \in Task, DeliverCancel(t) PROVE Goal
  BY <1>6, <1>14, <1>16 DEF DeliverCancel
<1>17. ASSUME NEW t \in Task, CancellationBoundary(t) PROVE Goal
  <2>1. CASE CheckedOut(entries, t) /\ entries' = Terminalize(entries, t, "Cancelled")
    BY <1>6, <1>14, <1>15, <2>1
  <2>2. CASE entries' = entries
    BY <1>5, <2>2
  <2> QED
    BY <1>17, <2>1, <2>2 DEF CancellationBoundary
<1>10. ASSUME NEW w \in Task, NEW t \in Task, AwaitReady(w, t) PROVE Goal
  <2>1. entries' = [entries EXCEPT ![w] = [@ EXCEPT !.resume = TRUE]] /\ TRUE \in BOOLEAN
    BY <1>10 DEF AwaitReady
  <2> QED
    BY <1>4, <2>1
<1>11. ASSUME NEW w \in Task, NEW t \in Task, AwaitLive(w, t) PROVE Goal
  BY <1>11, AwaitReadiness DEF Goal
<1>12. Goal
  BY <1>3, <1>7, <1>8, <1>9, <1>10, <1>11, <1>13, <1>16, <1>17 DEF SchedulerStep, Goal
<1> QED
  BY <1>12 DEF Goal

\* Every scheduler step the registry's environment takes is one of the core's.
LEMMA SchedulerStepIsNext ==
  SchedulerStep => Next
BY DEF SchedulerStep, Next

----------------------------------------------------------------------------
(* Each call keeps the invariant and reports the tasks it wakes.           *)

\* A step that adds no await edge closes no cycle.
LEMMA FewerEdges ==
  ASSUME NoWaitCycle,
         \A u \in Task : IsAwaiting(entries'[u])
                           => IsAwaiting(entries[u]) /\ entries'[u].on = entries[u].on
  PROVE  NoWaitCycle'
<1> DEFINE g == WaitEdges(entries)
           h == WaitEdges(entries')
<1>1. WaitCycles(g) = {}
  BY DEF NoWaitCycle
<1>2. \A E : \A u \in Task : WaitEdges(E)[u] = IF IsAwaiting(E[u]) THEN E[u].on ELSE NoTask
  BY DEF WaitEdges, IsAwaiting
<1>3. \A u \in Task : h[u] # NoTask => g[u] = h[u]
  BY <1>2
<1> SUFFICES ASSUME NEW d \in WaitCycles(h) PROVE FALSE
  BY DEF NoWaitCycle
<1>4. \A u \in Task : (\E i \in DOMAIN d : d[i] = u) => h[u] # NoTask
  BY DEF WaitCycles, Waiting
<1> HIDE DEF g, h
<1> QED
  BY <1>1, <1>3, <1>4, CycleTransfer

\* What the caller may rely on after a step.
Told ==
  /\ outcome' = "Ok" => Reports(awakened', entries, entries')
  /\ outcome' \notin {"Ok", "Stale"}
       => \A t \in Task : ~(entries[t].lifecycle = "Suspended"
                            /\ entries'[t].lifecycle = "Runnable")

LEMMA ReturnStep ==
  ASSUME HIInv, NEW S, Reached(S), Return(S), closed' = closed
  PROVE  /\ HIInv'
         /\ outcome' = "Ok" => Reports(awakened', entries, entries')
<1>1. /\ entries' = S.entries /\ registry' = S.registry /\ releases' = S.releases
      /\ awakened' = (IF S.outcome = "Ok" THEN S.awakened ELSE <<>>)
      /\ outcome' = S.outcome
      /\ next_spawn' = next_spawn /\ held' = held /\ next_id' = next_id
  BY DEF Return
<1>2. S.outcome \in Outcome
  BY DEF Reached, CallState
<1>3. IInv /\ NoWaitCycle /\ next_id \in Nat
  BY DEF HIInv
<1>4. IInv'
  <2>1. TableInv(entries', held', next_spawn, closed)
    BY <1>1 DEF Reached
  <2> QED
    BY <1>1, <1>3, <2>1, NextTableInv
<1>5. NoWaitCycle'
  <2>1. \A u \in Task : IsAwaiting(entries'[u])
                          => IsAwaiting(entries[u]) /\ entries'[u].on = entries[u].on
    BY <1>1 DEF Reached
  <2> QED
    BY <1>3, <2>1, FewerEdges
<1>6. RegistryExact(registry', releases', next_id') /\ Covered(entries', registry')
      /\ (closed' => registry' = <<>>)
  BY <1>1 DEF Reached
<1>7. HIInv'
  BY <1>1, <1>2, <1>3, <1>4, <1>5, <1>6 DEF HIInv
<1>8. outcome' = "Ok" => Reports(awakened', entries, entries')
  BY <1>1 DEF Reached
<1> QED
  BY <1>7, <1>8

\* Cancelling a task retires what it still has in the registry.
LEMMA CancelledReached ==
  ASSUME HIInv, NEW t \in Task
  PROVE  Reached(Cancelled(Before, t)) /\ Cancelled(Before, t).outcome = "Ok"
<1> DEFINE F == Terminalize(entries, t, "Cancelled")
           list == AwakenedByTerminalize(entries, t, "Cancelled")
           T == [Before EXCEPT !.entries = F, !.awakened = list]
           M == IF Live(entries, t) THEN T ELSE Before
           own == {e \in ToSet(registry) : e.task = t}
<1>1. /\ Reached(Before) /\ Before.outcome = "Ok" /\ Before.entries = entries
      /\ Before.registry = registry /\ Before.releases = releases
      /\ Before \in CallState
  BY BeforeReached DEF Reached
<1>2. Cancelled(Before, t) = RetireMatching(M, own)
  BY <1>1 DEF Cancelled
<1>3. next_id \in Nat /\ Consistent(entries)
  BY IInvIsTableInv DEF HIInv, TableInv
<1>4. ASSUME Live(entries, t)
      PROVE  Reached(T) /\ T.outcome = "Ok" /\ T.registry = registry
             /\ T.entries = F
  <2>1. Settlable(entries, {t}) /\ "Cancelled" \in Result
    BY <1>3, <1>4, OneTaskSettlable DEF Result
  <2>2. F = Settle(entries, {t}, "Cancelled")
    BY DEF Terminalize
  <2>3. Reports(list, entries, F)
    BY <1>3, <1>4, <2>1, TerminalizeReports
  <2>4. TableInv(F, held, next_spawn, closed)
    <3>1. TableInv(entries, held, next_spawn, closed) /\ held \in SUBSET held
          /\ held \ held \subseteq {t} /\ {t} # {}
      BY IInvIsTableInv DEF HIInv
    <3> HIDE DEF F
    <3> QED
      BY <2>1, <2>2, <3>1, SettleStep
  <2>5. F \in Table /\ list \in Seq(Task)
    BY <2>3, <2>4 DEF TableInv, Consistent, Reports
  <2>6. NoNewReadiness(entries, F)
    BY <1>3, <2>1, <2>2, SettleReadiness
  <2>7. ASSUME NEW u \in Task
        PROVE  /\ F[u].lifecycle = "Suspended" => entries[u].lifecycle = "Suspended"
               /\ IsAwaiting(F[u]) => IsAwaiting(entries[u]) /\ F[u].on = entries[u].on
    <3> HIDE DEF F
    <3>1. F[u].lifecycle = "Suspended" => SuspendedOn(F, u, F[u].suspension, F[u].on)
      BY DEF SuspendedOn
    <3>2. F[u].lifecycle = "Suspended" => SuspendedOn(entries, u, F[u].suspension, F[u].on)
      BY <1>3, <2>1, <2>2, <3>1, SettleSuspends
    <3> QED
      BY <3>2 DEF SuspendedOn, IsAwaiting
  <2> HIDE DEF F, list
  <2>8. /\ T \in CallState /\ T.outcome = "Ok" /\ T.registry = registry
        /\ T.releases = releases /\ T.entries = F /\ T.awakened = list
    BY <1>1, <2>5 DEF CallState
  <2> HIDE DEF T
  <2>9. Covered(F, registry)
    BY <2>6 DEF HIInv, Covered, NoNewReadiness
  <2>10. Reached(T)
    BY <2>3, <2>4, <2>7, <2>8, <2>9 DEF HIInv, Reached
  <2> QED
    BY <2>8, <2>10
<1> HIDE DEF T, F
<1>5. Reached(M) /\ M.outcome = "Ok" /\ M.registry = registry
  BY <1>1, <1>4
<1>6. M.entries[t].lifecycle # "Suspended"
  <2>1. CASE Live(entries, t)
    <3>1. Settlable(entries, {t}) /\ "Cancelled" \in Result
      BY <1>3, <2>1, OneTaskSettlable DEF Result
    <3>2. F[t].lifecycle \in Terminal
      BY <1>3, <3>1, SettleFields DEF F, Terminalize
    <3> QED
      BY <1>4, <2>1, <3>2 DEF Terminal
  <2>2. CASE ~Live(entries, t)
    BY <1>1, <2>2 DEF Live
  <2> QED
    BY <2>1, <2>2
<1> HIDE DEF M
<1>7. \A e \in own : ~SuspendedOn(M.entries, e.task, "Host_readiness", e.id)
  BY <1>6 DEF SuspendedOn
<1>8. Reached(RetireMatching(M, own))
  BY <1>3, <1>5, <1>7, RetireReached
<1>9. RetireMatching(M, own).outcome = "Ok"
  BY <1>5, RetireFields DEF Reached
<1> QED
  BY <1>2, <1>8, <1>9

\* Registering appends the newest registration, and its task waits for it.
LEMMA RegisterKeeps ==
  ASSUME HIInv, NEW t \in Task, Register(t)
  PROVE  HIInv' /\ Told
<1>1. /\ IInv /\ NoWaitCycle /\ next_id \in Nat /\ next_id \in Registration /\ ~closed
      /\ RegistryExact(registry, releases, next_id) /\ Covered(entries, registry)
      /\ releases' = releases
  BY DEF HIInv, Register
<1>2. CASE /\ CheckedOut(entries, t) /\ awakened' = <<>> /\ outcome' = "Descriptor_failed"
           /\ UNCHANGED <<entries, next_spawn, closed, held, registry, next_id>>
  <2>1. IInv'
    BY <1>1, <1>2, IInvIsTableInv, NextTableInv
  <2>2. NoWaitCycle'
    BY <1>1, <1>2, FewerEdges
  <2>3. HIInv'
    BY <1>1, <1>2, <2>1, <2>2 DEF HIInv, Outcome
  <2> QED
    BY <1>2, <2>3 DEF Told
<1>3. CASE /\ SuspendTask(t, "Host_readiness", next_id)
           /\ registry' = Append(registry, [id |-> next_id, task |-> t])
           /\ next_id' = next_id + 1 /\ outcome' = "Ok"
  <2> DEFINE d == [id |-> next_id, task |-> t]
             reg == registry
             new == Append(reg, d)
             m == Len(reg)
  <2>1. Next
    <3>1. "Host_readiness" \in Suspension \ {"Awaiting"} /\ next_id \in BlockerFor("Host_readiness")
      BY <1>1, RegistrationAssumption DEF Suspension, BlockerFor, RegistrationArgument
    <3> QED
      BY <1>3, <3>1 DEF Next
  <2>2. IInv' /\ NoWaitCycle' /\ Reports(awakened', entries, entries')
    BY <1>1, <2>1, NextInv, StepNoWaitCycle, StepReports
  <2>3. closed' = closed /\ entries' = Suspend(entries, t, "Host_readiness", next_id)
    BY <1>3 DEF SuspendTask
  <2>4. /\ reg \in Seq(Decision) /\ m \in Nat /\ DOMAIN reg = 1..m
        /\ \A i, j \in DOMAIN reg : i < j => reg[i].id < reg[j].id
        /\ \A e : In(e, reg) => e.id < next_id
        /\ releases \in [Registration -> Nat]
        /\ \A r \in Registration :
             releases[r] = IF r < next_id /\ \A e \in ToSet(reg) : e.id # r THEN 1 ELSE 0
    BY <1>1 DEF RegistryExact
  <2>5. d \in Decision /\ d.id = next_id /\ d.task = t
    BY <1>1 DEF Decision
  <2> HIDE DEF d
  <2>6. /\ new \in Seq(Decision) /\ DOMAIN new = 1..(m + 1)
        /\ new[m + 1] = d /\ \A j \in 1..m : new[j] = reg[j]
    BY <2>4, <2>5
  <2> HIDE DEF new, m, reg
  <2>7. \A j : j \in 1..(m + 1) <=> j \in 1..m \/ j = m + 1
    BY <2>4
  <2>8. \A e : In(e, new) <=> In(e, reg) \/ e = d
    BY <2>4, <2>6, <2>7 DEF In
  <2>9. ASSUME NEW i \in DOMAIN new, NEW j \in DOMAIN new, i < j
        PROVE  new[i].id < new[j].id
    <3>1. i \in 1..m
      BY <2>4, <2>6, <2>9
    <3>2. CASE j \in 1..m
      BY <2>4, <2>6, <2>9, <3>1, <3>2
    <3>3. CASE j = m + 1
      <4>1. In(reg[i], reg)
        BY <2>4, <3>1 DEF In
      <4> QED
        BY <2>4, <2>5, <2>6, <3>1, <3>3, <4>1
    <3> QED
      BY <2>6, <2>7, <3>2, <3>3
  <2>10. \A e : In(e, new) => e.id < next_id + 1
    <3>1. ASSUME NEW e, In(e, reg) PROVE e.id < next_id + 1
      <4>1. e.id \in Nat /\ e.id < next_id
        BY <2>4, <3>1, RegisteredIsDecision, RegistrationAssumption
      <4> QED
        BY <1>1, <4>1
    <3>2. d.id < next_id + 1
      BY <1>1, <2>5
    <3> QED
      BY <2>8, <3>1, <3>2
  <2>11. \A q, e : e \in ToSet(q) <=> In(e, q)
    BY DEF ToSet, In
  <2>12. ASSUME NEW r \in Registration
         PROVE  releases[r] = IF r < next_id + 1 /\ \A e \in ToSet(new) : e.id # r THEN 1 ELSE 0
    <3>1. r \in Nat
      BY RegistrationAssumption
    <3>2. (r < next_id + 1 /\ r # next_id) <=> r < next_id
      BY <1>1, <3>1
    <3>3. (\A e \in ToSet(new) : e.id # r) <=> (\A e \in ToSet(reg) : e.id # r) /\ r # next_id
      BY <2>5, <2>8, <2>11
    <3> QED
      BY <2>4, <3>2, <3>3
  <2>13. RegistryExact(new, releases, next_id + 1)
    BY <2>4, <2>6, <2>9, <2>10, <2>12 DEF RegistryExact
  <2>14. Covered(entries', new)
    <3> SUFFICES ASSUME NEW u \in Task, NEW r \in Registration,
                        SuspendedOn(entries', u, "Host_readiness", r)
                 PROVE  In([id |-> r, task |-> u], new)
      BY DEF Covered
    <3> DEFINE x == [entries[t] EXCEPT !.lifecycle = "Suspended", !.suspension = "Host_readiness",
                                       !.on = next_id, !.resume = TRUE]
    <3>1. entries[t] \in Entry /\ entries \in Table
      BY <1>1, IInvIsTableInv DEF TableInv, Consistent, Table
    <3>2. x.on = next_id
      BY <3>1 DEF Entry
    <3>3. entries' = [entries EXCEPT ![t] = x]
      BY <2>3 DEF Suspend
    <3> HIDE DEF x
    <3>4. entries'[t].on = next_id /\ (u # t => entries'[u] = entries[u])
      BY <3>1, <3>2, <3>3 DEF Table
    <3>5. CASE u = t
      <4>1. [id |-> r, task |-> u] = d
        BY <3>4, <3>5 DEF SuspendedOn, d
      <4> QED
        BY <2>8, <4>1
    <3>6. CASE u # t
      <4>1. In([id |-> r, task |-> u], reg)
        BY <1>1, <3>4, <3>6 DEF Covered, SuspendedOn, reg
      <4> QED
        BY <2>8, <4>1
    <3> QED
      BY <3>5, <3>6
  <2>15. registry' = new /\ next_id' = next_id + 1 /\ next_id' \in Nat /\ outcome' \in Outcome
    BY <1>1, <1>3 DEF new, d, reg, Outcome
  <2>16. HIInv'
    BY <1>1, <2>2, <2>3, <2>13, <2>14, <2>15 DEF HIInv
  <2> QED
    BY <1>3, <2>2, <2>16 DEF Told
<1> QED
  BY <1>2, <1>3 DEF Register

\* Shutdown closes the scheduler and every duplicate.
LEMMA ShutdownKeeps ==
  ASSUME HIInv, Shutdown
  PROVE  HIInv' /\ Told
<1> DEFINE S == RetireMatching(Before, ToSet(registry))
           F == [t \in Task |-> ClosedEntry(entries[t])]
           T == [S EXCEPT !.entries = F]
<1>1. /\ Before \in CallState /\ Before.registry = registry /\ Before.releases = releases
      /\ Before.outcome = "Ok" /\ Before.awakened = <<>>
  BY BeforeReached DEF Reached, Before
<1>2. IInv /\ NoWaitCycle /\ next_id \in Nat /\ RegistryExact(registry, releases, next_id)
  BY DEF HIInv
<1>3. S \in CallState /\ S.outcome = "Ok" /\ S.awakened = <<>>
  BY <1>1, RetireFields
<1>4. /\ RegistryExact(S.registry, S.releases, next_id)
      /\ \A e : In(e, S.registry) <=> In(e, registry) /\ e \notin ToSet(registry)
  BY <1>1, <1>2, RetireExact
<1>5. Return(T) /\ closed' = TRUE /\ ~closed
  BY DEF Shutdown
<1> HIDE DEF S
<1>6. /\ T.outcome = "Ok" /\ T.awakened = <<>> /\ T.entries = F
      /\ T.registry = S.registry /\ T.releases = S.releases
  BY <1>3 DEF CallState
<1> HIDE DEF T, F
<1>7. /\ entries' = F /\ registry' = S.registry /\ releases' = S.releases /\ awakened' = <<>>
      /\ outcome' = "Ok" /\ next_spawn' = next_spawn /\ held' = held /\ next_id' = next_id
  BY <1>5, <1>6 DEF Return
<1>8. Close
  BY <1>5, <1>7 DEF Close, F
<1>9. IInv' /\ NoWaitCycle' /\ Reports(awakened', entries, entries')
  BY <1>2, <1>8, NextInv, StepNoWaitCycle, StepReports DEF Next
<1>10. S.registry = <<>>
  <2>1. S.registry \in Seq(Decision)
    BY <1>3 DEF CallState
  <2>2. \A e : ~In(e, S.registry)
    BY <1>4 DEF In, ToSet
  <2> SUFFICES ASSUME S.registry # <<>> PROVE FALSE
    OBVIOUS
  <2>3. 1 \in DOMAIN S.registry
    BY <2>1
  <2> QED
    BY <2>2, <2>3 DEF In
<1>11. Covered(entries', registry')
  <2>1. \A t \in Task : ~Live(entries', t)
    BY <1>5, <1>9, IInvIsTableInvPrimed DEF TableInv, Drained
  <2> QED
    BY <2>1 DEF Live, Covered, SuspendedOn
<1>12. HIInv'
  BY <1>2, <1>4, <1>7, <1>9, <1>10, <1>11 DEF HIInv, Outcome
<1> QED
  BY <1>7, <1>9, <1>12 DEF Told

LEMMA HostStep ==
  ASSUME HIInv, HostNext
  PROVE  HIInv' /\ Told
<1> DEFINE Goal == HIInv' /\ Told
<1>1. /\ IInv /\ NoWaitCycle /\ next_id \in Nat
      /\ Reached(Before) /\ Before.outcome = "Ok" /\ Before.entries = entries
  BY BeforeReached DEF HIInv
<1>2. ASSUME SchedulerStep PROVE Goal
  <2>1. /\ IInv' /\ NoWaitCycle' /\ Reports(awakened', entries, entries')
    BY <1>1, <1>2, SchedulerStepIsNext, NextInv, StepNoWaitCycle, StepReports
  <2>2. outcome' = "Ok" /\ registry' = registry /\ next_id' = next_id /\ releases' = releases
    BY <1>2 DEF SchedulerStep
  <2>3. closed' = closed
    BY <1>2 DEF SchedulerStep, Spawn, Checkout, RestoreCheckout, Finish, RequestCancel,
                DeliverCancel, CancellationBoundary, AwaitReady, AwaitLive
  <2>4. Covered(entries', registry')
    BY <1>1, <1>2, <2>2, SchedulerReadiness DEF HIInv, Covered, NoNewReadiness
  <2>5. HIInv'
    BY <2>1, <2>2, <2>3, <2>4 DEF HIInv, Outcome
  <2> QED
    BY <2>1, <2>2, <2>5 DEF Told
<1>3. ASSUME NEW t \in Task, Register(t) PROVE Goal
  BY <1>3, RegisterKeeps
<1>4. ASSUME NEW S, Reached(S), S.outcome \in {"Ok", "Stale"}, Return(S), closed' = closed
      PROVE  Goal
  <2>1. outcome' = S.outcome
    BY <1>4 DEF Return
  <2> QED
    BY <1>4, <2>1, ReturnStep DEF Told
<1>5. ASSUME NEW t \in Task, Cancel(t) PROVE Goal
  <2>1. Return(Cancelled(Before, t)) /\ closed' = closed
    BY <1>5 DEF Cancel
  <2> QED
    BY <1>4, <2>1, CancelledReached
<1>6. ASSUME FailsBeforeWaking PROVE Goal
  <2> DEFINE S == [Reconciled(Before) EXCEPT !.outcome = "Descriptor_failed"]
  <2>1. Return(S) /\ closed' = closed
    BY <1>6 DEF FailsBeforeWaking
  <2>2. /\ Reached(Reconciled(Before)) /\ Reconciled(Before).entries = entries
        /\ "Descriptor_failed" \in Outcome
    BY <1>1, ReconciledReached DEF Outcome
  <2>3. Reached(S) /\ S.entries = entries /\ S.outcome = "Descriptor_failed"
    BY <2>2, OutcomeOnly
  <2> HIDE DEF S
  <2>4. HIInv' /\ entries' = entries /\ outcome' = "Descriptor_failed"
    BY <2>1, <2>3, ReturnStep DEF Return
  <2> QED
    BY <2>4 DEF Told
<1>7. ASSUME NEW readable, PollLive(readable) PROVE Goal
  <2>1. Return(Polled(Before, readable)) /\ closed' = closed
    BY <1>7 DEF PollLive
  <2> QED
    BY <1>1, <1>4, <2>1, PollReached
<1>8. ASSUME NEW decisions \in BoundedSeq(Decision, MaxReplay), Replay(decisions) PROVE Goal
  <2>1. Return(Replayed(Before, decisions)) /\ closed' = closed
    BY <1>8 DEF Replay
  <2>2. Len(decisions) \in Nat
    <3>1. PICK m \in 0..MaxReplay : decisions \in [1..m -> Decision]
      BY DEF BoundedSeq, SeqOf
    <3>2. m \in Nat
      BY <3>1
    <3>3. decisions \in Seq(Decision)
      BY <3>1, <3>2
    <3> QED
      BY <3>3
  <2> QED
    BY <1>1, <1>4, <2>1, <2>2, ReplayReached
<1>9. ASSUME Reconcile PROVE Goal
  <2>1. Return(Reconciled(Before)) /\ closed' = closed
    BY <1>9 DEF Reconcile
  <2> QED
    BY <1>1, <1>4, <2>1, ReconciledReached
<1>10. ASSUME Shutdown PROVE Goal
  BY <1>10, ShutdownKeeps
<1> HIDE DEF Goal
<1>11. Goal
  BY <1>2, <1>3, <1>5, <1>6, <1>7, <1>8, <1>9, <1>10 DEF HostNext
<1> QED
  BY <1>11 DEF Goal

LEMMA HostUnchanged ==
  ASSUME HIInv, UNCHANGED hostVars
  PROVE  HIInv'
<1>1. /\ entries' = entries /\ next_spawn' = next_spawn /\ closed' = closed /\ held' = held
      /\ registry' = registry /\ next_id' = next_id /\ releases' = releases
      /\ outcome' = outcome
  BY DEF hostVars, vars
<1>2. IInv' /\ NoWaitCycle'
  BY <1>1, IInvIsTableInv, NextTableInv, FewerEdges DEF HIInv
<1> QED
  BY <1>1, <1>2 DEF HIInv

LEMMA HostInitKeeps ==
  ASSUME HostInit
  PROVE  HIInv
<1>1. IInv /\ NoWaitCycle
  BY InitConsistent, InitNoWaitCycle DEF HostInit
<1>2. registry = <<>> /\ next_id = 0 /\ releases = [r \in Registration |-> 0] /\ outcome = "Ok"
  BY DEF HostInit
<1>3. RegistryExact(registry, releases, next_id)
  <2>1. <<>> \in Seq(Decision) /\ \A e : ~In(e, <<>>)
    BY DEF In
  <2>2. \A r \in Registration : ~(r < 0)
    BY RegistrationAssumption
  <2> QED
    BY <1>2, <2>1, <2>2 DEF RegistryExact
<1>4. Covered(entries, registry)
  <2>1. \A t \in Task : entries[t].lifecycle # "Suspended"
    BY DEF HostInit, Init, SpawnedEntry, AbsentEntry
  <2> QED
    BY <2>1 DEF Covered, SuspendedOn
<1> QED
  BY <1>1, <1>2, <1>3, <1>4 DEF HIInv, Outcome

----------------------------------------------------------------------------
(* Replaying a poll.                                                       *)

\* From the same state, the ready registrations as decisions lead through
\* the same states.
LEMMA ReplayFollowsPoll ==
  ASSUME next_id \in Nat, NEW S, Reached(S), S.outcome = "Ok", NEW readable
  PROVE  Replayed(S, Ready(S, readable)) = Polled(S, readable)
<1> DEFINE ready == Ready(S, readable)
           n == Len(ready)
           B == Reconciled(S)
<1>1. B \in CallState
  BY ReconciledReached DEF Reached
<1>2. n \in Nat
  <2>1. ready \in Seq(Decision)
    BY <1>1, FilteredIs DEF Ready, CallState
  <2> HIDE DEF ready
  <2> QED
    BY <2>1
<1>3. PICK polled :
        /\ polled[0] = B
        /\ \A i \in 1..n : polled[i] = Woken(polled[i - 1], ready[i])
        /\ Polled(S, readable) = polled[n]
        /\ \A i \in 0..n : PolledSoFar(polled[i], ready, i)
  BY PollFollows
<1>4. PICK replayed :
        /\ replayed[0] = B
        /\ \A i \in 1..n : replayed[i] = Consume(replayed[i - 1], ready[i])
        /\ Replayed(S, ready) = replayed[n]
  BY <1>1, <1>2, ReplayChain
<1> HIDE DEF B, ready
<1>5. \A i \in 0..n : \A j \in 1..n :
        /\ Reached(polled[i]) /\ polled[i].outcome = "Ok"
        /\ In(ready[j], polled[i].registry) <=> i < j
  BY <1>3 DEF PolledSoFar
<1>6. \A i \in 0..n : Reached(polled[i]) /\ polled[i].outcome = "Ok"
  BY <1>3 DEF PolledSoFar
<1> HIDE DEF n
<1> DEFINE G == {i \in 0..n : replayed[i] = polled[i]}
<1>7. 0 \in G
  BY <1>2, <1>3, <1>4
<1>8. ASSUME NEW i \in 0..n, i < n, i \in G PROVE i + 1 \in G
  <2> DEFINE k == i + 1
             T == polled[i]
  <2>1. k \in 1..n /\ k \in 0..n /\ k - 1 = i /\ i < k
    BY <1>2, <1>8
  <2> HIDE DEF k
  <2>2. replayed[i] = T
    BY <1>8
  <2>3. T \in CallState /\ T.outcome = "Ok" /\ In(ready[k], T.registry)
    BY <1>5, <1>6, <2>1 DEF Reached
  <2>4. polled[k - 1] = T /\ replayed[k - 1] = T
    BY <2>1, <2>2
  <2> HIDE DEF T
  <2>5. polled[k] = Woken(T, ready[k])
    BY <1>3, <2>1, <2>4
  <2>6. replayed[k] = Consume(T, ready[k])
    BY <1>4, <2>1, <2>4
  <2>7. Consume(T, ready[k]) = Woken(T, ready[k])
    BY <2>3, ConsumeIs
  <2>8. k \in G
    BY <2>1, <2>5, <2>6, <2>7
  <2> QED
    BY <2>8 DEF k
<1> HIDE DEF G
<1>9. \A i \in 0..n : i \in G
  BY <1>2, <1>7, <1>8, StepByStep
<1>10. replayed[n] = polled[n]
  <2>1. n \in G
    BY <1>2, <1>9
  <2> QED
    BY <2>1 DEF G
<1> QED
  BY <1>3, <1>4, <1>10 DEF ready

\* Replaying one decision that is not in the registry.
LEMMA StaleReplay ==
  ASSUME next_id \in Nat, NEW S, Reached(S), S.outcome = "Ok", NEW d, ~In(d, S.registry)
  PROVE  /\ Replayed(S, <<d>>).outcome = "Stale"
         /\ Replayed(S, <<d>>).entries = S.entries
<1> DEFINE B == Reconciled(S)
<1>1. /\ Reached(B) /\ B.outcome = "Ok" /\ B.entries = S.entries
      /\ ~In(d, B.registry)
  BY ReconciledReached
<1>2. B \in CallState
  BY <1>1 DEF Reached
<1>3. Len(<<d>>) = 1 /\ <<d>>[1] = d
  OBVIOUS
<1>4. PICK after :
        /\ after[0] = B
        /\ \A i \in 1..Len(<<d>>) : after[i] = Consume(after[i - 1], <<d>>[i])
        /\ Replayed(S, <<d>>) = after[Len(<<d>>)]
  BY <1>2, <1>3, ReplayChain
<1> HIDE DEF B
<1>5. Replayed(S, <<d>>) = Consume(B, d)
  <2>1. 1 \in 1..Len(<<d>>) /\ 1 - 1 = 0
    BY <1>3
  <2>2. after[1] = Consume(after[1 - 1], <<d>>[1])
    BY <1>4, <2>1
  <2>3. after[1] = Consume(after[0], d)
    BY <1>3, <2>1, <2>2
  <2> QED
    BY <1>3, <1>4, <2>3
<1>6. Consume(B, d) = [B EXCEPT !.outcome = "Stale"] /\ "Stale" \in Outcome
  BY <1>1, <1>2, ConsumeIs DEF Outcome
<1>7. Reached(B) /\ B.entries = S.entries /\ "Stale" \in Outcome
  BY <1>1, <1>6 DEF B
<1>8. /\ [B EXCEPT !.outcome = "Stale"].outcome = "Stale"
      /\ [B EXCEPT !.outcome = "Stale"].entries = B.entries
  BY <1>7, OutcomeOnly
<1> QED
  BY <1>5, <1>6, <1>7, <1>8

LEMMA ReplayIsExact ==
  ASSUME HIInv
  PROVE  ReplayIsThePoll
<1>1. /\ next_id \in Nat /\ Reached(Before) /\ Before.outcome = "Ok"
      /\ Before.entries = entries /\ Before.registry = registry
  BY BeforeReached DEF HIInv
<1>2. ASSUME NEW readable
      PROVE  /\ Replayed(Before, Ready(Before, readable)) = Polled(Before, readable)
             /\ \A e \in ToSet(Ready(Before, readable)) :
                  Replayed(Polled(Before, readable), <<e>>).outcome = "Stale"
  <2>1. Replayed(Before, Ready(Before, readable)) = Polled(Before, readable)
    BY <1>1, ReplayFollowsPoll
  <2>2. /\ Reached(Polled(Before, readable)) /\ Polled(Before, readable).outcome = "Ok"
        /\ \A e \in ToSet(Ready(Before, readable)) : ~In(e, Polled(Before, readable).registry)
    BY <1>1, PollReached
  <2> QED
    BY <1>1, <2>1, <2>2, StaleReplay
<1>3. ASSUME NEW d, ~In(d, registry)
      PROVE  /\ Replayed(Before, <<d>>).outcome = "Stale"
             /\ Replayed(Before, <<d>>).entries = entries
  BY <1>1, <1>3, StaleReplay
<1> QED
  BY <1>2, <1>3 DEF ReplayIsThePoll

----------------------------------------------------------------------------
(* The results.                                                            *)

\* The inductive invariant holds in every reachable state.
THEOREM HostInvariance == HostSpec => []HIInv
<1>1. HIInv /\ [HostNext]_hostVars => HIInv'
  BY HostStep, HostUnchanged
<1> QED
  BY <1>1, HostInitKeeps, PTL DEF HostSpec

\* Every duplicate of a descriptor is closed exactly once and not while it is
\* registered, whoever waits for readiness can be woken, and a resume token
\* has one owner.
THEOREM OwnershipAlwaysExact == HostSpec => []OwnershipIsExact
<1>1. HIInv => OwnershipIsExact
  <2> SUFFICES ASSUME HIInv PROVE OwnershipIsExact
    OBVIOUS
  <2>1. /\ IInv /\ next_id \in Nat /\ outcome \in Outcome
        /\ RegistryExact(registry, releases, next_id) /\ Covered(entries, registry)
        /\ closed => registry = <<>>
    BY DEF HIInv
  <2>2. HostTypeOK /\ TokenHasOneOwner
    BY <2>1 DEF HostTypeOK, RegistryExact, IInv
  <2> QED
    BY <2>1, <2>2 DEF OwnershipIsExact, RegistryExact, Covered
<1> QED
  BY <1>1, HostInvariance, PTL

\* A call reports exactly the tasks it made runnable, each once; a call that
\* fails otherwise than on a stale decision woke nobody.
THEOREM WakesAlwaysReachTheCaller == HostSpec => WakesReachTheCaller
<1>1. HIInv /\ [HostNext]_hostVars
        => [LET woken == {t \in Task : entries[t].lifecycle = "Suspended"
                                         /\ entries'[t].lifecycle = "Runnable"}
            IN  /\ outcome' = "Ok" => ToSet(awakened') = woken /\ Distinct(awakened')
                /\ outcome' \notin {"Ok", "Stale"} => woken = {}]_hostVars
  <2> DEFINE woken == {t \in Task : entries[t].lifecycle = "Suspended"
                                      /\ entries'[t].lifecycle = "Runnable"}
  <2> SUFFICES ASSUME HIInv, HostNext
               PROVE  /\ outcome' = "Ok" => ToSet(awakened') = woken /\ Distinct(awakened')
                      /\ outcome' \notin {"Ok", "Stale"} => woken = {}
    OBVIOUS
  <2>1. Told
    BY HostStep
  <2>2. ASSUME outcome' = "Ok" PROVE ToSet(awakened') = woken /\ Distinct(awakened')
    <3>1. /\ awakened' \in Seq(Task) /\ Distinct(awakened')
          /\ \A t \in Task : In(t, awakened') <=> t \in woken
      BY <2>1, <2>2 DEF Told, Reports
    <3>2. \A t : t \in ToSet(awakened') <=> In(t, awakened')
      BY DEF ToSet, In
    <3>3. \A t : In(t, awakened') => t \in Task
      BY <3>1 DEF In
    <3> QED
      BY <3>1, <3>2, <3>3
  <2>3. outcome' \notin {"Ok", "Stale"} => woken = {}
    BY <2>1 DEF Told
  <2> QED
    BY <2>2, <2>3
<1> QED
  BY <1>1, HostInvariance, PTL DEF HostSpec, WakesReachTheCaller

\* Replaying the decisions of a live poll does what the poll did; a decision
\* that was consumed, or that the registry no longer owns, is refused.
THEOREM ReplayIsAlwaysThePoll == HostSpec => []ReplayIsThePoll
<1>1. HIInv => ReplayIsThePoll
  BY ReplayIsExact
<1> QED
  BY <1>1, HostInvariance, PTL
==============================================================================
