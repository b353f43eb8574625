---------------------- MODULE StaleNotifications_proofs ----------------------
(***************************************************************************)
(* Invariants of StaleNotifications, for any hosts, configuration and      *)
(* resolution of time, and any schedule of runs, failures and check-ins.   *)
(***************************************************************************)
EXTENDS StaleNotifications, TLAPS

StaleAt(h) == checked[h] + Config["stale"]

(* The host has been told about, or its turn was missed. *)
Turn(h) == told[h] >= 1 \/ h \in missed

(* Stale in the window of the run at work. *)
InRun(h) == StaleAt(h) <= began /\ StaleAt(h) > began - LastRun(began)

(* The inductive invariant: runs come after each other; a run at work has  *)
(* in hand, or has had its turn, whatever is in its window; who has had    *)
(* its turn, with no run cut short, was stale by the last run or is by the *)
(* present one.                                                            *)
TimeInv ==
  /\ last <= now
  /\ pc = "work" => last <= began /\ began <= now
WindowInv == pc = "work" => \A h \in Host : InRun(h) => h \in found \/ Turn(h)
OnceInv ==
  ~cut => \A h \in Host :
    /\ told[h] <= 1 /\ ~(told[h] = 1 /\ h \in missed)
    /\ Turn(h) => StaleAt(h) <= last \/ (pc = "work" /\ h \notin found /\ StaleAt(h) <= began)
ToldInv ==
  \A h \in Host :
    StaleAt(h) <= last /\ (\A t \in runs : StaleAt(h) \notin (t + 1)..(t + Second - 1))
      => Turn(h)
FoundInv == ~cut => \A h \in found : StaleAt(h) <= began => StaleAt(h) > last

Inv == TypeOK /\ TimeInv /\ WindowInv /\ OnceInv /\ ToldInv /\ FoundInv

LEMMA Facts ==
  ASSUME TypeOK
  PROVE  /\ Second \in Nat \ {0} /\ Config["stale"] \in Nat \ {0} /\ Time \subseteq Nat
         /\ now \in Nat /\ began \in Nat /\ last \in Nat /\ last \in Time
         /\ \A h \in Host : /\ checked[h] \in Nat /\ StaleAt(h) \in Nat /\ told[h] \in 0..2
         /\ \A t \in runs : t \in Nat
BY NotifyAssumption DEF TypeOK, Time, StaleAt, Field, Many

(* The window ends less than a second after the last run. *)
LEMMA WindowEnds ==
  ASSUME TypeOK, NEW t \in Nat, t >= last
  PROVE  /\ LastRun(t) \in Int
         /\ LastRun(t) <= t - last /\ LastRun(t) > t - last - Second
<1>1. last \in Nat /\ Second \in Nat \ {0} BY Facts
<1> DEFINE x == t - last
           q == x \div Second
<1>2. x \in Nat BY <1>1
<1>3. q \in Int /\ Second * q <= x /\ x < Second * q + Second
  <2> HIDE DEF x
  <2>. QED BY <1>1, <1>2
<1>4. LastRun(t) = q * Second BY DEF LastRun
<1> HIDE DEF x, q
<1>5. q * Second = Second * q /\ Second * q \in Int BY <1>1, <1>3
<1>. QED BY <1>1, <1>2, <1>3, <1>4, <1>5 DEF x

LEMMA InitInv == Init => Inv
<1> SUFFICES ASSUME Init PROVE Inv OBVIOUS
<1>1. TypeOK
  <2>1. 0 \in Time /\ 0 \in 0..Many /\ 0 \in {0} BY NotifyAssumption DEF Time, Many
  <2>2. checked \in [Host -> Time] /\ told \in [Host -> 0..Many] BY <2>1 DEF Init
  <2>. QED BY <2>1, <2>2 DEF Init, TypeOK
<1>2. \A h \in Host : StaleAt(h) > 0 BY <1>1, NotifyAssumption DEF Init, StaleAt, Field
<1>3. ToldInv /\ OnceInv BY <1>1, <1>2, Facts DEF Init, ToldInv, OnceInv, Turn
<1>. QED BY <1>1, <1>3 DEF Init, Inv, TimeInv, WindowInv, FoundInv

LEMMA CheckInKeeps == ASSUME Inv, NEW h \in Host, CheckIn(h) PROVE Inv'
<1>0. TypeOK BY DEF Inv
<1>1. /\ checked' = [checked EXCEPT ![h] = now] /\ told' = [told EXCEPT ![h] = 0]
      /\ missed' = missed \ {h}
      /\ UNCHANGED <<now, pc, began, found, last, runs, cut>>
  BY DEF CheckIn
<1>2. TypeOK' BY <1>0, <1>1, Facts DEF TypeOK, Many
<1>3. \A g \in Host \ {h} : StaleAt(g)' = StaleAt(g) /\ told'[g] = told[g]
                          /\ (Turn(g)' <=> Turn(g)) /\ (g \in missed' <=> g \in missed)
  BY <1>0, <1>1 DEF TypeOK, StaleAt, Turn
<1>4. StaleAt(h)' = now + Config["stale"] /\ told'[h] = 0 /\ ~Turn(h)' /\ h \notin missed'
  BY <1>0, <1>1 DEF TypeOK, StaleAt, Turn
<1>5. StaleAt(h)' > last /\ StaleAt(h)' > now /\ (pc = "work" => StaleAt(h)' > began)
  BY <1>0, <1>4, Facts DEF Inv, TimeInv
<1>6. ~(StaleAt(h)' <= last) /\ (pc = "work" => ~(StaleAt(h)' <= began))
  BY <1>0, <1>4, <1>5, Facts
<1>7. TimeInv' BY <1>1 DEF Inv, TimeInv
<1>8. WindowInv' BY <1>1, <1>3, <1>6 DEF Inv, WindowInv, InRun, LastRun
<1>9. OnceInv' BY <1>1, <1>3, <1>4 DEF Inv, OnceInv
<1>10. ToldInv' BY <1>1, <1>3, <1>6 DEF Inv, ToldInv
<1>11. FoundInv'
  <2>1. found # {} => pc = "work" BY <1>0 DEF TypeOK
  <2>. QED BY <1>0, <1>1, <1>3, <1>6, <2>1 DEF Inv, FoundInv, TypeOK
<1>. QED BY <1>2, <1>7, <1>8, <1>9, <1>10, <1>11 DEF Inv

LEMMA StartKeeps == ASSUME Inv, Start PROVE Inv'
<1>0. TypeOK /\ last <= now /\ now \in Nat BY Facts DEF Inv, TimeInv
<1>1. /\ pc = "idle" /\ found' = {h \in Host : InWindow(h)}
      /\ UNCHANGED <<now, checked, told, missed, last, runs, cut>>
      /\ IF found' = {} THEN UNCHANGED <<pc, began>> ELSE pc' = "work" /\ began' = now
  BY DEF Start
<1>2. \A h \in Host : StaleAt(h)' = StaleAt(h) /\ (Turn(h)' <=> Turn(h)) BY <1>1 DEF StaleAt, Turn
<1>3. \A h \in Host : InWindow(h) <=> StaleAt(h) > now - LastRun(now) /\ StaleAt(h) <= now
  BY <1>0, Facts, WindowEnds DEF InWindow, StaleAt
<1>4. CASE found' = {}
  <2>1. pc' = "idle" /\ began' = began BY <1>1, <1>4
  <2>2. TypeOK' BY <1>0, <1>1, <1>4, <2>1 DEF TypeOK
  <2>. QED BY <1>1, <1>2, <1>4, <2>1, <2>2 DEF Inv, TimeInv, WindowInv, OnceInv, ToldInv, FoundInv
<1>5. CASE found' # {}
  <2>1. pc' = "work" /\ began' = now BY <1>1, <1>5
  <2>2. TypeOK' BY <1>0, <1>1, <2>1 DEF TypeOK
  <2>3. TimeInv' BY <1>0, <1>1, <2>1 DEF TimeInv
  <2>4. WindowInv' BY <1>1, <1>2, <1>3, <2>1 DEF WindowInv, InRun, LastRun
  <2>5. ToldInv' BY <1>1, <1>2 DEF Inv, ToldInv
  <2>6. ASSUME NEW h \in found' PROVE StaleAt(h) > last
    <3>1. h \in Host /\ StaleAt(h) > now - LastRun(now) BY <1>1, <1>3
    <3>. QED BY <1>0, <3>1, Facts, WindowEnds
  <2>7. FoundInv' BY <1>1, <1>2, <2>6 DEF FoundInv
  <2>8. OnceInv' BY <1>1, <1>2, <2>1 DEF Inv, OnceInv
  <2>. QED BY <2>2, <2>3, <2>4, <2>5, <2>7, <2>8 DEF Inv
<1>. QED BY <1>4, <1>5

(* The turn of a host, however it goes. *)
LEMMA NotifyKeeps == ASSUME Inv, NEW h \in Host, Notify(h) \/ Miss(h) PROVE Inv'
<1>0. TypeOK BY DEF Inv
<1>1. /\ pc = "work" /\ h \in found /\ found' = found \ {h}
      /\ UNCHANGED <<now, checked, pc, began, last, runs, cut>>
  BY DEF Notify, Miss
<1>2. \A g \in Host : StaleAt(g)' = StaleAt(g) BY <1>1 DEF StaleAt
<1>3. /\ told' \in [Host -> 0..2] /\ missed' \subseteq Host
      /\ \A g \in Host \ {h} : told'[g] = told[g] /\ (g \in missed' <=> g \in missed)
      /\ told[h] >= 1 => told'[h] >= 1
      /\ h \in missed => h \in missed'
      /\ ~(StaleAt(h) <= began) => told'[h] = told[h] /\ (h \in missed' <=> h \in missed)
      /\ StaleAt(h) <= began => \/ /\ h \in missed' /\ told'[h] = told[h]
                               \/ /\ told'[h] >= 1 /\ (told[h] = 0 => told'[h] = 1)
                                  /\ h \in missed' <=> h \in missed
  <2>0. told \in [Host -> 0..2] /\ \A g \in Host : told[g] \in 0..2 BY <1>0 DEF TypeOK, Many
  <2>1. CASE Notify(h)
    <3>1. /\ StaleAt(h) <= began => told' = [told EXCEPT ![h] = IF @ = 2 THEN 2 ELSE @ + 1]
          /\ ~(StaleAt(h) <= began) => told' = told
      BY <2>1 DEF Notify, Absent, StaleAt, Many
    <3>2. missed' = missed BY <2>1 DEF Notify
    <3>. QED BY <1>0, <2>0, <3>1, <3>2 DEF TypeOK
  <2>2. CASE Miss(h)
    <3>1. told' = told /\ missed' = IF StaleAt(h) <= began THEN missed \union {h} ELSE missed
      BY <2>2 DEF Miss, Absent, StaleAt
    <3>2. missed' \subseteq Host BY <1>0, <3>1 DEF TypeOK
    <3>. QED BY <2>0, <3>1, <3>2
  <2>. QED BY <2>1, <2>2
<1>4. /\ \A g \in Host : Turn(g) => Turn(g)'
      /\ \A g \in Host \ {h} : Turn(g)' <=> Turn(g)
      /\ StaleAt(h) <= began => Turn(h)'
      /\ ~(StaleAt(h) <= began) => (Turn(h)' <=> Turn(h))
  BY <1>0, <1>3, Facts DEF Turn
<1>5. TypeOK' BY <1>0, <1>1, <1>3 DEF TypeOK, Many
<1>6. TimeInv' BY <1>1 DEF Inv, TimeInv
<1>7. WindowInv'
  <2>1. ASSUME NEW g \in Host, InRun(g) PROVE g \in found' \/ Turn(g)'
    <3>1. CASE g = h BY <1>4, <2>1, <3>1 DEF InRun
    <3>2. CASE g # h BY <1>1, <1>4, <2>1, <3>2 DEF Inv, WindowInv
    <3>. QED BY <3>1, <3>2
  <2>. QED BY <1>1, <1>2, <2>1 DEF WindowInv, InRun, LastRun
<1>8. OnceInv'
  <2> SUFFICES ASSUME ~cut, NEW g \in Host
               PROVE  /\ told'[g] <= 1 /\ ~(told'[g] = 1 /\ g \in missed')
                      /\ Turn(g)' => StaleAt(g) <= last \/ (g \notin found' /\ StaleAt(g) <= began)
    BY <1>1, <1>2 DEF OnceInv
  <2>1. CASE g # h BY <1>1, <1>3, <1>4, <2>1 DEF Inv, OnceInv
  <2>2. CASE g = h /\ ~(StaleAt(h) <= began) BY <1>1, <1>3, <1>4, <2>2 DEF Inv, OnceInv
  <2>3. CASE g = h /\ StaleAt(h) <= began
    <3>1. ~(StaleAt(h) <= last) BY <1>0, <1>1, <2>3, Facts DEF Inv, FoundInv
    <3>2. ~Turn(h) BY <1>1, <3>1 DEF Inv, OnceInv
    <3>3. told[h] = 0 /\ h \notin missed BY <1>0, <3>2, Facts DEF Turn
    <3>. QED BY <1>1, <1>3, <2>3, <3>3
  <2>. QED BY <2>1, <2>2, <2>3
<1>9. ToldInv' BY <1>1, <1>2, <1>4 DEF Inv, ToldInv
<1>10. FoundInv' BY <1>0, <1>1, <1>2 DEF Inv, FoundInv, TypeOK
<1>. QED BY <1>5, <1>6, <1>7, <1>8, <1>9, <1>10 DEF Inv

(* A run that ends has had its turn with whoever became stale since the last one, *)
(* but for the fraction of a second that its window loses.                 *)
LEMMA EndKeeps == ASSUME Inv, End PROVE Inv'
<1>0. TypeOK /\ last \in runs BY DEF Inv, TypeOK
<1>1. /\ pc = "work" /\ found = {} /\ pc' = "idle" /\ began' = 0
      /\ last' = began /\ runs' = runs \union {began}
      /\ UNCHANGED <<now, checked, found, told, missed, cut>>
  BY DEF End
<1>2. last <= began /\ began <= now BY <1>1 DEF Inv, TimeInv
<1>3. \A h \in Host : StaleAt(h)' = StaleAt(h) /\ (Turn(h)' <=> Turn(h)) BY <1>1 DEF StaleAt, Turn
<1>4. TypeOK'
  <2>1. 0 \in Time BY NotifyAssumption DEF Time
  <2>. QED BY <1>0, <1>1, <2>1 DEF TypeOK
<1>5. TimeInv' BY <1>1, <1>2 DEF TimeInv
<1>6. OnceInv'
  <2>1. \A h \in Host : StaleAt(h) <= last => StaleAt(h) <= began BY <1>0, <1>2, Facts
  <2>. QED BY <1>1, <1>3, <2>1 DEF Inv, OnceInv
<1>7. ToldInv'
  <2> SUFFICES ASSUME NEW h \in Host, StaleAt(h) <= began,
                      \A t \in runs : StaleAt(h) \notin (t + 1)..(t + Second - 1)
               PROVE  Turn(h)
    BY <1>1, <1>3 DEF ToldInv
  <2>1. CASE StaleAt(h) <= last BY <2>1 DEF Inv, ToldInv
  <2>2. CASE ~(StaleAt(h) <= last)
    <3>1. StaleAt(h) \notin (last + 1)..(last + Second - 1) BY <1>0
    <3>2. StaleAt(h) >= last + Second BY <1>0, <2>2, <3>1, Facts
    <3>3. LastRun(began) \in Int /\ LastRun(began) > began - last - Second
      BY <1>0, <1>2, Facts, WindowEnds
    <3>4. StaleAt(h) > began - LastRun(began) BY <1>0, <3>2, <3>3, Facts
    <3>. QED BY <1>1, <3>4 DEF Inv, WindowInv, InRun
  <2>. QED BY <2>1, <2>2
<1>. QED BY <1>1, <1>4, <1>5, <1>6, <1>7 DEF Inv, WindowInv, FoundInv

LEMMA NextInv == Inv /\ [Next]_vars => Inv'
<1> SUFFICES ASSUME Inv, [Next]_vars PROVE Inv' OBVIOUS
<1> USE DEF Inv
<1>1. CASE UNCHANGED vars
  BY <1>1 DEF vars, TypeOK, TimeInv, WindowInv, OnceInv, ToldInv, FoundInv, InRun, StaleAt, LastRun, Turn
<1>2. CASE Tick
  <2>1. UNCHANGED <<checked, pc, began, found, told, missed, last, runs, cut>> /\ now' = now + 1 /\ now < MaxTime
    BY <1>2 DEF Tick
  <2>2. now \in Nat /\ now' \in Time BY <2>1, Facts, NotifyAssumption DEF Time
  <2>3. TypeOK' BY <2>1, <2>2 DEF TypeOK
  <2>4. TimeInv' BY <2>1, <2>2, Facts DEF TimeInv
  <2>. QED BY <2>1, <2>3, <2>4 DEF WindowInv, OnceInv, ToldInv, FoundInv, InRun, StaleAt, LastRun, Turn
<1>3. CASE Fail
  <2>1. /\ pc' = "idle" /\ began' = 0 /\ found' = {} /\ cut' = TRUE
        /\ UNCHANGED <<now, checked, told, missed, last, runs>>
    BY <1>3 DEF Fail
  <2>2. TypeOK' BY <2>1, NotifyAssumption DEF TypeOK, Time
  <2>. QED BY <2>1, <2>2 DEF TimeInv, WindowInv, OnceInv, ToldInv, FoundInv, StaleAt, Turn
<1>. QED BY <1>1, <1>2, <1>3, CheckInKeeps, StartKeeps, NotifyKeeps, EndKeeps DEF Next

LEMMA Invariant == Spec => []Inv
BY InitInv, NextInv, PTL DEF Spec

(* Type correctness: the job has hosts in hand only while it works. *)
THEOREM TypeCorrect == Spec => []TypeOK
<1>1. Inv => TypeOK BY DEF Inv
<1>. QED BY <1>1, Invariant, PTL

(* Every host that stays away has its turn, and not twice without a run    *)
(* cut short, but for the fraction of a second that the truncated window   *)
(* loses: it is told about, or passed over or not reached with a warning,  *)
(* for any resolution of time, period of the job and number of hosts       *)
(* (_last_run_time_diff_in_sec, find_stale_host_in_window, run).           *)
THEOREM NotifiedCorrect == Spec => []NotifiedOnce
<1>1. Inv => NotifiedOnce
  <2> SUFFICES ASSUME Inv, NEW h \in Host
               PROVE  /\ told[h] > 1 \/ (told[h] = 1 /\ h \in missed) => cut
                      /\ StaleAt(h) <= last /\ (\A t \in runs : StaleAt(h) \notin (t + 1)..(t + Second - 1))
                           => told[h] >= 1 \/ h \in missed
    BY DEF NotifiedOnce, StaleAt
  <2>1. told[h] \in 0..2 BY Facts DEF Inv
  <2>. QED BY <2>1 DEF Inv, OnceInv, ToldInv, Turn
<1>. QED BY <1>1, Invariant, PTL
=============================================================================
