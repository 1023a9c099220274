---------------------- MODULE AssessmentLifecycleProofs ----------------------
(***************************************************************************)
(* What AssessmentLifecycle states of the alerts and the purge, proved for *)
(* any number of requirements, systems, tabs, records and versions, any    *)
(* retention and any time.  That records expire is a matter of fairness,   *)
(* and is only model-checked.                                              *)
(***************************************************************************)
EXTENDS AssessmentLifecycle, WellFoundedInduction, TLAPS

\* Versions were created by now, and an amendment under way leaves room for its version.
LawInv ==
    \A k \in Keys :
        /\ \A v \in DOMAIN created[k] : created[k][v] <= now
        /\ amending[k] # NoTime => amending[k] <= now /\ LiveVersion(k) < MaxVersion

\* No tab has seen a version that there is not.
TabInv == \A t \in Tabs, k \in Keys : tab[t].saw[k] <= LiveVersion(k)

\* Ids and dates of records grow together.
OrderInv ==
    /\ \A r \in records : r.id <= recorded /\ r.at <= now
    /\ \A r, x \in records : r.id = x.id => r = x
    /\ \A r, x \in records : r.id <= x.id => r.at <= x.at

\* The versions that a record saw are there, and were when it was stored.
SawInv ==
    \A r \in records, k \in Keys :
        /\ r.saw[k] <= LiveVersion(k)
        /\ \A v \in 1..r.saw[k] : created[k][v] <= r.at

\* With a record, the purge takes every older one.
DoomedInv ==
    /\ \A d \in purger.doomed : d <= recorded
    /\ \A r \in records, d \in purger.doomed : r.id <= d => r.id \in purger.doomed

IInv == TypeOK /\ LawInv /\ TabInv /\ OrderInv /\ SawInv /\ DoomedInv

-----------------------------------------------------------------------------
(* Lemmas *)

LEMMA Constants ==
  /\ DutyKeys \subseteq Keys /\ NoName \notin Names /\ NoTime \notin Nat
  /\ Retention \in Nat /\ MaxRecords \in Nat
  /\ MaxTime \in Nat /\ MaxTime > 0 /\ MaxVersion \in Nat /\ MaxVersion > 0
  BY LifecycleAssumption

\* A nonempty set of natural numbers has a smallest element.
LEMMA SmallestNumber ==
  ASSUME NEW T, T \subseteq Nat, T # {}
  PROVE  \E x \in T : \A y \in T : x <= y
  <1>1. PICK x \in T : \A y \in T : ~(<<y, x>> \in OpToRel(<, Nat))
    BY WFMin, NatLessThanWellFounded, Zenon
  <1>2. \A y \in T : ~(y < x)
    BY <1>1 DEF OpToRel
  <1> QED
    BY <1>2

\* The order of ids finds the latest record of a system.
LEMMA LatestIs ==
  ASSUME TypeOK, NEW n, RecordsOf(n) # {}
  PROVE  /\ Latest(n) \in RecordsOf(n) /\ Latest(n) \in records /\ Latest(n).system = n
         /\ \A x \in RecordsOf(n) : x.id <= Latest(n).id
  <1> DEFINE Left == {MaxRecords - r.id : r \in RecordsOf(n)}
  <1>1. \A r \in RecordsOf(n) : r.id \in Nat /\ MaxRecords - r.id \in Nat
    BY Constants DEF TypeOK, RecordStates, RecordsOf
  <1>2. Left \subseteq Nat /\ Left # {}
    BY <1>1
  <1>3. PICK m \in Left : \A x \in Left : m <= x
    BY <1>2, SmallestNumber
  <1>4. PICK r \in RecordsOf(n) : m = MaxRecords - r.id
    BY <1>3
  <1>5. \A x \in RecordsOf(n) : x.id <= r.id
    <2> SUFFICES ASSUME NEW x \in RecordsOf(n) PROVE x.id <= r.id
      OBVIOUS
    <2>1. MaxRecords - r.id <= MaxRecords - x.id
      BY <1>3, <1>4
    <2> QED
      BY <1>1, <2>1, Constants
  <1>6. Latest(n) \in RecordsOf(n) /\ \A x \in RecordsOf(n) : x.id <= Latest(n).id
    BY <1>5 DEF Latest
  <1> QED
    BY <1>6 DEF RecordsOf

LEMMA ElementOf ==
  ASSUME NEW S, NEW s \in Seq(S), NEW i \in DOMAIN s
  PROVE  s[i] \in S
  OBVIOUS

LatestFound ==
    \A n \in Names : RecordsOf(n) # {} =>
        Latest(n) \in RecordsOf(n) /\ \A x \in RecordsOf(n) : x.id <= Latest(n).id

LEMMA LatestIsPrimed == TypeOK' => LatestFound'
  <1>1. TypeOK => LatestFound
    BY LatestIs DEF LatestFound
  <1> QED
    BY <1>1, PTL

LEMMA Numbers ==
  ASSUME TypeOK
  PROVE  /\ now \in Nat /\ now <= MaxTime /\ recorded \in Nat /\ recorded <= MaxRecords
         /\ \A k \in Keys : LiveVersion(k) \in Nat /\ LiveVersion(k) <= MaxVersion
                            /\ DOMAIN created[k] = 1..LiveVersion(k)
         /\ \A r \in records : /\ r.id \in Nat /\ r.at \in Nat
                               /\ \A k \in Keys : r.saw[k] \in Nat
         /\ \A t \in Tabs, k \in Keys : tab[t].saw[k] \in Nat
  <1>1. \A k \in Keys : created[k] \in Seq(0..MaxTime)
    BY DEF TypeOK
  <1>2. \A k \in Keys : LiveVersion(k) \in Nat /\ DOMAIN created[k] = 1..LiveVersion(k)
    <2> SUFFICES ASSUME NEW k \in Keys
                 PROVE  Len(created[k]) \in Nat /\ DOMAIN created[k] = 1..Len(created[k])
      BY DEF LiveVersion
    <2>1. created[k] \in Seq(0..MaxTime)
      BY <1>1
    <2> QED
      BY <2>1
  <1> QED
    BY <1>2, Constants DEF TypeOK, RecordStates, TabStates

\* What has happened by now has happened by the next instant.
LEMMA TimePasses ==
  ASSUME IInv, StampTaken
  PROVE  /\ now' \in 0..MaxTime /\ now <= now'
         /\ \A r \in records : r.at <= now'
         /\ \A k \in Keys : \A v \in DOMAIN created[k] : created[k][v] <= now'
         /\ \A k \in Keys : amending[k] # NoTime => amending[k] <= now'
  <1>1. now \in Nat /\ now' = now + 1 /\ now' \in 0..MaxTime
    BY Numbers, Constants DEF IInv, StampTaken
  <1>2. \A i \in Nat : i <= now => i <= now'
    BY <1>1
  <1>3. ASSUME NEW r \in records PROVE r.at <= now'
    BY <1>2, Numbers DEF IInv, OrderInv
  <1>4. ASSUME NEW k \in Keys, NEW v \in DOMAIN created[k] PROVE created[k][v] <= now'
    <2>1. created[k] \in Seq(0..MaxTime)
      BY DEF IInv, TypeOK
    <2>2. created[k][v] \in 0..MaxTime
      BY <2>1, ElementOf
    <2> QED
      BY <1>2, <2>2 DEF IInv, LawInv
  <1>5. ASSUME NEW k \in Keys, amending[k] # NoTime PROVE amending[k] <= now'
    <2>1. amending[k] \in 0..MaxTime /\ amending[k] <= now
      BY <1>5 DEF IInv, TypeOK, LawInv
    <2> QED
      BY <1>2, <2>1
  <1> QED
    BY <1>1, <1>3, <1>4, <1>5

-----------------------------------------------------------------------------
(* The tabs *)

LEMMA InitIInv == Init => IInv
  <1> SUFFICES ASSUME Init PROVE IInv
    OBVIOUS
  <1>1. \A k \in Keys : created[k] = <<0>> /\ LiveVersion(k) = 1 /\ DOMAIN created[k] = {1}
    <2> SUFFICES ASSUME NEW k \in Keys
                 PROVE  created[k] = <<0>> /\ Len(created[k]) = 1 /\ DOMAIN created[k] = {1}
      BY DEF LiveVersion
    <2>1. created[k] = <<0>>
      BY DEF Init
    <2> QED
      BY <2>1
  <1>2. BlankTab \in TabStates
    BY Constants DEF BlankTab, TabStates, Unread
  <1>3. TypeOK
    BY <1>1, <1>2, Constants DEF Init, TypeOK
  <1>4. LawInv
    <2> SUFFICES ASSUME NEW k \in Keys
                 PROVE  (\A v \in DOMAIN created[k] : created[k][v] <= now) /\ amending[k] = NoTime
      BY DEF LawInv
    <2>1. created[k] = <<0>> /\ DOMAIN created[k] = {1} /\ now = 1
      BY <1>1 DEF Init
    <2>2. amending[k] = NoTime
      BY DEF Init
    <2> QED
      BY <2>1, <2>2
  <1>5. TabInv
    <2> SUFFICES ASSUME NEW t \in Tabs, NEW k \in Keys
                 PROVE  tab[t].saw[k] <= LiveVersion(k)
      BY DEF TabInv
    <2>1. tab[t].saw[k] = 0
      BY DEF Init, BlankTab, Unread
    <2>2. LiveVersion(k) = 1
      BY <1>1
    <2> QED
      BY <2>1, <2>2
  <1>6. OrderInv /\ SawInv /\ DoomedInv
    BY DEF Init, OrderInv, SawInv, DoomedInv
  <1> QED
    BY <1>3, <1>4, <1>5, <1>6 DEF IInv

\* Steps of a tab that store nothing: whatever it now holds has been seen.
LEMMA TabKeeps ==
  ASSUME IInv, NEW t \in Tabs, NEW new \in TabStates,
         tab' = [tab EXCEPT ![t] = new],
         \A k \in Keys : new.saw[k] <= LiveVersion(k),
         UNCHANGED <<now, law, store, purger>>
  PROVE  IInv'
  <1>1. \A u \in Tabs : tab'[u] = IF u = t THEN new ELSE tab[u]
    BY DEF IInv, TypeOK
  <1>2. TypeOK'
    BY DEF IInv, TypeOK, law, store, LiveVersion
  <1>3. LawInv' /\ OrderInv' /\ SawInv' /\ DoomedInv'
    BY DEF IInv, LawInv, OrderInv, SawInv, DoomedInv, law, store, LiveVersion
  <1>4. TabInv'
    BY <1>1 DEF IInv, TabInv, law, LiveVersion
  <1> QED
    BY <1>2, <1>3, <1>4 DEF IInv

LEMMA BlankFits ==
  ASSUME TypeOK
  PROVE  BlankTab \in TabStates /\ BlankTab.pc = "blank" /\ \A k \in Keys : BlankTab.saw[k] <= LiveVersion(k)
  BY Numbers, Constants DEF BlankTab, TabStates, Unread

LEMMA AssessKeeps == ASSUME IInv, NEW t \in Tabs, Assess(t) PROVE IInv'
  <1>1. PICK n \in Names \cup {NoName} :
          tab' = [tab EXCEPT ![t] = [BlankTab EXCEPT !.pc = "classifying", !.name = n]]
    BY DEF Assess
  <1> DEFINE new == [BlankTab EXCEPT !.pc = "classifying", !.name = n]
  <1>2. new \in TabStates /\ new.pc = "classifying" /\ new.saw = BlankTab.saw
    BY BlankFits DEF IInv, BlankTab, TabStates
  <1> HIDE DEF new
  <1>3. tab' = [tab EXCEPT ![t] = new]
    BY <1>1 DEF new
  <1> QED
    BY <1>2, <1>3, BlankFits, TabKeeps DEF IInv, Assess

LEMMA RetrieveKeeps == ASSUME IInv, NEW t \in Tabs, Retrieve(t) PROVE IInv'
  <1>1. PICK k \in Keys : tab' = [tab EXCEPT ![t].saw[k] = LiveVersion(k)]
    BY DEF Retrieve
  <1> DEFINE new == [tab[t] EXCEPT !.saw = [@ EXCEPT ![k] = LiveVersion(k)]]
  <1>2. tab[t] \in TabStates /\ LiveVersion(k) \in 0..MaxVersion
    BY Numbers, Constants DEF IInv, TypeOK
  <1>3. new \in TabStates /\ new.pc = tab[t].pc /\ new.saw = [tab[t].saw EXCEPT ![k] = LiveVersion(k)]
    BY <1>2 DEF TabStates
  <1>4. \A x \in Keys : new.saw[x] <= LiveVersion(x)
    BY <1>2, <1>3, Numbers DEF IInv, TabInv, TabStates
  <1>5. tab' = [tab EXCEPT ![t] = new]
    BY <1>1
  <1>6. tab[t].pc = "classifying"
    BY DEF Retrieve
  <1> HIDE DEF new
  <1> QED
    BY <1>3, <1>4, <1>5, <1>6, TabKeeps DEF Retrieve

LEMMA SawOfFits ==
  ASSUME TypeOK, NEW saw \in [Keys -> 0..MaxVersion], \A k \in Keys : saw[k] <= LiveVersion(k), NEW ks
  PROVE  SawOf(saw, ks) \in [Keys -> 0..MaxVersion] /\ \A k \in Keys : SawOf(saw, ks)[k] <= LiveVersion(k)
  BY Numbers, Constants DEF SawOf

LEMMA ClassifiedKeeps == ASSUME IInv, NEW t \in Tabs, Classified(t) PROVE IInv'
  <1>1. PICK cited \in SUBSET Keys, highRisk \in BOOLEAN :
          tab' = [tab EXCEPT ![t].pc = "form", ![t].cited = cited, ![t].highRisk = highRisk,
                             ![t].saw = SawOf(@, cited)]
    BY DEF Classified
  <1> DEFINE saw == SawOf(tab[t].saw, cited)
             new == [tab[t] EXCEPT !.pc = "form", !.cited = cited, !.highRisk = highRisk, !.saw = saw]
  <1>2. tab[t] \in TabStates
    BY DEF IInv, TypeOK
  <1>3. saw \in [Keys -> 0..MaxVersion] /\ \A k \in Keys : saw[k] <= LiveVersion(k)
    BY <1>2, SawOfFits DEF IInv, TabInv, TabStates
  <1>4. tab' = [tab EXCEPT ![t] = new]
    BY <1>1, <1>2 DEF TabStates
  <1> HIDE DEF saw
  <1>5. new \in TabStates /\ new.pc = "form" /\ new.saw = saw
    BY <1>2, <1>3 DEF TabStates
  <1> HIDE DEF new
  <1> QED
    BY <1>3, <1>4, <1>5, TabKeeps DEF Classified

LEMMA BlankKeeps ==
  ASSUME IInv, NEW t \in Tabs, ClassifyFails(t) \/ CloseTab(t)
  PROVE  IInv'
  BY BlankFits, TabKeeps DEF IInv, ClassifyFails, CloseTab

\* The form page, as a report leaves it.
LEMMA FormFits ==
  ASSUME IInv, NEW t \in Tabs, BackToForm(t)
  PROVE  \E new \in TabStates : /\ tab' = [tab EXCEPT ![t] = new] /\ new.pc = "form"
                                /\ \A k \in Keys : new.saw[k] <= LiveVersion(k)
  <1> DEFINE saw == SawOf(tab[t].saw, tab[t].cited)
             new == [tab[t] EXCEPT !.pc = "form", !.duties = {}, !.saw = saw]
  <1>1. tab[t] \in TabStates
    BY DEF IInv, TypeOK
  <1>2. saw \in [Keys -> 0..MaxVersion] /\ \A k \in Keys : saw[k] <= LiveVersion(k)
    BY <1>1, SawOfFits DEF IInv, TabInv, TabStates
  <1>3. tab' = [tab EXCEPT ![t] = new]
    BY <1>1 DEF TabStates, BackToForm
  <1> HIDE DEF saw
  <1>4. new \in TabStates /\ new.pc = "form" /\ new.saw = saw
    BY <1>1, <1>2 DEF TabStates
  <1> HIDE DEF new
  <1> QED
    BY <1>2, <1>3, <1>4

LEMMA ReportLostKeeps == ASSUME IInv, NEW t \in Tabs, ReportLost(t) PROVE IInv'
  <1>1. BackToForm(t) /\ UNCHANGED <<now, law, store, purger>>
    BY DEF ReportLost
  <1> QED
    BY <1>1, FormFits, TabKeeps

-----------------------------------------------------------------------------
(* The report *)

LEMMA ReportStartKeeps == ASSUME IInv, NEW t \in Tabs, ReportStart(t) PROVE IInv'
  <1> DEFINE duties == IF tab[t].highRisk THEN DutyKeys ELSE {}
             saw == [k \in Keys |-> IF k \in duties \ tab[t].cited THEN LiveVersion(k) ELSE tab[t].saw[k]]
             new == [tab[t] EXCEPT !.pc = "reporting", !.duties = duties, !.saw = saw]
  <1>1. tab[t] \in TabStates /\ duties \subseteq Keys
    BY Constants DEF IInv, TypeOK
  <1>2. saw \in [Keys -> 0..MaxVersion] /\ \A k \in Keys : saw[k] <= LiveVersion(k)
    <2>1. \A k \in Keys : LiveVersion(k) \in 0..MaxVersion /\ tab[t].saw[k] \in 0..MaxVersion
                          /\ tab[t].saw[k] <= LiveVersion(k) /\ LiveVersion(k) <= LiveVersion(k)
      <3> SUFFICES ASSUME NEW k \in Keys
                   PROVE  LiveVersion(k) \in 0..MaxVersion /\ tab[t].saw[k] \in 0..MaxVersion
                          /\ tab[t].saw[k] <= LiveVersion(k) /\ LiveVersion(k) <= LiveVersion(k)
        OBVIOUS
      <3>1. tab[t].saw[k] \in 0..MaxVersion /\ tab[t].saw[k] <= LiveVersion(k)
        BY <1>1 DEF IInv, TabInv, TabStates
      <3>2. LiveVersion(k) \in Nat /\ LiveVersion(k) <= MaxVersion
        BY Numbers DEF IInv
      <3> QED
        BY <3>1, <3>2, Constants
    <2> HIDE DEF duties
    <2> QED
      BY <2>1
  <1>3. tab' = [tab EXCEPT ![t] = new]
    BY <1>1 DEF TabStates, ReportStart
  <1> HIDE DEF saw, duties
  <1>4. new \in TabStates /\ new.saw = saw
    BY <1>1, <1>2 DEF TabStates
  <1> HIDE DEF new
  <1> QED
    BY <1>2, <1>3, <1>4, TabKeeps DEF ReportStart

\* What the stored record saw was there by now, which is its date.
LEMMA StoreKeeps == ASSUME IInv, NEW t \in Tabs, Store(t) PROVE IInv'
  <1> DEFINE keys == tab[t].cited \cup tab[t].duties
             r == [id |-> recorded + 1, system |-> tab[t].name, at |-> now, keys |-> keys,
                   saw |-> tab[t].saw, overtaken |-> \E k \in keys : tab[t].saw[k] < LiveVersion(k)]
  <1>1. /\ tab[t].pc = "reporting" /\ recorded < MaxRecords
        /\ records' = records \cup {r} /\ recorded' = recorded + 1
        /\ StampTaken /\ BackToForm(t)
        /\ UNCHANGED <<law, purger>>
    BY DEF Store
  <1>2. PICK new \in TabStates : /\ tab' = [tab EXCEPT ![t] = new] /\ new.pc = "form"
                                 /\ \A k \in Keys : new.saw[k] <= LiveVersion(k)
    BY <1>1, FormFits
  <1>3. \A u \in Tabs : tab'[u] = IF u = t THEN new ELSE tab[u]
    BY <1>2 DEF IInv, TypeOK
  <1>4. recorded \in Nat /\ recorded + 1 \in 1..MaxRecords /\ recorded + 1 \in 0..MaxRecords
    BY <1>1, Numbers, Constants DEF IInv
  <1>5. r \in RecordStates
    BY <1>4 DEF IInv, TypeOK, TabStates, RecordStates
  <1>6. r.id = recorded + 1 /\ r.at = now /\ r.saw = tab[t].saw
    OBVIOUS
  <1> HIDE DEF r
  <1>7. TypeOK'
    BY <1>1, <1>2, <1>4, <1>5, TimePasses DEF IInv, TypeOK, law, LiveVersion
  <1>8. LawInv' /\ TabInv'
    <2>1. LawInv'
      BY <1>1, TimePasses DEF IInv, LawInv, law, LiveVersion
    <2>2. TabInv'
      BY <1>1, <1>2, <1>3 DEF IInv, TabInv, law, LiveVersion
    <2> QED
      BY <2>1, <2>2
  <1>9. \A x \in records : /\ x.id \in Nat /\ x.at \in Nat /\ x.id <= recorded /\ x.at <= now
                           /\ x.id # recorded + 1 /\ ~(recorded + 1 <= x.id) /\ x.id <= recorded + 1
    <2>1. \A x \in records : x.id \in Nat /\ x.at \in Nat /\ x.id <= recorded /\ x.at <= now
      BY Numbers DEF IInv, OrderInv
    <2> QED
      BY <1>4, <2>1
  <1>10. OrderInv'
    <2>0. now \in Nat /\ now <= now /\ recorded + 1 <= recorded + 1
          /\ now <= now' /\ \A x \in records : x.at <= now'
      BY <1>1, <1>4, Numbers, TimePasses DEF IInv
    <2>1. \A x \in records' : x.id <= recorded' /\ x.at <= now'
      BY <1>1, <1>6, <1>9, <2>0
    <2>2. \A x, y \in records' : x.id = y.id => x = y
      BY <1>1, <1>6, <1>9 DEF IInv, OrderInv
    <2>3. \A x, y \in records' : x.id <= y.id => x.at <= y.at
      BY <1>1, <1>6, <1>9, <2>0 DEF IInv, OrderInv
    <2> QED
      BY <2>1, <2>2, <2>3 DEF OrderInv
  <1>11. SawInv'
    <2>1. ASSUME NEW k \in Keys
          PROVE  r.saw[k] <= LiveVersion(k) /\ \A v \in 1..r.saw[k] : created[k][v] <= r.at
      <3>1. tab[t].saw[k] <= LiveVersion(k) /\ \A v \in 1..LiveVersion(k) : created[k][v] <= now
        BY Numbers DEF IInv, TabInv, LawInv
      <3>2. \A v \in 1..tab[t].saw[k] : v \in 1..LiveVersion(k)
        BY <3>1, Numbers DEF IInv
      <3> QED
        BY <1>6, <3>1, <3>2
    <2> QED
      BY <1>1, <2>1 DEF IInv, SawInv, law, LiveVersion
  <1>12. DoomedInv'
    <2>1. \A d \in purger.doomed : d \in Nat /\ d <= recorded
      BY DEF IInv, DoomedInv, TypeOK
    <2>2. \A d \in purger.doomed : d <= recorded + 1 /\ ~(recorded + 1 <= d)
      BY <1>4, <2>1
    <2> QED
      BY <1>1, <1>6, <2>2 DEF IInv, DoomedInv
  <1> QED
    BY <1>7, <1>8, <1>10, <1>11, <1>12 DEF IInv

-----------------------------------------------------------------------------
(* The law *)

\* The records, the tabs and the purge, while the law grows.
LEMMA LawGrowsKeepsRest ==
  ASSUME IInv, now' = now \/ StampTaken, UNCHANGED <<tab, store, purger>>,
         \A k \in Keys : LiveVersion(k) <= LiveVersion(k)' /\ LiveVersion(k)' \in Nat,
         \A k \in Keys : \A v \in 1..LiveVersion(k) : created'[k][v] = created[k][v]
  PROVE  TabInv' /\ OrderInv' /\ SawInv' /\ DoomedInv'
  <1>1. OrderInv' /\ DoomedInv'
    BY TimePasses DEF IInv, OrderInv, DoomedInv, store
  <1>2. TabInv'
    <2> SUFFICES ASSUME NEW t \in Tabs, NEW k \in Keys PROVE tab[t].saw[k] <= LiveVersion(k)'
      BY DEF TabInv
    <2>1. /\ tab[t].saw[k] \in Nat /\ LiveVersion(k) \in Nat
          /\ tab[t].saw[k] <= LiveVersion(k) /\ LiveVersion(k) <= LiveVersion(k)' /\ LiveVersion(k)' \in Nat
      BY Numbers DEF IInv, TabInv
    <2> QED
      BY <2>1
  <1>3. SawInv'
    <2> SUFFICES ASSUME NEW r \in records, NEW k \in Keys
                 PROVE  r.saw[k] <= LiveVersion(k)' /\ \A v \in 1..r.saw[k] : created'[k][v] <= r.at
      BY DEF SawInv, store
    <2>1. /\ r.saw[k] \in Nat /\ LiveVersion(k) \in Nat
          /\ r.saw[k] <= LiveVersion(k) /\ LiveVersion(k) <= LiveVersion(k)' /\ LiveVersion(k)' \in Nat
      BY Numbers DEF IInv, SawInv
    <2>2. r.saw[k] <= LiveVersion(k)' /\ \A v \in 1..r.saw[k] : v \in 1..LiveVersion(k)
      BY <2>1
    <2> QED
      BY <2>2 DEF IInv, SawInv
  <1> QED
    BY <1>1, <1>2, <1>3

\* The flush of an amendment, its rollback, and time alone, write no version.
LEMMA NoVersionKeeps ==
  ASSUME IInv, now' = now \/ StampTaken, UNCHANGED <<created, tab, store, purger>>,
         amending' \in [Keys -> 0..MaxTime \cup {NoTime}],
         \A k \in Keys : amending'[k] = amending[k] \/ amending'[k] = NoTime
                         \/ (amending'[k] = now /\ LiveVersion(k) < MaxVersion)
  PROVE  IInv'
  <1>1. \A x \in Keys : /\ LiveVersion(x) \in Nat /\ LiveVersion(x)' = LiveVersion(x)
                        /\ LiveVersion(x) <= LiveVersion(x)
    <2>1. \A x \in Keys : LiveVersion(x) \in Nat
      BY Numbers DEF IInv
    <2>2. \A x \in Keys : LiveVersion(x)' = LiveVersion(x)
      BY DEF LiveVersion
    <2> QED
      BY <2>1, <2>2
  <1>2. now <= now' /\ now' \in 0..MaxTime
    <2>1. now' = now => now <= now' /\ now' \in 0..MaxTime
      BY Numbers DEF IInv, TypeOK
    <2> QED
      BY <2>1, TimePasses
  <1>3. TypeOK'
    BY <1>1, <1>2 DEF IInv, TypeOK, store
  <1>4. LawInv'
    BY <1>1, <1>2, TimePasses DEF IInv, LawInv
  <1>5. TabInv' /\ OrderInv' /\ SawInv' /\ DoomedInv'
    BY <1>1, LawGrowsKeepsRest
  <1> QED
    BY <1>3, <1>4, <1>5 DEF IInv

LEMMA AmendKeeps ==
  ASSUME IInv, NEW k \in Keys, AmendFlush(k) \/ AmendRollback(k)
  PROVE  IInv'
  <1>1. UNCHANGED <<created, tab, store, purger>> /\ (now' = now \/ StampTaken)
    BY DEF AmendFlush, AmendRollback
  <1>2. \A x \in Keys : amending'[x] = amending[x] \/ amending'[x] = NoTime
                        \/ (amending'[x] = now /\ LiveVersion(x) < MaxVersion)
    BY DEF IInv, TypeOK, AmendFlush, AmendRollback
  <1>3. amending' \in [Keys -> 0..MaxTime \cup {NoTime}]
    BY DEF IInv, TypeOK, AmendFlush, AmendRollback
  <1> QED
    BY <1>1, <1>2, <1>3, NoVersionKeeps

LEMMA AmendCommitKeeps == ASSUME IInv, NEW k \in Keys, AmendCommit(k) PROVE IInv'
  <1>1. /\ amending[k] \in 0..MaxTime /\ amending[k] <= now /\ LiveVersion(k) < MaxVersion
        /\ UNCHANGED <<now, tab, store, purger>>
    BY DEF IInv, TypeOK, LawInv, AmendCommit
  <1>2. /\ created[k] \in Seq(0..MaxTime) /\ created'[k] = Append(created[k], amending[k])
        /\ \A x \in Keys \ {k} : created'[x] = created[x]
    BY DEF IInv, TypeOK, AmendCommit
  <1>3. /\ created'[k] \in Seq(0..MaxTime)
        /\ Len(created'[k]) = Len(created[k]) + 1 /\ Len(created[k]) \in Nat
        /\ \A v \in 1..Len(created[k]) : created'[k][v] = created[k][v]
        /\ created'[k][Len(created[k]) + 1] = amending[k]
        /\ DOMAIN created'[k] = 1..(Len(created[k]) + 1)
    BY <1>1, <1>2
  <1>4. /\ LiveVersion(k)' = LiveVersion(k) + 1 /\ LiveVersion(k) \in Nat
        /\ \A x \in Keys \ {k} : LiveVersion(x)' = LiveVersion(x) /\ LiveVersion(x) \in Nat
    BY <1>2, <1>3, Numbers DEF IInv, LiveVersion
  <1>5. \A x \in Keys : /\ LiveVersion(x) <= LiveVersion(x)' /\ LiveVersion(x)' \in Nat
                        /\ LiveVersion(x)' <= MaxVersion
    <2> SUFFICES ASSUME NEW x \in Keys
                 PROVE  /\ LiveVersion(x) <= LiveVersion(x)' /\ LiveVersion(x)' \in Nat
                        /\ LiveVersion(x)' <= MaxVersion
      OBVIOUS
    <2>1. LiveVersion(x) <= MaxVersion /\ MaxVersion \in Nat
      BY Numbers, Constants DEF IInv
    <2> QED
      BY <1>1, <1>4, <2>1
  <1>6. \A x \in Keys : \A v \in 1..LiveVersion(x) : created'[x][v] = created[x][v]
    BY <1>2, <1>3 DEF LiveVersion
  <1>7. TypeOK'
    <2>1. created' \in [Keys -> Seq(0..MaxTime)]
      BY <1>2, <1>3 DEF IInv, TypeOK, AmendCommit
    <2>2. amending' \in [Keys -> 0..MaxTime \cup {NoTime}]
      BY DEF IInv, TypeOK, AmendCommit
    <2> QED
      BY <1>1, <1>5, <2>1, <2>2 DEF IInv, TypeOK, store
  <1>8. LawInv'
    <2> SUFFICES ASSUME NEW x \in Keys
                 PROVE  /\ \A v \in DOMAIN created'[x] : created'[x][v] <= now
                        /\ amending'[x] # NoTime => amending'[x] <= now /\ LiveVersion(x)' < MaxVersion
      BY <1>1 DEF LawInv
    <2>1. CASE x = k
      <3>1. amending'[k] = NoTime
        BY DEF IInv, TypeOK, AmendCommit
      <3>2. \A v \in 1..Len(created[k]) : created[k][v] <= now
        BY <1>2 DEF IInv, LawInv
      <3>3. \A v \in 1..(Len(created[k]) + 1) : v \in 1..Len(created[k]) \/ v = Len(created[k]) + 1
        BY <1>3
      <3> QED
        BY <1>1, <1>3, <2>1, <3>1, <3>2, <3>3
    <2>2. CASE x # k
      BY <1>2, <1>4, <2>2 DEF IInv, LawInv, TypeOK, AmendCommit
    <2> QED
      BY <2>1, <2>2
  <1>9. TabInv' /\ OrderInv' /\ SawInv' /\ DoomedInv'
    BY <1>1, <1>5, <1>6, LawGrowsKeepsRest
  <1> QED
    BY <1>7, <1>8, <1>9 DEF IInv

-----------------------------------------------------------------------------
(* Retention and time *)

\* With an expired record every older one is expired.
LEMMA PurgeSelectKeeps == ASSUME IInv, PurgeSelect PROVE IInv'
  <1> DEFINE doomed == {r.id : r \in {x \in records : x.at + Retention < now}}
  <1>1. purger' = [pc |-> "selected", doomed |-> doomed] /\ UNCHANGED <<now, law, tab, store>>
    BY DEF PurgeSelect
  <1>2. doomed \subseteq 1..MaxRecords
    BY DEF IInv, TypeOK, RecordStates
  <1>3. \A d \in doomed : d <= recorded
    BY DEF IInv, OrderInv
  <1>4. \A r \in records, d \in doomed : r.id <= d => r.id \in doomed
    <2> SUFFICES ASSUME NEW r \in records, NEW x \in records, x.at + Retention < now, r.id <= x.id
                 PROVE  r.at + Retention < now
      OBVIOUS
    <2>1. r.at <= x.at
      BY DEF IInv, OrderInv
    <2>2. r.at \in Nat /\ x.at \in Nat /\ now \in Nat /\ Retention \in Nat
      BY Numbers, Constants DEF IInv
    <2> QED
      BY <2>1, <2>2
  <1> HIDE DEF doomed
  <1>5. TypeOK'
    BY <1>1, <1>2 DEF IInv, TypeOK, law, store, LiveVersion
  <1>6. DoomedInv'
    BY <1>1, <1>3, <1>4 DEF DoomedInv, store
  <1>7. LawInv' /\ TabInv' /\ OrderInv' /\ SawInv'
    BY <1>1 DEF IInv, LawInv, TabInv, OrderInv, SawInv, law, store, LiveVersion
  <1> QED
    BY <1>5, <1>6, <1>7 DEF IInv

\* Records go, and the purge goes on with what it selected or with nothing.
LEMMA FewerRecordsKeep ==
  ASSUME IInv, records' \subseteq records, UNCHANGED <<now, law, tab, recorded>>,
         purger' \in [pc: {"idle", "selected"}, doomed: SUBSET (1..MaxRecords)],
         purger'.doomed = purger.doomed \/ purger'.doomed = {}
  PROVE  IInv'
  <1>1. TypeOK'
    BY DEF IInv, TypeOK, law, LiveVersion
  <1>2. LawInv' /\ TabInv' /\ OrderInv' /\ SawInv'
    BY DEF IInv, LawInv, TabInv, OrderInv, SawInv, law, LiveVersion
  <1>3. DoomedInv'
    BY DEF IInv, DoomedInv
  <1> QED
    BY <1>1, <1>2, <1>3 DEF IInv

LEMMA PurgeEndsKeeps == ASSUME IInv, PurgeCommit \/ PurgeDies \/ Delete PROVE IInv'
  <1>1. records' \subseteq records /\ UNCHANGED <<now, law, tab, recorded>>
    BY DEF PurgeCommit, PurgeDies, Delete, store
  <1>2. /\ purger' \in [pc: {"idle", "selected"}, doomed: SUBSET (1..MaxRecords)]
        /\ purger'.doomed = purger.doomed \/ purger'.doomed = {}
    BY DEF IInv, TypeOK, PurgeCommit, PurgeDies, Delete
  <1> QED
    BY <1>1, <1>2, FewerRecordsKeep

LEMMA TickKeeps == ASSUME IInv, Tick PROVE IInv'
  <1>1. StampTaken /\ UNCHANGED <<created, amending, tab, store, purger>>
    BY DEF Tick, StampTaken, law
  <1>2. amending' \in [Keys -> 0..MaxTime \cup {NoTime}]
    BY <1>1 DEF IInv, TypeOK
  <1> QED
    BY <1>1, <1>2, NoVersionKeeps

LEMMA StutterKeeps == ASSUME IInv, UNCHANGED vars PROVE IInv'
  BY DEF IInv, TypeOK, LawInv, TabInv, OrderInv, SawInv, DoomedInv, LiveVersion, vars, law, store

LEMMA NextKeeps == ASSUME IInv, [Next]_vars PROVE IInv'
  BY AssessKeeps, RetrieveKeeps, ClassifiedKeeps, BlankKeeps, ReportStartKeeps, StoreKeeps, ReportLostKeeps,
     AmendKeeps, AmendCommitKeeps, PurgeSelectKeeps, PurgeEndsKeeps, TickKeeps, StutterKeeps
     DEF Next, TabNext, AmendNext, PurgeNext

LEMMA Invariance == Spec => []IInv
  <1>1. IInv /\ [Next]_vars => IInv'
    BY NextKeeps
  <1> QED
    BY InitIInv, <1>1, PTL DEF Spec

-----------------------------------------------------------------------------
(* The theorems *)

\* The state keeps its types.
THEOREM TypeCorrect == Spec => []TypeOK
  <1>1. IInv => TypeOK
    BY DEF IInv
  <1> QED
    BY Invariance, <1>1, PTL

\* find_outdated_requirement_keys raises no false alarm: what was created after the record is
\* beyond the versions it saw.
THEOREM AlertSoundHolds == Spec => []AlertSound
  <1>1. ASSUME IInv, NEW n \in Names, RecordsOf(n) # {}, NEW k \in OutdatedKeys(Latest(n)), k \in Keys
        PROVE  Latest(n).saw[k] < LiveVersion(k)
    <2> DEFINE r == Latest(n)
    <2>1. r \in records
      BY <1>1, LatestIs DEF IInv
    <2> HIDE DEF r
    <2>2. PICK v \in DOMAIN created[k] : created[k][v] > r.at
      BY <1>1 DEF OutdatedKeys, r
    <2>3. /\ v \in 1..LiveVersion(k) /\ LiveVersion(k) \in Nat /\ r.saw[k] \in Nat /\ r.at \in Nat
          /\ created[k][v] \in Nat
      <3>1. created[k] \in Seq(0..MaxTime)
        BY <1>1 DEF IInv, TypeOK
      <3>2. created[k][v] \in 0..MaxTime
        BY <3>1, ElementOf
      <3> QED
        BY <1>1, <2>1, <3>2, Numbers DEF IInv
    <2>4. v \in 1..r.saw[k] => created[k][v] <= r.at
      BY <1>1, <2>1 DEF IInv, SawInv
    <2>5. v > r.saw[k]
      BY <2>2, <2>3, <2>4
    <2> QED
      BY <2>3, <2>5 DEF r
  <1>2. ASSUME IInv, NEW n \in Names, RecordsOf(n) # {} PROVE OutdatedKeys(Latest(n)) \subseteq Keys
    BY <1>2, LatestIs DEF IInv, TypeOK, RecordStates, OutdatedKeys, CitedBy
  <1>3. IInv => AlertSound
    BY <1>1, <1>2 DEF AlertSound, Alerted
  <1> QED
    BY Invariance, <1>3, PTL

\* Only the commit of an amendment writes versions.
LEMMA LawWriters ==
  ASSUME [Next]_vars
  PROVE  (\E k \in Keys : AmendCommit(k)) \/ created' = created
  <1>1. ASSUME NEW t \in Tabs, TabNext(t) PROVE UNCHANGED law
    <2>1. Assess(t) \/ Retrieve(t) \/ Classified(t) \/ ClassifyFails(t) => UNCHANGED law
      BY Zenon DEF Assess, Retrieve, Classified, ClassifyFails
    <2>2. CloseTab(t) \/ ReportStart(t) \/ Store(t) \/ ReportLost(t) => UNCHANGED law
      BY Zenon DEF CloseTab, ReportStart, Store, ReportLost
    <2> QED
      BY <1>1, <2>1, <2>2 DEF TabNext
  <1>2. ASSUME NEW k \in Keys, AmendNext(k), ~AmendCommit(k) PROVE created' = created
    BY <1>2 DEF AmendNext, AmendFlush, AmendRollback
  <1>3. ASSUME PurgeNext \/ Delete \/ Tick PROVE UNCHANGED law
    BY <1>3 DEF PurgeNext, PurgeSelect, PurgeCommit, PurgeDies, Delete, Tick
  <1> QED
    BY <1>1, <1>2, <1>3 DEF Next, vars, law

\* What was created stays created.
LEMMA VersionsStay ==
  ASSUME IInv, [Next]_vars, NEW k \in Keys, NEW v \in DOMAIN created[k]
  PROVE  v \in DOMAIN created'[k] /\ created'[k][v] = created[k][v]
  <1>1. created[k] \in Seq(0..MaxTime)
    BY DEF IInv, TypeOK
  <1>2. CASE \E x \in Keys : AmendCommit(x)
    <2>1. PICK x \in Keys : AmendCommit(x)
      BY <1>2
    <2>2. created'[k] = created[k] \/ created'[k] = Append(created[k], amending[k])
      BY <2>1 DEF IInv, TypeOK, AmendCommit
    <2> QED
      BY <1>1, <2>2
  <1>3. CASE created' = created
    BY <1>3
  <1> QED
    BY <1>2, <1>3, LawWriters

\* A flag stays as long as the record it is about is the latest one.
THEOREM AlertPersistsHolds == Spec => AlertPersists
  <1> DEFINE Step == \A n \in Names :
               Alerted(n) /\ ~Alerted(n)' => RecordsOf(n)' = {} \/ Latest(n)' # Latest(n)
  <1>1. ASSUME IInv, [Next]_vars PROVE Step
    <2> SUFFICES ASSUME NEW n \in Names, Alerted(n), RecordsOf(n)' # {}, Latest(n)' = Latest(n)
                 PROVE  Alerted(n)'
      OBVIOUS
    <2>1. PICK k \in OutdatedKeys(Latest(n)) : TRUE
      BY DEF Alerted
    <2>2. Latest(n) \in records
      BY <1>1, LatestIs DEF IInv, Alerted
    <2>3. k \in CitedBy(Latest(n)) /\ k \in Keys
      BY <1>1, <2>1, <2>2 DEF IInv, TypeOK, RecordStates, OutdatedKeys, CitedBy
    <2>4. PICK v \in DOMAIN created[k] : created[k][v] > Latest(n).at
      BY <2>1 DEF OutdatedKeys
    <2>5. v \in DOMAIN created'[k] /\ created'[k][v] > Latest(n)'.at
      BY <1>1, <2>3, <2>4, VersionsStay
    <2>6. k \in OutdatedKeys(Latest(n))'
      BY <2>3, <2>5 DEF OutdatedKeys, CitedBy
    <2> QED
      BY <2>6 DEF Alerted
  <1> HIDE DEF Step
  <1>2. Spec => [][Step]_vars
    BY Invariance, <1>1, PTL DEF Spec
  <1> QED
    BY <1>2 DEF AlertPersists, Step

\* The purge takes the latest record of a system only with all the others.
THEOREM PurgeRevivesNothingHolds == Spec => PurgeRevivesNothing
  <1> DEFINE Step == PurgeCommit => \A n \in Names :
               (RecordsOf(n) # {} /\ RecordsOf(n)' # {}) => Latest(n)' = Latest(n)
  <1>1. ASSUME IInv, [Next]_vars PROVE Step
    <2> SUFFICES ASSUME PurgeCommit, NEW n \in Names, RecordsOf(n) # {}, RecordsOf(n)' # {}
                 PROVE  Latest(n)' = Latest(n)
      OBVIOUS
    <2>1. records' = {r \in records : r.id \notin purger.doomed}
      BY DEF PurgeCommit
    <2>2. PICK x : x \in RecordsOf(n)'
      OBVIOUS
    <2>3. x \in RecordsOf(n) /\ x \in records /\ x.id \notin purger.doomed
      BY <2>1, <2>2 DEF RecordsOf
    <2>4. Latest(n) \in RecordsOf(n) /\ Latest(n) \in records /\ x.id <= Latest(n).id
      BY <1>1, <2>3, LatestIs DEF IInv
    <2>5. Latest(n).id \notin purger.doomed
      BY <1>1, <2>3, <2>4 DEF IInv, DoomedInv
    <2>6. Latest(n) \in RecordsOf(n)'
      BY <2>1, <2>4, <2>5 DEF RecordsOf
    <2>7. TypeOK'
      BY <1>1, NextKeeps DEF IInv
    <2>8. /\ Latest(n)' \in RecordsOf(n)' /\ Latest(n).id <= Latest(n)'.id
      BY <2>6, <2>7, LatestIsPrimed DEF LatestFound
    <2>9. Latest(n)' \in RecordsOf(n) /\ Latest(n)' \in records
      BY <2>1, <2>8 DEF RecordsOf
    <2>10. Latest(n)'.id <= Latest(n).id
      BY <1>1, <2>9, LatestIs DEF IInv
    <2>11. Latest(n).id \in Nat /\ Latest(n)'.id \in Nat
      BY <1>1, <2>4, <2>9, Numbers DEF IInv
    <2>12. Latest(n).id = Latest(n)'.id
      BY <2>8, <2>10, <2>11
    <2> QED
      BY <1>1, <2>4, <2>9, <2>12 DEF IInv, OrderInv
  <1> HIDE DEF Step
  <1>2. Spec => [][Step]_vars
    BY Invariance, <1>1, PTL DEF Spec
  <1> QED
    BY <1>2 DEF PurgeRevivesNothing, Step

-----------------------------------------------------------------------------
(***************************************************************************)
(* The law the assessments live beside is the book that LegalCorpus is     *)
(* proved to implement, one source of it and already entered.              *)
(***************************************************************************)
Book == INSTANCE LawBook WITH
            Sources <- {1}, SourceOf <- [k \in Keys |-> 1],
            SeedConditions <- [k \in Keys |-> {}], SeedExceptions <- [k \in Keys |-> {}],
            NotEntered <- NoTime,
            entered <- {1},
            onFile <- [k \in Keys |-> DOMAIN created[k]],
            inForce <- [k \in Keys |-> [version |-> LiveVersion(k), conditions |-> {},
                                        exceptions |-> {}]]

\* The commit of an amendment amends the book.
LEMMA AmendCommitAmends == ASSUME IInv, NEW k \in Keys, AmendCommit(k) PROVE Book!Amend(k)
  <1>1. /\ created' = [created EXCEPT ![k] = Append(@, amending[k])]
        /\ amending[k] # NoTime
    BY DEF AmendCommit
  <1>2. created \in [Keys -> Seq(0..MaxTime)] /\ created[k] \in Seq(0..MaxTime)
    BY DEF IInv, TypeOK
  <1>3. LiveVersion(k) < MaxVersion /\ LiveVersion(k) \in Nat
    BY <1>1, <1>2 DEF IInv, LawInv, LiveVersion
  <1>4. amending[k] \in 0..MaxTime
    BY <1>1 DEF IInv, TypeOK
  <1>5. /\ LiveVersion(k)' = LiveVersion(k) + 1
        /\ (DOMAIN created[k])' = DOMAIN created[k] \cup {LiveVersion(k) + 1}
    BY <1>1, <1>2, <1>4 DEF LiveVersion
  <1>6. \A j \in Keys \ {k} : /\ LiveVersion(j)' = LiveVersion(j)
                               /\ (DOMAIN created[j])' = DOMAIN created[j]
    BY <1>1, <1>2 DEF LiveVersion
  <1> QED
    BY <1>3, <1>5, <1>6 DEF Book!Amend

\* Requests, purges, deletions and amendments that are rolled back change nothing that a
\* law book shows; an amendment's commit does to it what supersede_requirement does.
THEOREM LawChangesByTheBook == Spec => [][\E k \in Keys : Book!Amend(k)]_(Book!vars)
  <1>1. ASSUME IInv, [Next]_vars PROVE [\E k \in Keys : Book!Amend(k)]_(Book!vars)
    <2>1. CASE \E k \in Keys : AmendCommit(k)
      BY <1>1, <2>1, AmendCommitAmends
    <2>2. CASE created' = created
      BY <2>2 DEF Book!vars, LiveVersion
    <2> QED
      BY <1>1, <2>1, <2>2, LawWriters
  <1> QED
    BY Invariance, <1>1, PTL DEF Spec

=============================================================================
