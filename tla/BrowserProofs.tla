---------------------------- MODULE BrowserProofs ----------------------------
(***************************************************************************)
(* Proofs about the text pages of a profile, for any secrets, tabs,        *)
(* settings and bounds.                                                    *)
(***************************************************************************)
EXTENDS Browser, FiniteSetTheorems, SequenceTheorems, TLAPS

PageRecord ==
    [state : {"closed", "ready", "opening", "asking", "pausing", "open", "gone", "broken"},
     link : Links, prompt : BOOLEAN, typed : BOOLEAN,
     used : BOOLEAN, attempt : 0 .. 1,
     net : {"idle", "sent", "ok", "wrong key", "no message", "retry", "bare 503", "down"},
     viewsLeft : 0 .. MaxViews]

(* The types of all but the list and its page.                             *)
Typed ==
    /\ left \in [Secrets -> 0 .. MaxViews]
    /\ locked \subseteq Secrets
    /\ kept \subseteq KeptCopy
    /\ now \in 0 .. MaxTime
    /\ FormTypeOK
    /\ ReadTypeOK

(* Before the service has stored a secret there is nothing to read.        *)
Unsent(s) == send[s].phase \in {"new", "saving"}

(* A submission keeps to what it sent, and its link is displayed last.     *)
FormHonest(s) ==
    /\ Unsent(s) => left[s] = 0
    /\ left[s] <= send[s].setting.views
    /\ send[s].phase \in {"made", "done"} => send[s].uses = send[s].setting.views
    /\ page = s => send[s].phase = "done"

(* A page whose click had a view taken was not answered anything but the   *)
(* message.                                                                *)
HonestPage(p, views) ==
    /\ p.net # "idle" => p.state = "asking"
    /\ p.state \notin {"closed", "broken"} => p.link \in Secrets
    /\ views <= 1
    /\ p.state \in {"closed", "opening", "pausing", "gone", "broken"} => views = 0
    /\ p.net \in {"sent", "wrong key", "no message", "retry"} => views = 0

TabHonest(t) == HonestPage(tab[t], spent[t])

(* The tabs that hold a message they have not displayed.                   *)
Pending(s) == {t \in Tabs : tab[t].link = s /\ tab[t].net = "ok"}

(* The message may be displayed beyond the views the service gave: from    *)
(* the kept copy, or from the answer with the last view that may become    *)
(* one.  There is one such right at a time, and none before the last view. *)
Holds(t, s) ==
    /\ tab[t].link = s
    /\ tab[t].state = "opening" \/ (tab[t].net = "ok" /\ tab[t].viewsLeft = 0)

OneCopy(s) ==
    /\ KeptOf(s) # {} => left[s] = 0
    /\ \A t \in Tabs : Holds(t, s) =>
          /\ left[s] = 0
          /\ KeptOf(s) = {}
          /\ \A w \in Tabs : Holds(w, s) => w = t

MayRepeat(s) == left[s] > 0 \/ KeptOf(s) # {} \/ \E t \in Tabs : Holds(t, s)

(* The displays so far, those on their way, the views left and the one     *)
(* repetition make no more than the sender granted and one.                *)
Budget(s) ==
    IF Unsent(s)
    THEN /\ shows[s] = 0 /\ Pending(s) = {} /\ ~ MayRepeat(s)
    ELSE shows[s] + Cardinality(Pending(s)) + left[s] + (IF MayRepeat(s) THEN 1 ELSE 0)
            <= send[s].setting.views + 1

ReadInv ==
    /\ Typed
    /\ \A s \in Secrets : FormHonest(s) /\ OneCopy(s) /\ Budget(s)
    /\ \A t \in Tabs : TabHonest(t)
------------------------------------------------------------------------------
LEMMA TypedUnfolded ==
    ASSUME Typed
    PROVE  /\ left \in [Secrets -> 0 .. MaxViews]
           /\ kept \subseteq KeptCopy
           /\ send \in [Secrets -> Submissions]
           /\ tab \in [Tabs -> PageRecord]
           /\ shows \in [Secrets -> Nat]
           /\ spent \in [Tabs -> Nat]
BY DEF Typed, FormTypeOK, ReadTypeOK, PageRecord, Pages

LEMMA NoViews == 0 \in 0 .. MaxViews
BY ProfileAssumption

LEMMA ClosedIsPage == Closed \in PageRecord
BY ProfileAssumption DEF Closed, PageRecord, Links

(* What is left, shown and pending of a secret are numbers.                *)
LEMMA Numbers ==
    ASSUME Typed, NEW s \in Secrets
    PROVE  /\ left[s] \in Nat /\ shows[s] \in Nat
           /\ send[s].setting.views \in 1 .. MaxViews
           /\ Cardinality(Pending(s)) \in Nat
<1>1. left[s] \in Nat /\ shows[s] \in Nat /\ send[s] \in Submissions
  BY TypedUnfolded, ProfileAssumption
<1>2. send[s].setting.views \in 1 .. MaxViews
  BY <1>1, SettingsAssumption DEF Submissions
<1>3. IsFiniteSet(Pending(s))
  BY BrowserAssumption, FS_Subset DEF Pending
<1>4. Cardinality(Pending(s)) \in Nat
  BY <1>3, FS_CardinalityType
<1> QED BY <1>1, <1>2, <1>4

(* Fewer tabs are no more tabs, and one tab more or less is one.           *)
LEMMA FewerTabs ==
    ASSUME NEW S \in SUBSET Tabs, NEW T \in SUBSET S
    PROVE  Cardinality(T) \in Nat /\ Cardinality(S) \in Nat /\ Cardinality(T) <= Cardinality(S)
<1>1. IsFiniteSet(S)
  BY BrowserAssumption, FS_Subset
<1> QED BY <1>1, FS_Subset, FS_CardinalityType

LEMMA OneTabMore ==
    ASSUME NEW S \in SUBSET Tabs, NEW t \in Tabs
    PROVE  Cardinality(S \cup {t}) <= Cardinality(S) + 1
<1>1. IsFiniteSet(S)
  BY BrowserAssumption, FS_Subset
<1>2. PICK n \in Nat : n = Cardinality(S)
  BY <1>1, FS_CardinalityType
<1>3. CASE t \in S
  <2>1. Cardinality(S \cup {t}) = n
    BY <1>1, <1>2, <1>3, FS_AddElement
  <2> QED BY <1>2, <2>1
<1>4. CASE t \notin S
  <2>1. Cardinality(S \cup {t}) = n + 1
    BY <1>1, <1>2, <1>4, FS_AddElement
  <2> QED BY <1>2, <2>1
<1> QED BY <1>3, <1>4

LEMMA OneTabLess ==
    ASSUME NEW S \in SUBSET Tabs, NEW t \in S
    PROVE  Cardinality(S \ {t}) = Cardinality(S) - 1
<1>1. IsFiniteSet(S)
  BY BrowserAssumption, FS_Subset
<1> QED BY <1>1, FS_RemoveElement, FS_CardinalityType

(* A secret of which nothing new is held keeps to its budget: views are    *)
(* taken away, tabs drop what they held, copies are swept.                 *)
LEMMA BudgetShrinks ==
    ASSUME ReadInv, NEW s \in Secrets,
           Typed',
           left'[s] <= left[s], shows'[s] = shows[s],
           KeptOf(s)' \subseteq KeptOf(s),
           \A t \in Tabs : tab'[t] = tab[t] \/ (~ Holds(t, s)' /\ t \notin Pending(s)'),
           Unsent(s)' => Unsent(s),
           Unsent(s) \/ send'[s].setting.views = send[s].setting.views
    PROVE  OneCopy(s)' /\ Budget(s)'
<1>1. OneCopy(s) /\ Budget(s) /\ Typed
  BY DEF ReadInv
<1>2. /\ left[s] \in Nat /\ shows[s] \in Nat /\ left'[s] \in Nat
      /\ send[s].setting.views \in 1 .. MaxViews
  BY <1>1, Numbers, TypedUnfolded, ProfileAssumption DEF Typed
<1>3. \A t \in Tabs : Holds(t, s)' => Holds(t, s)
  BY DEF Holds
<1>4. Pending(s)' \subseteq Pending(s) /\ Pending(s) \subseteq Tabs
  BY DEF Pending
<1>5. Cardinality(Pending(s)') <= Cardinality(Pending(s))
      /\ Cardinality(Pending(s)) \in Nat /\ Cardinality(Pending(s)') \in Nat
  BY <1>4, FewerTabs
<1>6. left[s] = 0 => left'[s] = 0
  BY <1>2
<1>7. OneCopy(s)'
  BY <1>1, <1>3, <1>6 DEF OneCopy
<1>8. MayRepeat(s)' => MayRepeat(s)
  BY <1>2, <1>3 DEF MayRepeat
<1>9. Budget(s)'
  <2>1. CASE Unsent(s)
    <3>1. shows'[s] = 0 /\ Pending(s)' = {} /\ ~ MayRepeat(s)' /\ left'[s] = 0
      BY <1>1, <1>2, <1>4, <1>8, <2>1 DEF Budget, MayRepeat
    <3>2. Cardinality(Pending(s)') = 0
      BY <3>1, FS_EmptySet
    <3>3. send'[s].setting.views \in Nat
      <4>1. send'[s] \in Submissions
        BY DEF Typed, FormTypeOK
      <4> QED BY <4>1, SettingsAssumption DEF Submissions
    <3> QED BY <3>1, <3>2, <3>3 DEF Budget
  <2>2. CASE ~ Unsent(s)
    <3>1. shows[s] + Cardinality(Pending(s)) + left[s] + (IF MayRepeat(s) THEN 1 ELSE 0)
             <= send[s].setting.views + 1
      BY <1>1, <2>2 DEF Budget
    <3> DEFINE a == IF MayRepeat(s) THEN 1 ELSE 0
               b == IF MayRepeat(s)' THEN 1 ELSE 0
    <3>2. a \in Nat /\ b \in Nat /\ b <= a
      BY <1>8
    <3> HIDE DEF a, b
    <3>3. shows[s] + Cardinality(Pending(s)) + left[s] + a <= send[s].setting.views + 1
      BY <3>1 DEF a
    <3>4. PICK views \in Nat : views = send[s].setting.views
      BY <1>2
    <3>5. shows'[s] + Cardinality(Pending(s)') + left'[s] + b <= views + 1
      BY <1>2, <1>5, <3>2, <3>3, <3>4
    <3>6. send'[s].setting.views = views
      BY <2>2, <3>4
    <3> QED BY <2>2, <3>5, <3>6 DEF Budget, b
  <2> QED BY <2>1, <2>2
<1> QED BY <1>7, <1>9

------------------------------------------------------------------------------
LEMMA InitRead == Init => ReadInv
<1> SUFFICES ASSUME Init PROVE ReadInv
  OBVIOUS
<1>1. form = [filled |-> FALSE, enabled |-> FALSE, setting |-> DefaultSetting]
  BY DEF Init, FormInit, EmptyForm
<1>2. DefaultSetting \in Settings
  BY SettingsAssumption
<1>3. NotSent \in Submissions
  BY <1>2, ProfileAssumption DEF NotSent, Submissions
<1>4. NotSent.phase = "new" /\ NotSent.setting \in Settings
  BY <1>2 DEF NotSent
<1>5. Typed
  <2>1. send \in [Secrets -> Submissions]
    BY <1>3 DEF Init, FormInit
  <2>2. FormTypeOK
    <3>1. form \in [filled : BOOLEAN, enabled : BOOLEAN, setting : Settings]
      BY <1>1, <1>2
    <3>2. page = Form /\ records = {} /\ shown = {}
      BY DEF Init, FormInit
    <3> QED BY <2>1, <3>1, <3>2 DEF FormTypeOK
  <2>3. tab \in [Tabs -> Pages]
    <3>1. tab = [t \in Tabs |-> Closed]
      BY DEF Init, ReadInit
    <3>2. Pages = PageRecord
      BY DEF PageRecord, Pages
    <3>3. Closed \in Pages
      BY <3>2, ClosedIsPage
    <3> QED BY <3>1, <3>3
  <2>4. left \in [Secrets -> 0 .. MaxViews] /\ now \in 0 .. MaxTime
    BY ProfileAssumption DEF Init, ProfileInit
  <2> QED BY <2>2, <2>3, <2>4 DEF Init, ProfileInit, ReadInit, ReadTypeOK, Typed
<1>6. ASSUME NEW s \in Secrets PROVE FormHonest(s) /\ OneCopy(s) /\ Budget(s)
  <2>1. left[s] = 0 /\ shows[s] = 0 /\ send[s] = NotSent /\ page = Form /\ KeptOf(s) = {}
    BY <1>6 DEF Init, ProfileInit, FormInit, ReadInit, KeptOf
  <2>2. \A t \in Tabs : tab[t].state = "closed" /\ tab[t].net = "idle"
    BY DEF Init, ReadInit, Closed
  <2>3. \A t \in Tabs : ~ Holds(t, s)
    BY <2>2 DEF Holds
  <2>4. Pending(s) = {}
    BY <2>2 DEF Pending
  <2>5. ~ MayRepeat(s) /\ OneCopy(s)
    BY <2>1, <2>3 DEF MayRepeat, OneCopy
  <2>6. Unsent(s)
    BY <1>4, <2>1 DEF Unsent
  <2>7. NotSent.setting.views \in 1 .. MaxViews
    BY <1>4, SettingsAssumption
  <2> QED BY <1>4, <2>1, <2>4, <2>5, <2>6, <2>7, FormAssumption DEF FormHonest, Budget
<1>7. ASSUME NEW t \in Tabs PROVE TabHonest(t)
  <2>1. tab[t].state = "closed" /\ tab[t].net = "idle" /\ spent[t] = 0
    BY DEF Init, ReadInit, Closed
  <2> QED BY <2>1 DEF TabHonest, HonestPage
<1> QED BY <1>5, <1>6, <1>7 DEF ReadInv

------------------------------------------------------------------------------
(* The form and the profile.                                               *)

(* A step around the submissions: the form itself, the list, the clock.    *)
LEMMA FormFrame ==
    ASSUME ReadInv, UNCHANGED <<left, kept, send>>, UNCHANGED readVars,
           locked' \subseteq Secrets, now' \in 0 .. MaxTime,
           form' \in [filled : BOOLEAN, enabled : BOOLEAN, setting : Settings],
           page' \in {page, Form}, records' \subseteq Secrets, shown' \subseteq Secrets
    PROVE  ReadInv'
<1>1. Typed'
  BY DEF ReadInv, Typed, FormTypeOK, ReadTypeOK, readVars
<1>2. ASSUME NEW s \in Secrets PROVE FormHonest(s)' /\ OneCopy(s)' /\ Budget(s)'
  <2>1. FormHonest(s)'
    BY FormAssumption DEF ReadInv, FormHonest, Unsent
  <2>2. (Unsent(s)' => Unsent(s)) /\ KeptOf(s)' \subseteq KeptOf(s)
    BY DEF Unsent, KeptOf
  <2>3. left'[s] <= left[s]
    BY Numbers DEF ReadInv
  <2>4. OneCopy(s)' /\ Budget(s)'
    BY <1>1, <2>2, <2>3, BudgetShrinks DEF readVars
  <2> QED BY <2>1, <2>4
<1>3. \A t \in Tabs : TabHonest(t)'
  BY DEF ReadInv, TabHonest, readVars
<1> QED BY <1>1, <1>2, <1>3 DEF ReadInv

(* A submission that the service has stored, or has not, before and after. *)
LEMMA FormMoves ==
    ASSUME ReadInv, NEW s \in Secrets, NEW new \in Submissions,
           send' = [send EXCEPT ![s] = new],
           UNCHANGED <<left, kept, now>>, UNCHANGED readVars,
           locked' \subseteq Secrets,
           form' \in [filled : BOOLEAN, enabled : BOOLEAN, setting : Settings],
           records' \subseteq Secrets, shown' \subseteq Secrets,
           new.phase \in {"new", "saving"} => Unsent(s),
           Unsent(s) \/ new.setting = send[s].setting,
           new.phase \in {"made", "done"} => new.uses = new.setting.views,
           page' = page \/ page' = s,
           page' = s => new.phase = "done"
    PROVE  ReadInv'
<1>1. Typed
  BY DEF ReadInv
<1>2. send' \in [Secrets -> Submissions] /\ send'[s] = new
      /\ \A v \in Secrets \ {s} : send'[v] = send[v]
  BY <1>1, TypedUnfolded
<1>3. page' \in Secrets \cup {Form}
  BY <1>1 DEF Typed, FormTypeOK
<1>4. Typed'
  BY <1>1, <1>2, <1>3 DEF Typed, FormTypeOK, ReadTypeOK, readVars
<1>5. new.setting.views \in 1 .. MaxViews
  BY SettingsAssumption DEF Submissions
<1>6. ASSUME NEW v \in Secrets PROVE FormHonest(v)' /\ OneCopy(v)' /\ Budget(v)'
  <2>1. FormHonest(v) /\ left[v] \in Nat
    BY <1>1, Numbers DEF ReadInv
  <2>2. Unsent(v)' => Unsent(v)
    BY <1>2 DEF Unsent
  <2>3. Unsent(v) \/ send'[v].setting.views = send[v].setting.views
    BY <1>2
  <2>4. FormHonest(v)'
    <3>1. CASE v = s
      <4>1. left'[s] <= new.setting.views
        BY <1>5, <2>1, <3>1, ProfileAssumption DEF FormHonest
      <4>2. Unsent(s)' => left'[s] = 0
        BY <2>1, <2>2, <3>1 DEF FormHonest
      <4> QED BY <1>2, <3>1, <4>1, <4>2 DEF FormHonest
    <3>2. CASE v # s
      BY <1>2, <2>1, <2>2, <3>2 DEF FormHonest
    <3> QED BY <3>1, <3>2
  <2>5. left'[v] <= left[v] /\ KeptOf(v)' \subseteq KeptOf(v)
    BY <2>1 DEF KeptOf
  <2>6. OneCopy(v)' /\ Budget(v)'
    BY <1>4, <2>2, <2>3, <2>5, BudgetShrinks DEF readVars
  <2> QED BY <2>4, <2>6
<1>7. \A t \in Tabs : TabHonest(t)'
  BY DEF ReadInv, TabHonest, readVars
<1> QED BY <1>4, <1>6, <1>7 DEF ReadInv

LEMMA StepSubmit ==
    ASSUME ReadInv, NEW s \in Secrets, NEW p \in BOOLEAN, Submit(s, p), UNCHANGED readVars
    PROVE  ReadInv'
<1>1. Typed /\ FormTypeOK /\ send[s] \in Submissions
  BY TypedUnfolded DEF ReadInv, Typed
<1> DEFINE new == [send[s] EXCEPT !.phase = "saving", !.setting = form.setting]
<1>2. send' = [send EXCEPT ![s] = new] /\ send[s].phase = "new" /\ page = Form
  BY DEF Submit
<1>3. form.setting \in Settings
  BY <1>1 DEF FormTypeOK
<1>4. new \in Submissions
  BY <1>1, <1>3 DEF Submissions
<1>5. new.phase = "saving"
  BY <1>1 DEF Submissions
<1> HIDE DEF new
<1>6. new.phase \in {"new", "saving"} => Unsent(s)
  BY <1>2, <1>5 DEF Unsent
<1>7. form' \in [filled : BOOLEAN, enabled : BOOLEAN, setting : Settings]
  BY <1>1 DEF Submit, FormTypeOK
<1>8. locked' \subseteq Secrets /\ records' \subseteq Secrets /\ shown' \subseteq Secrets
  BY <1>1 DEF Submit, FormTypeOK, Typed
<1>9. UNCHANGED <<left, kept, now>> /\ page' = page /\ page' # s
  BY <1>2, FormAssumption DEF Submit
<1>10. Unsent(s)
  BY <1>2 DEF Unsent
<1> QED BY <1>2, <1>4, <1>5, <1>6, <1>7, <1>8, <1>9, <1>10, FormMoves

LEMMA StepSaveAnswered ==
    ASSUME ReadInv, NEW s \in Secrets, SaveAnswered(s), UNCHANGED readVars
    PROVE  ReadInv'
<1>1. Typed /\ FormTypeOK /\ send[s] \in Submissions
  BY TypedUnfolded DEF ReadInv, Typed
<1> DEFINE one == [send[s] EXCEPT !.phase = "made", !.uses = send[s].setting.views]
           new == [send[s] EXCEPT !.phase = "made", !.uses = send[s].setting.views,
                                  !.label = form.setting]
<1>2. send' = [send EXCEPT ![s] = new] /\ send[s].phase = "stored"
  BY DEF SaveAnswered, LinkReadyText
<1>3. form.setting \in Settings /\ send[s].setting.views \in 0 .. MaxViews
  BY <1>1, SettingsAssumption, ProfileAssumption DEF FormTypeOK, Submissions
<1>4. new \in Submissions
  <2>1. one \in Submissions
    BY <1>1, <1>3 DEF Submissions
  <2>2. new = [one EXCEPT !.label = form.setting]
    BY <1>1 DEF Submissions
  <2> HIDE DEF one, new
  <2> QED BY <1>3, <2>1, <2>2 DEF Submissions
<1>5. new.phase = "made" /\ new.uses = new.setting.views /\ new.setting = send[s].setting
  BY <1>1 DEF Submissions
<1> HIDE DEF one, new
<1>6. new.phase \notin {"new", "saving"}
  BY <1>5
<1>7. form' \in [filled : BOOLEAN, enabled : BOOLEAN, setting : Settings]
  BY <1>1 DEF SaveAnswered, FormTypeOK
<1>8. locked' \subseteq Secrets /\ records' \subseteq Secrets /\ shown' \subseteq Secrets
  BY <1>1 DEF SaveAnswered, FormTypeOK, Typed, profileVars
<1>9. UNCHANGED <<left, kept, now>> /\ page' = page
  BY DEF SaveAnswered, profileVars
<1>10. page' # s
  BY <1>2, <1>9 DEF ReadInv, FormHonest
<1> QED BY <1>2, <1>4, <1>5, <1>6, <1>7, <1>8, <1>9, <1>10, FormMoves

LEMMA StepShowLink ==
    ASSUME ReadInv, NEW s \in Secrets, ShowLink(s), UNCHANGED readVars
    PROVE  ReadInv'
<1>1. Typed /\ FormTypeOK /\ send[s] \in Submissions
  BY TypedUnfolded DEF ReadInv, Typed
<1> DEFINE new == [send[s] EXCEPT !.phase = "done"]
<1>2. send' = [send EXCEPT ![s] = new] /\ send[s].phase = "made"
      /\ (page' = page \/ page' = s)
  BY DEF ShowLink
<1>3. new \in Submissions
  BY <1>1 DEF Submissions
<1>4. new.phase = "done" /\ new.uses = send[s].uses /\ new.setting = send[s].setting
  BY <1>1 DEF Submissions
<1> HIDE DEF new
<1>5. new.phase \notin {"new", "saving"}
  BY <1>4
<1>6. new.uses = new.setting.views
  BY <1>2, <1>4 DEF ReadInv, FormHonest
<1>7. /\ form' \in [filled : BOOLEAN, enabled : BOOLEAN, setting : Settings]
      /\ locked' \subseteq Secrets /\ records' \subseteq Secrets /\ shown' \subseteq Secrets
  BY <1>1 DEF ShowLink, FormTypeOK, Typed, profileVars
<1>8. UNCHANGED <<left, kept, now>>
  BY DEF ShowLink, profileVars
<1> QED BY <1>2, <1>3, <1>4, <1>5, <1>6, <1>7, <1>8, FormMoves

LEMMA StepSaveFailed ==
    ASSUME ReadInv, NEW s \in Secrets, SaveFailed(s), UNCHANGED readVars
    PROVE  ReadInv'
<1>1. Typed /\ FormTypeOK /\ send[s] \in Submissions
  BY TypedUnfolded DEF ReadInv, Typed
<1> DEFINE new == [send[s] EXCEPT !.phase = "failed"]
<1>2. send' = [send EXCEPT ![s] = new] /\ send[s].phase \in {"saving", "stored"}
  BY DEF SaveFailed
<1>3. new \in Submissions
  BY <1>1 DEF Submissions
<1>4. new.phase = "failed" /\ new.setting = send[s].setting
  BY <1>1 DEF Submissions
<1> HIDE DEF new
<1>5. form' \in [filled : BOOLEAN, enabled : BOOLEAN, setting : Settings]
  BY <1>1 DEF SaveFailed, FormTypeOK
<1>6. locked' \subseteq Secrets /\ records' \subseteq Secrets /\ shown' \subseteq Secrets
  BY <1>1 DEF SaveFailed, FormTypeOK, Typed, profileVars
<1>7. UNCHANGED <<left, kept, now>> /\ page' = page
  BY DEF SaveFailed, profileVars
<1>8. page' # s
  BY <1>2, <1>7 DEF ReadInv, FormHonest
<1> QED BY <1>2, <1>3, <1>4, <1>5, <1>6, <1>7, <1>8, FormMoves

(* The request of a save says how many views its setting has.              *)
LEMMA ViewsAreRequested ==
    ASSUME NEW s \in Secrets, send[s].setting \in Settings
    PROVE  ViewsRequested(SaveRequest(s)) = send[s].setting.views
<1> DEFINE views == send[s].setting.views
<1>1. CASE views = 1
  <2>1. SaveRequest(s) = {}
    BY <1>1 DEF SaveRequest
  <2>2. ViewsRequested({}) \in {} \cup {1}
    BY DEF ViewsRequested
  <2> QED BY <1>1, <2>1, <2>2
<1>2. CASE views # 1
  <2>1. SaveRequest(s) = {views}
    BY <1>2 DEF SaveRequest
  <2> HIDE DEF views
  <2>2. ViewsRequested({views}) \in {views}
    <3>1. \E v \in {views} \cup {1} : {views} # {} => v \in {views}
      OBVIOUS
    <3>2. {views} # {} => ViewsRequested({views}) \in {views}
      BY <3>1 DEF ViewsRequested
    <3> QED BY <3>2
  <2>3. ViewsRequested(SaveRequest(s)) = views
    BY <2>1, <2>2
  <2> QED BY <2>3 DEF views
<1> QED BY <1>1, <1>2

(* The service stores a secret that nobody could read before.              *)
LEMMA StepStore ==
    ASSUME ReadInv, NEW s \in Secrets, Store(s), UNCHANGED readVars
    PROVE  ReadInv'
<1>1. /\ Typed /\ left \in [Secrets -> 0 .. MaxViews] /\ send \in [Secrets -> Submissions]
      /\ send[s] \in Submissions
  BY TypedUnfolded DEF ReadInv
<1> DEFINE new == [send[s] EXCEPT !.phase = "stored"]
<1>2. send' = [send EXCEPT ![s] = new] /\ send[s].phase = "saving"
  BY DEF Store
<1>3. PICK views \in 1 .. MaxViews : views = send[s].setting.views
  BY <1>1, Numbers
<1>4. left' = [left EXCEPT ![s] = views]
  BY <1>1, <1>3, ViewsAreRequested DEF Store, Submissions
<1>5. new \in Submissions /\ new.phase = "stored" /\ new.setting = send[s].setting
  BY <1>1 DEF Submissions
<1> HIDE DEF new
<1>6. /\ send' \in [Secrets -> Submissions] /\ send'[s] = new
      /\ \A v \in Secrets \ {s} : send'[v] = send[v]
  BY <1>1, <1>2, <1>5
<1>7. /\ left' \in [Secrets -> 0 .. MaxViews] /\ left'[s] = views
      /\ \A v \in Secrets \ {s} : left'[v] = left[v]
  BY <1>1, <1>4
<1>8. UNCHANGED <<form, page, records, shown, locked, kept, now>> /\ UNCHANGED <<tab, shows, spent>>
  BY DEF Store, readVars
<1>9. Typed'
  BY <1>1, <1>6, <1>7, <1>8 DEF Typed, FormTypeOK, ReadTypeOK
<1>10. FormHonest(s)' /\ OneCopy(s)' /\ Budget(s)'
  <2>1. Unsent(s) /\ ~ Unsent(s)'
    BY <1>2, <1>5, <1>6 DEF Unsent
  <2>2. shows[s] = 0 /\ Pending(s) = {} /\ ~ MayRepeat(s)
    BY <2>1 DEF ReadInv, Budget
  <2>3. KeptOf(s)' = {} /\ Pending(s)' = {} /\ \A t \in Tabs : ~ Holds(t, s)'
    BY <1>8, <2>2 DEF MayRepeat, KeptOf, Pending, Holds
  <2>4. FormHonest(s)'
    <3>1. page # s
      BY <1>2 DEF ReadInv, FormHonest
    <3> QED BY <1>3, <1>5, <1>6, <1>7, <1>8, <2>1, <3>1 DEF FormHonest
  <2>5. OneCopy(s)'
    BY <2>3 DEF OneCopy
  <2>6. Cardinality(Pending(s)') = 0
    BY <2>3, FS_EmptySet
  <2>7. MayRepeat(s)'
    BY <1>7 DEF MayRepeat
  <2>8. shows'[s] + Cardinality(Pending(s)') + left'[s] + 1 <= views + 1
    BY <1>7, <1>8, <2>2, <2>6
  <2>9. send'[s].setting.views = views
    BY <1>3, <1>5, <1>6
  <2> QED BY <2>1, <2>4, <2>5, <2>7, <2>8, <2>9 DEF Budget
<1>11. ASSUME NEW v \in Secrets, v # s PROVE FormHonest(v)' /\ OneCopy(v)' /\ Budget(v)'
  <2>1. send'[v] = send[v] /\ left'[v] = left[v] /\ page' = page
    BY <1>6, <1>7, <1>8, <1>11
  <2>2. FormHonest(v)'
    BY <2>1 DEF ReadInv, FormHonest, Unsent
  <2>3. Unsent(v)' => Unsent(v)
    BY <2>1 DEF Unsent
  <2>4. left'[v] <= left[v] /\ KeptOf(v)' \subseteq KeptOf(v)
    BY <1>1, <1>8, <2>1, Numbers DEF KeptOf
  <2>5. OneCopy(v)' /\ Budget(v)'
    BY <1>8, <1>9, <2>1, <2>3, <2>4, BudgetShrinks
  <2> QED BY <2>2, <2>5
<1>12. \A t \in Tabs : TabHonest(t)'
  BY <1>8 DEF ReadInv, TabHonest
<1> QED BY <1>9, <1>10, <1>11, <1>12 DEF ReadInv

LEMMA FormNextRead ==
    ASSUME ReadInv, FormNext, UNCHANGED readVars
    PROVE  ReadInv'
<1>1. Typed /\ FormTypeOK /\ locked \subseteq Secrets /\ now \in 0 .. MaxTime
  BY DEF ReadInv, Typed
<1>2. ASSUME NEW filled \in BOOLEAN, Type(filled) PROVE ReadInv'
  <2>1. form' \in [filled : BOOLEAN, enabled : BOOLEAN, setting : Settings]
    BY <1>1, <1>2 DEF Type, FormTypeOK
  <2> QED BY <1>1, <1>2, <2>1, FormFrame DEF Type, FormTypeOK, profileVars
<1>3. ASSUME NEW w \in Settings, Choose(w) PROVE ReadInv'
  <2>1. form' \in [filled : BOOLEAN, enabled : BOOLEAN, setting : Settings]
    BY <1>1, <1>3 DEF Choose, FormTypeOK
  <2> QED BY <1>1, <1>3, <2>1, FormFrame DEF Choose, FormTypeOK, profileVars
<1>4. ASSUME NEW s \in Secrets, Record(s) PROVE ReadInv'
  BY <1>1, <1>4, FormFrame DEF Record, FormTypeOK
<1>5. ASSUME Reset PROVE ReadInv'
  <2>1. form' \in [filled : BOOLEAN, enabled : BOOLEAN, setting : Settings]
    BY <1>5, SettingsAssumption DEF Reset, EmptyForm
  <2> QED BY <1>1, <1>5, <2>1, FormFrame DEF Reset, FormTypeOK, profileVars
<1> QED
  BY <1>2, <1>3, <1>4, <1>5, StepSubmit, StepStore, StepSaveAnswered, StepSaveFailed,
     StepShowLink
     DEF FormNext

LEMMA ElsewhereRead ==
    ASSUME ReadInv, NEW s \in Secrets, SpentElsewhere(s), UNCHANGED <<formVars, readVars>>
    PROVE  ReadInv'
<1>1. Typed /\ left \in [Secrets -> 0 .. MaxViews]
  BY TypedUnfolded DEF ReadInv
<1>2. PICK v \in 0 .. left[s] - 1 : left' = [left EXCEPT ![s] = v]
  BY DEF SpentElsewhere
<1>3. left[s] \in 0 .. MaxViews /\ v \in 0 .. MaxViews /\ v <= left[s]
  BY <1>1, <1>2, ProfileAssumption
<1>4. /\ left' \in [Secrets -> 0 .. MaxViews]
      /\ left'[s] = v /\ \A w \in Secrets \ {s} : left'[w] = left[w]
  BY <1>1, <1>2, <1>3
<1>5. UNCHANGED <<form, page, send, records, shown, tab, shows, spent, locked, kept, now>>
  BY DEF SpentElsewhere, formVars, readVars
<1>6. Typed'
  BY <1>1, <1>4, <1>5 DEF Typed, FormTypeOK, ReadTypeOK
<1>7. ASSUME NEW w \in Secrets PROVE FormHonest(w)' /\ OneCopy(w)' /\ Budget(w)'
  <2>1. left[w] \in Nat /\ left'[w] \in Nat /\ left'[w] <= left[w]
    <3>1. CASE w = s
      BY <1>3, <1>4, <3>1, ProfileAssumption
    <3>2. CASE w # s
      BY <1>1, <1>4, <3>2, Numbers
    <3> QED BY <3>1, <3>2
  <2>2. FormHonest(w) /\ send[w].setting.views \in Nat
    BY <1>1, Numbers DEF ReadInv
  <2>3. FormHonest(w)'
    BY <1>5, <2>1, <2>2 DEF FormHonest, Unsent
  <2>4. (Unsent(w)' => Unsent(w)) /\ KeptOf(w)' \subseteq KeptOf(w)
    BY <1>5 DEF Unsent, KeptOf
  <2>5. OneCopy(w)' /\ Budget(w)'
    BY <1>5, <1>6, <2>1, <2>4, BudgetShrinks
  <2> QED BY <2>3, <2>5
<1>8. \A t \in Tabs : TabHonest(t)'
  BY <1>5 DEF ReadInv, TabHonest
<1> QED BY <1>6, <1>7, <1>8 DEF ReadInv

(* The list and its page leave the service, the copies and the clock be.   *)
LEMMA ListNextRead ==
    ASSUME ReadInv, ListNext(granted), UNCHANGED <<formVars, readVars>>
    PROVE  ReadInv'
<1>1. UNCHANGED <<left, locked, kept, now>>
  BY DEF ListNext, OpenList, CloseList, TimerFires, Click, Hide, Show, Poll, AnswerStatus,
         StatusFails, updateStatuses, Forget, profileVars
<1>2. Typed /\ FormTypeOK /\ locked \subseteq Secrets /\ now \in 0 .. MaxTime
  BY DEF ReadInv, Typed
<1> QED BY <1>1, <1>2, FormFrame DEF FormTypeOK, formVars

LEMMA TickRead ==
    ASSUME ReadInv, Tick, UNCHANGED <<formVars, readVars>>
    PROVE  ReadInv'
<1>1. Typed /\ FormTypeOK /\ locked \subseteq Secrets /\ now \in 0 .. MaxTime
  BY DEF ReadInv, Typed
<1>2. now' \in 0 .. MaxTime
  BY <1>1, ProfileAssumption DEF Tick
<1> QED BY <1>1, <1>2, FormFrame DEF Tick, FormTypeOK, formVars

------------------------------------------------------------------------------
(* The read pages.                                                         *)

LEMMA TabAfter ==
    ASSUME Typed, NEW t \in Tabs, NEW new \in PageRecord, NEW views \in Nat,
           tab' = [tab EXCEPT ![t] = new], spent' = [spent EXCEPT ![t] = views]
    PROVE  /\ tab' \in [Tabs -> PageRecord] /\ spent' \in [Tabs -> Nat]
           /\ tab'[t] = new /\ spent'[t] = views
           /\ \A w \in Tabs \ {t} : tab'[w] = tab[w] /\ spent'[w] = spent[w]
BY TypedUnfolded

(* What the other secrets, the other tabs and the form have of a step of   *)
(* one tab: nothing, but for the copies that were swept.                   *)
LEMMA TabFrame ==
    ASSUME ReadInv, NEW t \in Tabs, NEW new \in PageRecord, NEW views \in Nat,
           tab' = [tab EXCEPT ![t] = new], spent' = [spent EXCEPT ![t] = views],
           HonestPage(new, views),
           left' \in [Secrets -> 0 .. MaxViews], shows' \in [Secrets -> Nat],
           kept' \subseteq KeptCopy,
           \A s \in Secrets : left'[s] <= left[s],
           UNCHANGED <<locked, now>>, UNCHANGED formVars,
           \A s \in Secrets : OneCopy(s)' /\ Budget(s)'
    PROVE  ReadInv'
<1>1. Typed
  BY DEF ReadInv
<1>2. /\ tab' \in [Tabs -> PageRecord] /\ spent' \in [Tabs -> Nat]
      /\ tab'[t] = new /\ spent'[t] = views
      /\ \A w \in Tabs \ {t} : tab'[w] = tab[w] /\ spent'[w] = spent[w]
  BY <1>1, TabAfter
<1>3. Typed'
  BY <1>1, <1>2 DEF Typed, FormTypeOK, ReadTypeOK, PageRecord, Pages, formVars
<1>4. \A w \in Tabs : TabHonest(w)'
  BY <1>2 DEF ReadInv, TabHonest
<1>5. ASSUME NEW s \in Secrets PROVE FormHonest(s)'
  <2>1. left[s] \in Nat /\ left'[s] \in Nat /\ left'[s] <= left[s]
        /\ send[s].setting.views \in Nat
    BY <1>1, Numbers, ProfileAssumption
  <2>2. FormHonest(s) /\ send' = send /\ page' = page
    BY DEF ReadInv, formVars
  <2> QED BY <2>1, <2>2 DEF FormHonest, Unsent
<1> QED BY <1>3, <1>4, <1>5 DEF ReadInv

(* A tab that holds nothing afterwards.                                    *)
LEMMA TabDrops ==
    ASSUME ReadInv, NEW t \in Tabs, NEW new \in PageRecord, NEW views \in Nat,
           tab' = [tab EXCEPT ![t] = new], spent' = [spent EXCEPT ![t] = views],
           HonestPage(new, views), new.net # "ok", new.state # "opening",
           kept' \subseteq kept, UNCHANGED <<left, shows, locked, now>>, UNCHANGED formVars
    PROVE  ReadInv'
<1>1. Typed
  BY DEF ReadInv
<1>2. /\ left' \in [Secrets -> 0 .. MaxViews] /\ shows' \in [Secrets -> Nat]
      /\ kept' \subseteq KeptCopy
  BY <1>1, TypedUnfolded
<1>3. /\ tab' \in [Tabs -> PageRecord] /\ spent' \in [Tabs -> Nat]
      /\ tab'[t] = new /\ spent'[t] = views
      /\ \A w \in Tabs \ {t} : tab'[w] = tab[w] /\ spent'[w] = spent[w]
  BY <1>1, TabAfter
<1>4. Typed'
  BY <1>1, <1>2, <1>3 DEF Typed, FormTypeOK, ReadTypeOK, PageRecord, Pages, formVars
<1>5. ASSUME NEW s \in Secrets
      PROVE  left'[s] <= left[s] /\ OneCopy(s)' /\ Budget(s)'
  <2>1. left'[s] <= left[s] /\ shows'[s] = shows[s] /\ KeptOf(s)' \subseteq KeptOf(s)
    BY <1>1, Numbers DEF KeptOf
  <2>2. \A w \in Tabs : tab'[w] = tab[w] \/ (~ Holds(w, s)' /\ w \notin Pending(s)')
    BY <1>3 DEF Holds, Pending
  <2>3. (Unsent(s)' => Unsent(s)) /\ send' = send
    BY DEF Unsent, formVars
  <2> QED BY <1>4, <2>1, <2>2, <2>3, BudgetShrinks
<1> QED BY <1>2, <1>5, TabFrame

LEMMA PageFacts ==
    ASSUME ReadInv, NEW t \in Tabs
    PROVE  /\ tab[t] \in PageRecord /\ spent[t] \in Nat
           /\ spent = [spent EXCEPT ![t] = spent[t]]
           /\ HonestPage(tab[t], spent[t])
BY TypedUnfolded DEF ReadInv, TabHonest

LEMMA StepOpen ==
    ASSUME ReadInv, NEW t \in Tabs, NEW l \in Links, Open(t, l), UNCHANGED formVars
    PROVE  ReadInv'
<1>1. tab[t] \in PageRecord /\ spent[t] \in Nat
      /\ spent = [spent EXCEPT ![t] = spent[t]] /\ HonestPage(tab[t], spent[t])
  BY PageFacts
<1> DEFINE new == [Closed EXCEPT !.state = IF isValidLinkToken(l) THEN "ready" ELSE "broken",
                                 !.link = l]
<1>2. tab' = [tab EXCEPT ![t] = new] /\ kept' \subseteq kept
      /\ UNCHANGED <<left, shows, locked, now>> /\ spent' = spent /\ tab[t].state = "closed"
  BY DEF Open
<1>3. new \in PageRecord /\ new.net = "idle" /\ new.link = l
      /\ new.state = IF isValidLinkToken(l) THEN "ready" ELSE "broken"
  BY ClosedIsPage DEF PageRecord, Closed
<1> HIDE DEF new
<1>4. spent' = [spent EXCEPT ![t] = spent[t]] /\ spent[t] = 0
  BY <1>1, <1>2 DEF HonestPage
<1>5. HonestPage(new, spent[t])
  <2>1. new.state \notin {"closed", "broken"} => new.link \in Secrets
    BY <1>3 DEF isValidLinkToken, Links
  <2> QED BY <1>3, <1>4, <2>1 DEF HonestPage
<1>6. new.net # "ok" /\ new.state # "opening"
  BY <1>3
<1> QED BY <1>1, <1>2, <1>3, <1>4, <1>5, <1>6, TabDrops

LEMMA StepClose ==
    ASSUME ReadInv, NEW t \in Tabs, Close(t), UNCHANGED formVars
    PROVE  ReadInv'
<1>1. HonestPage(Closed, 0) /\ Closed.net # "ok" /\ Closed.state # "opening"
  BY DEF HonestPage, Closed
<1>2. tab' = [tab EXCEPT ![t] = Closed] /\ spent' = [spent EXCEPT ![t] = 0]
      /\ kept' \subseteq kept /\ UNCHANGED <<left, shows, locked, now>>
  BY DEF Close, profileVars
<1>3. 0 \in Nat
  OBVIOUS
<1> QED BY <1>1, <1>2, <1>3, ClosedIsPage, TabDrops

(* A tab that only changes itself and holds nothing afterwards.            *)
LEMMA TabRests ==
    ASSUME ReadInv, NEW t \in Tabs, NEW new \in PageRecord,
           tab' = [tab EXCEPT ![t] = new], UNCHANGED <<shows, spent, profileVars>>,
           HonestPage(new, spent[t]), new.net # "ok", new.state # "opening",
           UNCHANGED formVars
    PROVE  ReadInv'
<1>1. spent[t] \in Nat /\ spent' = [spent EXCEPT ![t] = spent[t]]
  BY PageFacts
<1>2. kept' \subseteq kept /\ UNCHANGED <<left, shows, locked, now>>
  BY DEF profileVars
<1> QED BY <1>1, <1>2, TabDrops

(* A tab in which the passphrase is typed holds what it held.              *)
LEMMA StepTypePassphrase ==
    ASSUME ReadInv, NEW t \in Tabs, TypePassphrase(t), UNCHANGED formVars
    PROVE  ReadInv'
<1>1. tab[t] \in PageRecord /\ HonestPage(tab[t], spent[t])
      /\ spent[t] \in Nat /\ spent = [spent EXCEPT ![t] = spent[t]]
  BY PageFacts
<1> DEFINE new == [tab[t] EXCEPT !.typed = ~ @]
<1>2. tab' = [tab EXCEPT ![t] = new] /\ UNCHANGED <<shows, spent, profileVars>>
  BY DEF TypePassphrase
<1>3. PICK typed \in BOOLEAN : typed = ~ tab[t].typed
  BY <1>1 DEF PageRecord
<1>4. new = [tab[t] EXCEPT !.typed = typed]
  BY <1>1, <1>3 DEF PageRecord
<1>5. /\ new \in PageRecord /\ new.state = tab[t].state /\ new.net = tab[t].net
      /\ new.link = tab[t].link /\ new.viewsLeft = tab[t].viewsLeft
  BY <1>1, <1>4 DEF PageRecord
<1> HIDE DEF new
<1>6. HonestPage(new, spent[t])
  BY <1>1, <1>5 DEF HonestPage
<1>7. spent' = [spent EXCEPT ![t] = spent[t]] /\ UNCHANGED <<left, shows, kept, locked, now>>
  BY <1>1, <1>2 DEF profileVars
<1>8. Typed
  BY DEF ReadInv
<1>9. /\ tab' \in [Tabs -> PageRecord] /\ tab'[t] = new
      /\ \A w \in Tabs \ {t} : tab'[w] = tab[w]
  BY <1>1, <1>2, <1>5, <1>7, <1>8, TabAfter
<1>10. \A w \in Tabs : /\ tab'[w].link = tab[w].link /\ tab'[w].net = tab[w].net
                       /\ tab'[w].state = tab[w].state /\ tab'[w].viewsLeft = tab[w].viewsLeft
  BY <1>5, <1>9
<1>11. ASSUME NEW s \in Secrets PROVE OneCopy(s)' /\ Budget(s)'
  <2>1. OneCopy(s) /\ Budget(s)
    BY DEF ReadInv
  <2>2. KeptOf(s)' = KeptOf(s) /\ \A w \in Tabs : Holds(w, s)' <=> Holds(w, s)
    BY <1>7, <1>10 DEF KeptOf, Holds
  <2>3. Pending(s)' = Pending(s)
    BY <1>10 DEF Pending
  <2>4. OneCopy(s)'
    BY <1>7, <2>1, <2>2 DEF OneCopy
  <2>5. (MayRepeat(s)' <=> MayRepeat(s)) /\ (Unsent(s)' <=> Unsent(s)) /\ send' = send
    BY <1>7, <2>2 DEF MayRepeat, Unsent, formVars
  <2>6. Budget(s)'
    BY <1>7, <2>1, <2>3, <2>5 DEF Budget
  <2> QED BY <2>4, <2>6
<1>12. /\ left' \in [Secrets -> 0 .. MaxViews] /\ shows' \in [Secrets -> Nat]
       /\ kept' \subseteq KeptCopy /\ \A s \in Secrets : left'[s] <= left[s]
  BY <1>7, <1>8, Numbers, TypedUnfolded
<1> QED BY <1>1, <1>2, <1>5, <1>6, <1>7, <1>11, <1>12, TabFrame

LEMMA StepPause ==
    ASSUME ReadInv, NEW t \in Tabs, Pause(t), UNCHANGED formVars
    PROVE  ReadInv'
<1>1. tab[t] \in PageRecord /\ HonestPage(tab[t], spent[t])
  BY PageFacts
<1> DEFINE one == [tab[t] EXCEPT !.state = "pausing", !.net = "idle"]
           new == [tab[t] EXCEPT !.state = "pausing", !.attempt = 1, !.net = "idle"]
<1>2. tab' = [tab EXCEPT ![t] = new] /\ tab[t].state = "asking" /\ tab[t].net = "retry"
      /\ UNCHANGED <<shows, spent, profileVars>>
  BY DEF Pause, isRetryableRead
<1>3. one \in PageRecord /\ one.state = "pausing" /\ one.net = "idle" /\ one.link = tab[t].link
  BY <1>1 DEF PageRecord
<1>4. new = [one EXCEPT !.attempt = 1]
  BY <1>1 DEF PageRecord
<1> HIDE DEF one, new
<1>5. 1 \in 0 .. 1
  OBVIOUS
<1>6. /\ new \in PageRecord /\ new.state = "pausing" /\ new.net = "idle"
      /\ new.link = tab[t].link
  BY <1>3, <1>4, <1>5 DEF PageRecord
<1>7. HonestPage(new, spent[t]) /\ new.net # "ok" /\ new.state # "opening"
  BY <1>1, <1>2, <1>6 DEF HonestPage
<1> QED BY <1>2, <1>6, <1>7, TabRests

LEMMA StepResend ==
    ASSUME ReadInv, NEW t \in Tabs, Resend(t), UNCHANGED formVars
    PROVE  ReadInv'
<1>1. tab[t] \in PageRecord /\ HonestPage(tab[t], spent[t])
  BY PageFacts
<1> DEFINE new == [tab[t] EXCEPT !.state = "asking", !.net = "sent"]
<1>2. tab' = [tab EXCEPT ![t] = new] /\ tab[t].state = "pausing"
      /\ UNCHANGED <<shows, spent, profileVars>>
  BY DEF Resend
<1>3. new \in PageRecord /\ new.state = "asking" /\ new.net = "sent" /\ new.link = tab[t].link
  BY <1>1 DEF PageRecord
<1> HIDE DEF new
<1>4. HonestPage(new, spent[t]) /\ new.net # "ok" /\ new.state # "opening"
  BY <1>1, <1>2, <1>3 DEF HonestPage
<1> QED BY <1>2, <1>3, <1>4, TabRests

LEMMA StepGarble ==
    ASSUME ReadInv, NEW t \in Tabs, Garble(t), UNCHANGED formVars
    PROVE  ReadInv'
<1>1. tab[t] \in PageRecord /\ HonestPage(tab[t], spent[t])
  BY PageFacts
<1>2. PICK net \in {"bare 503", "down"} :
          tab' = [tab EXCEPT ![t].net = net, ![t].viewsLeft = 0, ![t].used = FALSE]
  BY DEF Garble
<1> DEFINE new == [tab[t] EXCEPT !.net = net, !.viewsLeft = 0, !.used = FALSE]
<1>3. tab' = [tab EXCEPT ![t] = new] /\ tab[t].state = "asking"
      /\ UNCHANGED <<shows, spent, profileVars>>
  BY <1>2 DEF Garble
<1> DEFINE one == [tab[t] EXCEPT !.net = net]
           two == [one EXCEPT !.viewsLeft = 0]
<1>4. one \in PageRecord /\ one.state = "asking" /\ one.net = net /\ one.link = tab[t].link
  BY <1>1, <1>3 DEF PageRecord
<1>5. new = [two EXCEPT !.used = FALSE]
  BY <1>1 DEF PageRecord
<1> HIDE DEF one, new
<1>6. two \in PageRecord /\ two.state = "asking" /\ two.net = net /\ two.link = tab[t].link
  BY <1>4, NoViews DEF PageRecord
<1> HIDE DEF two
<1>7. new \in PageRecord /\ new.state = "asking" /\ new.net = net /\ new.link = tab[t].link
  BY <1>5, <1>6 DEF PageRecord
<1>8. HonestPage(new, spent[t]) /\ new.net # "ok" /\ new.state # "opening"
  BY <1>1, <1>3, <1>7 DEF HonestPage
<1> QED BY <1>3, <1>7, <1>8, TabRests

LEMMA StepReceiveRefusal ==
    ASSUME ReadInv, NEW t \in Tabs, ReceiveRefusal(t), UNCHANGED formVars
    PROVE  ReadInv'
<1>1. tab[t] \in PageRecord /\ HonestPage(tab[t], spent[t]) /\ tab[t].state = "asking"
  BY PageFacts DEF ReceiveRefusal
<1>2. CASE tab[t].net = "no message"
  <2> DEFINE new == Ended(t, "gone")
  <2>1. tab' = [tab EXCEPT ![t] = new] /\ UNCHANGED <<shows, spent, profileVars>>
    BY <1>2 DEF ReceiveRefusal
  <2>2. new \in PageRecord /\ new.state = "gone" /\ new.net = "idle" /\ new.link = tab[t].link
    BY <1>1, ClosedIsPage DEF Ended, Closed, PageRecord
  <2> HIDE DEF new
  <2>3. HonestPage(new, spent[t]) /\ new.net # "ok" /\ new.state # "opening"
    BY <1>1, <1>2, <2>2 DEF HonestPage
  <2> QED BY <2>1, <2>2, <2>3, TabRests
<1>3. CASE tab[t].net # "no message"
  <2>1. PICK prompt \in BOOLEAN : prompt = (tab[t].prompt \/ tab[t].net = "wrong key")
    BY <1>1 DEF PageRecord
  <2> DEFINE one == [tab[t] EXCEPT !.state = "ready", !.used = FALSE, !.prompt = prompt,
                                   !.net = "idle"]
             new == [tab[t] EXCEPT !.state = "ready", !.used = FALSE, !.attempt = 0, !.net = "idle",
                                   !.prompt = prompt]
  <2>2. tab' = [tab EXCEPT ![t] = new] /\ UNCHANGED <<shows, spent, profileVars>>
    <3>1. tab' = [tab EXCEPT ![t] =
              [tab[t] EXCEPT !.state = "ready", !.used = FALSE, !.attempt = 0, !.net = "idle",
                             !.prompt = tab[t].prompt \/ tab[t].net = "wrong key"]]
          /\ UNCHANGED <<shows, spent, profileVars>>
      BY <1>3 DEF ReceiveRefusal
    <3>2. CASE prompt = TRUE
      BY <2>1, <3>1, <3>2
    <3>3. CASE prompt = FALSE
      BY <2>1, <3>1, <3>3
    <3> QED BY <3>2, <3>3
  <2>3. one \in PageRecord /\ one.state = "ready" /\ one.net = "idle" /\ one.link = tab[t].link
    BY <1>1 DEF PageRecord
  <2>4. new = [one EXCEPT !.attempt = 0]
    BY <1>1 DEF PageRecord
  <2> HIDE DEF one, new
  <2>5. 0 \in 0 .. 1
    OBVIOUS
  <2>6. /\ new \in PageRecord /\ new.state = "ready" /\ new.net = "idle"
        /\ new.link = tab[t].link
    BY <2>3, <2>4, <2>5 DEF PageRecord
  <2>7. HonestPage(new, spent[t]) /\ new.net # "ok" /\ new.state # "opening"
    BY <1>1, <2>6 DEF HonestPage
  <2> QED BY <2>2, <2>6, <2>7, TabRests
<1> QED BY <1>2, <1>3

(* What the other secrets have of a step of one tab at its own secret.     *)
LEMMA TabMoves ==
    ASSUME ReadInv, NEW t \in Tabs, NEW new \in PageRecord, NEW views \in Nat, NEW s \in Secrets,
           tab' = [tab EXCEPT ![t] = new], spent' = [spent EXCEPT ![t] = views],
           HonestPage(new, views), tab[t].link = s, new.link = s,
           left' \in [Secrets -> 0 .. MaxViews], shows' \in [Secrets -> Nat],
           kept' \subseteq KeptCopy,
           left'[s] <= left[s],
           \A v \in Secrets \ {s} : left'[v] = left[v] /\ shows'[v] = shows[v]
                                    /\ KeptOf(v)' \subseteq KeptOf(v),
           UNCHANGED <<locked, now>>, UNCHANGED formVars,
           OneCopy(s)' /\ Budget(s)'
    PROVE  ReadInv'
<1>1. Typed
  BY DEF ReadInv
<1>2. /\ tab' \in [Tabs -> PageRecord] /\ spent' \in [Tabs -> Nat]
      /\ tab'[t] = new /\ spent'[t] = views
      /\ \A w \in Tabs \ {t} : tab'[w] = tab[w] /\ spent'[w] = spent[w]
  BY <1>1, TabAfter
<1>3. Typed'
  BY <1>1, <1>2 DEF Typed, FormTypeOK, ReadTypeOK, PageRecord, Pages, formVars
<1>4. ASSUME NEW v \in Secrets PROVE left'[v] <= left[v] /\ OneCopy(v)' /\ Budget(v)'
  <2>1. CASE v = s
    BY <2>1
  <2>2. CASE v # s
    <3>1. left'[v] <= left[v] /\ shows'[v] = shows[v] /\ KeptOf(v)' \subseteq KeptOf(v)
      BY <1>1, <2>2, Numbers
    <3>2. \A w \in Tabs : tab'[w] = tab[w] \/ (~ Holds(w, v)' /\ w \notin Pending(v)')
      BY <1>2, <2>2 DEF Holds, Pending
    <3>3. (Unsent(v)' => Unsent(v)) /\ send' = send
      BY DEF Unsent, formVars
    <3> QED BY <1>3, <3>1, <3>2, <3>3, BudgetShrinks
  <2> QED BY <2>1, <2>2
<1> QED BY <1>4, TabFrame

(* What a tab may repeat nobody else may, and the sender granted it.       *)
LEMMA TheRight ==
    ASSUME ReadInv, NEW s \in Secrets
    PROVE  /\ MayRepeat(s) \/ Pending(s) # {} => ~ Unsent(s)
           /\ left[s] > 0 => KeptOf(s) = {} /\ \A t \in Tabs : ~ Holds(t, s)
           /\ KeptOf(s) # {} => left[s] = 0 /\ \A t \in Tabs : ~ Holds(t, s)
           /\ MayRepeat(s) => shows[s] + Cardinality(Pending(s)) + left[s] + 1
                                 <= send[s].setting.views + 1
<1>1. OneCopy(s) /\ Budget(s) /\ left[s] \in Nat
  BY Numbers DEF ReadInv
<1>2. MayRepeat(s) \/ Pending(s) # {} => ~ Unsent(s)
  BY <1>1 DEF Budget
<1>3. left[s] > 0 => KeptOf(s) = {} /\ \A t \in Tabs : ~ Holds(t, s)
  BY <1>1 DEF OneCopy
<1>4. KeptOf(s) # {} => left[s] = 0 /\ \A t \in Tabs : ~ Holds(t, s)
  BY <1>1 DEF OneCopy
<1>5. ASSUME MayRepeat(s)
      PROVE  shows[s] + Cardinality(Pending(s)) + left[s] + 1 <= send[s].setting.views + 1
  BY <1>1, <1>2, <1>5 DEF Budget
<1> QED BY <1>2, <1>3, <1>4, <1>5

LEMMA StepReveal ==
    ASSUME ReadInv, NEW t \in Tabs, Reveal(t), UNCHANGED formVars
    PROVE  ReadInv'
<1>1. tab[t] \in PageRecord /\ HonestPage(tab[t], spent[t]) /\ tab[t].state = "ready"
  BY PageFacts DEF Reveal
<1>2. tab[t].link \in Secrets /\ tab[t].net = "idle"
  BY <1>1 DEF HonestPage
<1>3. PICK s \in Secrets : s = tab[t].link
  BY <1>2
<1>4. /\ kept' = Removed(s) /\ spent' = [spent EXCEPT ![t] = 0]
      /\ UNCHANGED <<shows, left, locked, now>>
  BY <1>3 DEF Reveal
<1>5. 0 \in Nat /\ 0 \in 0 .. 1
  OBVIOUS
<1>6. Typed
  BY DEF ReadInv
<1>7. CASE \E c \in KeptOf(s) : freshCopy(c)
  <2> DEFINE one == [tab[t] EXCEPT !.state = "opening", !.used = tab[t].typed]
             new == [tab[t] EXCEPT !.state = "opening", !.used = tab[t].typed, !.attempt = 0]
  <2>1. tab' = [tab EXCEPT ![t] = new]
    BY <1>3, <1>7 DEF Reveal
  <2>2. /\ one \in PageRecord /\ one.state = "opening" /\ one.net = "idle" /\ one.link = s
    BY <1>1, <1>2, <1>3 DEF PageRecord
  <2>3. new = [one EXCEPT !.attempt = 0]
    BY <1>1 DEF PageRecord
  <2> HIDE DEF one, new
  <2>4. new \in PageRecord /\ new.state = "opening" /\ new.net = "idle" /\ new.link = s
    BY <1>5, <2>2, <2>3 DEF PageRecord
  <2>5. HonestPage(new, 0)
    BY <2>4 DEF HonestPage
  <2>6. tab'[t] = new /\ \A w \in Tabs \ {t} : tab'[w] = tab[w]
    BY <1>4, <1>5, <1>6, <2>1, <2>4, TabAfter
  <2>7. /\ left[s] = 0 /\ MayRepeat(s) /\ \A w \in Tabs : ~ Holds(w, s)
        /\ ~ Unsent(s)
    BY <1>7, TheRight DEF MayRepeat
  <2>8. KeptOf(s)' = {} /\ \A v \in Secrets \ {s} : KeptOf(v)' \subseteq KeptOf(v)
    BY <1>4 DEF KeptOf, Removed
  <2>9. Holds(t, s)' /\ \A w \in Tabs \ {t} : ~ Holds(w, s)'
    BY <2>4, <2>6, <2>7 DEF Holds
  <2>10. Pending(s)' = Pending(s)
    BY <1>2, <2>4, <2>6 DEF Pending
  <2>11. OneCopy(s)'
    BY <1>4, <2>7, <2>8, <2>9 DEF OneCopy
  <2>12. MayRepeat(s)' /\ ~ Unsent(s)' /\ send' = send
    BY <2>7, <2>9 DEF MayRepeat, Unsent, formVars
  <2>13. shows[s] + Cardinality(Pending(s)) + left[s] + 1 <= send[s].setting.views + 1
    BY <2>7, TheRight
  <2>14. shows'[s] + Cardinality(Pending(s)') + left'[s] + 1 <= send'[s].setting.views + 1
    BY <1>4, <2>10, <2>12, <2>13
  <2>15. Budget(s)'
    BY <2>12, <2>14 DEF Budget
  <2>16. /\ left' \in [Secrets -> 0 .. MaxViews] /\ shows' \in [Secrets -> Nat]
         /\ kept' \subseteq KeptCopy /\ left'[s] <= left[s]
         /\ \A v \in Secrets \ {s} : left'[v] = left[v] /\ shows'[v] = shows[v]
    BY <1>4, <1>6, TypedUnfolded, Numbers DEF Removed
  <2> QED BY <1>3, <1>4, <1>5, <2>1, <2>4, <2>5, <2>8, <2>11, <2>15, <2>16, TabMoves
<1>8. CASE ~ \E c \in KeptOf(s) : freshCopy(c)
  <2> DEFINE one == [tab[t] EXCEPT !.state = "asking", !.used = tab[t].typed, !.net = "sent"]
             new == [tab[t] EXCEPT !.state = "asking", !.used = tab[t].typed, !.attempt = 0,
                                   !.net = "sent"]
  <2>1. tab' = [tab EXCEPT ![t] = new]
    BY <1>3, <1>8 DEF Reveal
  <2>2. /\ one \in PageRecord /\ one.state = "asking" /\ one.net = "sent" /\ one.link = s
    BY <1>1, <1>3 DEF PageRecord
  <2>3. new = [one EXCEPT !.attempt = 0]
    BY <1>1 DEF PageRecord
  <2> HIDE DEF one, new
  <2>4. new \in PageRecord /\ new.state = "asking" /\ new.net = "sent" /\ new.link = s
    BY <1>5, <2>2, <2>3 DEF PageRecord
  <2>5. HonestPage(new, 0) /\ new.net # "ok" /\ new.state # "opening"
    BY <2>4 DEF HonestPage
  <2>6. kept' \subseteq kept
    BY <1>4 DEF Removed
  <2> QED BY <1>4, <1>5, <2>1, <2>4, <2>5, <2>6, TabDrops
<1> QED BY <1>7, <1>8

LEMMA StepOpenKept ==
    ASSUME ReadInv, NEW t \in Tabs, OpenKept(t), UNCHANGED formVars
    PROVE  ReadInv'
<1>1. tab[t] \in PageRecord /\ HonestPage(tab[t], spent[t]) /\ tab[t].state = "opening"
      /\ spent[t] \in Nat
  BY PageFacts DEF OpenKept
<1>2. tab[t].link \in Secrets /\ tab[t].net = "idle" /\ spent[t] = 0
  BY <1>1 DEF HonestPage
<1>3. PICK s \in Secrets : s = tab[t].link
  BY <1>2
<1>4. UNCHANGED <<spent, left, locked, kept, now>>
  BY DEF OpenKept, profileVars
<1>5. Typed
  BY DEF ReadInv
<1>6. CASE opensMessage(Encrypted(s).bytes, fullSecretKey(tab[t].used, s))
  <2> DEFINE new == Ended(t, "open")
  <2>1. tab' = [tab EXCEPT ![t] = new] /\ shows' = [shows EXCEPT ![s] = @ + 1]
    BY <1>3, <1>6 DEF OpenKept
  <2>2. new \in PageRecord /\ new.state = "open" /\ new.net = "idle" /\ new.link = s
    BY <1>1, <1>3, ClosedIsPage DEF Ended, Closed, PageRecord
  <2> HIDE DEF new
  <2>3. HonestPage(new, spent[t])
    BY <1>2, <2>2 DEF HonestPage
  <2>4. spent' = [spent EXCEPT ![t] = spent[t]]
    BY <1>4, PageFacts
  <2>5. tab'[t] = new /\ \A w \in Tabs \ {t} : tab'[w] = tab[w]
    BY <1>1, <1>5, <2>1, <2>2, <2>4, TabAfter
  <2>6. Holds(t, s)
    BY <1>1, <1>3 DEF Holds
  <2>7. /\ left[s] = 0 /\ MayRepeat(s) /\ KeptOf(s) = {}
        /\ \A w \in Tabs : Holds(w, s) => w = t
        /\ ~ Unsent(s)
    BY <2>6, TheRight DEF MayRepeat, ReadInv, OneCopy
  <2>8. \A v \in Secrets : KeptOf(v)' = KeptOf(v)
    BY <1>4 DEF KeptOf
  <2>9. \A w \in Tabs : ~ Holds(w, s)'
    BY <2>2, <2>5, <2>7 DEF Holds
  <2>10. Pending(s)' = Pending(s)
    BY <1>2, <2>2, <2>5 DEF Pending
  <2>11. OneCopy(s)'
    BY <1>4, <2>7, <2>8, <2>9 DEF OneCopy
  <2>12. ~ MayRepeat(s)' /\ ~ Unsent(s)' /\ send' = send /\ left' = left
    BY <1>4, <2>7, <2>8, <2>9 DEF MayRepeat, Unsent, formVars
  <2>13. shows[s] + Cardinality(Pending(s)) + left[s] + 1 <= send[s].setting.views + 1
    BY <2>7, TheRight
  <2>14. /\ shows \in [Secrets -> Nat] /\ shows[s] \in Nat /\ left[s] \in Nat
         /\ Cardinality(Pending(s)) \in Nat /\ send[s].setting.views \in Nat
    BY <1>5, Numbers, TypedUnfolded
  <2>15. shows' \in [Secrets -> Nat] /\ shows'[s] = shows[s] + 1
         /\ \A v \in Secrets \ {s} : shows'[v] = shows[v]
    BY <2>1, <2>14
  <2>16. PICK n \in Nat : n = Cardinality(Pending(s))
    BY <2>14
  <2>17. shows'[s] + n + left[s] + 0 <= send[s].setting.views + 1
    BY <2>13, <2>14, <2>15, <2>16
  <2>18. Budget(s)'
    BY <2>10, <2>12, <2>16, <2>17 DEF Budget
  <2>19. /\ left' \in [Secrets -> 0 .. MaxViews] /\ kept' \subseteq KeptCopy
         /\ left'[s] <= left[s]
         /\ \A v \in Secrets \ {s} : left'[v] = left[v] /\ KeptOf(v)' \subseteq KeptOf(v)
    BY <1>4, <1>5, <2>8, <2>14, TypedUnfolded
  <2> QED BY <1>1, <1>3, <1>4, <2>1, <2>2, <2>3, <2>4, <2>11, <2>15, <2>18, <2>19, TabMoves
<1>7. CASE ~ opensMessage(Encrypted(s).bytes, fullSecretKey(tab[t].used, s))
  <2> DEFINE new == [tab[t] EXCEPT !.state = "asking", !.net = "sent"]
  <2>1. tab' = [tab EXCEPT ![t] = new] /\ UNCHANGED <<shows, spent, profileVars>>
    BY <1>3, <1>7 DEF OpenKept
  <2>2. new \in PageRecord /\ new.state = "asking" /\ new.net = "sent" /\ new.link = s
    BY <1>1, <1>3 DEF PageRecord
  <2> HIDE DEF new
  <2>3. HonestPage(new, spent[t]) /\ new.net # "ok" /\ new.state # "opening"
    BY <1>2, <2>2 DEF HonestPage
  <2> QED BY <2>1, <2>2, <2>3, TabRests
<1> QED BY <1>6, <1>7

(* The service gives a view: it is pending at this tab, which may keep the *)
(* last one.                                                               *)
LEMMA StepAnswerView ==
    ASSUME ReadInv, NEW t \in Tabs, NEW s \in Secrets, s = tab[t].link,
           tab[t].state = "asking", tab[t].net = "sent", left[s] > 0,
           tab' = [tab EXCEPT ![t].net = "ok", ![t].viewsLeft = left[s] - 1],
           left' = [left EXCEPT ![s] = @ - 1], spent' = [spent EXCEPT ![t] = @ + 1],
           UNCHANGED <<shows, locked, kept, now>>, UNCHANGED formVars
    PROVE  ReadInv'
<1>1. tab[t] \in PageRecord /\ HonestPage(tab[t], spent[t]) /\ spent[t] = 0
  BY PageFacts DEF HonestPage
<1>2. Typed
  BY DEF ReadInv
<1>3. /\ left \in [Secrets -> 0 .. MaxViews] /\ shows \in [Secrets -> Nat]
      /\ spent \in [Tabs -> Nat]
  BY <1>2, TypedUnfolded
<1>4. PICK n \in Nat : n = left[s] - 1
  BY <1>3, ProfileAssumption
<1>5. n \in 0 .. MaxViews /\ left[s] = n + 1 /\ left[s] \in Nat
  BY <1>3, <1>4, ProfileAssumption
<1> DEFINE one == [tab[t] EXCEPT !.net = "ok"]
           new == [tab[t] EXCEPT !.net = "ok", !.viewsLeft = n]
<1>6. tab' = [tab EXCEPT ![t] = new] /\ left' = [left EXCEPT ![s] = n]
      /\ spent' = [spent EXCEPT ![t] = 1]
  <2>1. left[s] - 1 = n /\ spent[t] + 1 = 1
    BY <1>1, <1>4
  <2>2. tab' = [tab EXCEPT ![t] = new]
    BY <2>1
  <2>3. left' = [left EXCEPT ![s] = n]
    BY <2>1
  <2>4. spent' = [spent EXCEPT ![t] = 1]
    BY <2>1
  <2> QED BY <2>2, <2>3, <2>4
<1>7. one \in PageRecord /\ one.net = "ok" /\ one.state = "asking" /\ one.link = s
  BY <1>1 DEF PageRecord
<1>8. new = [one EXCEPT !.viewsLeft = n]
  BY <1>1 DEF PageRecord
<1> HIDE DEF one, new
<1>9. /\ new \in PageRecord /\ new.net = "ok" /\ new.state = "asking" /\ new.link = s
      /\ new.viewsLeft = n
  BY <1>5, <1>7, <1>8 DEF PageRecord
<1>10. HonestPage(new, 1) /\ 1 \in Nat
  <2>1. 1 <= 1 /\ 1 \in Nat
    OBVIOUS
  <2> QED BY <1>9, <2>1 DEF HonestPage
<1>11. tab'[t] = new /\ \A w \in Tabs \ {t} : tab'[w] = tab[w]
  <2>1. PICK after : after = [tab EXCEPT ![t] = new]
    OBVIOUS
  <2>2. tab \in [Tabs -> PageRecord]
    BY <1>2, TypedUnfolded
  <2>3. after[t] = new /\ \A w \in Tabs \ {t} : after[w] = tab[w]
    BY <2>1, <2>2
  <2>4. tab' = after
    BY <1>6, <2>1
  <2> QED BY <2>3, <2>4
<1>12. /\ left' \in [Secrets -> 0 .. MaxViews] /\ left'[s] = n
       /\ \A v \in Secrets \ {s} : left'[v] = left[v]
  BY <1>3, <1>5, <1>6
<1>13. KeptOf(s) = {} /\ (\A w \in Tabs : ~ Holds(w, s)) /\ MayRepeat(s) /\ ~ Unsent(s)
  BY TheRight DEF MayRepeat
<1>14. \A v \in Secrets : KeptOf(v)' = KeptOf(v)
  BY DEF KeptOf
<1>15. \A w \in Tabs : Holds(w, s)' => w = t /\ n = 0
  BY <1>9, <1>11, <1>13 DEF Holds
<1>16. OneCopy(s)'
  BY <1>12, <1>13, <1>14, <1>15 DEF OneCopy
<1>17. Pending(s)' = Pending(s) \cup {t} /\ Pending(s) \subseteq Tabs
  BY <1>9, <1>11 DEF Pending
<1>18. Budget(s)'
  <2>1. ~ Unsent(s)' /\ send' = send
    BY <1>13 DEF Unsent, formVars
  <2>2. shows[s] + Cardinality(Pending(s)) + left[s] + 1 <= send[s].setting.views + 1
    BY <1>13, TheRight
  <2>3. /\ shows[s] \in Nat /\ send[s].setting.views \in Nat
        /\ Cardinality(Pending(s)) \in Nat
    BY <1>2, Numbers
  <2>4. PICK p \in Nat : p = Cardinality(Pending(s))
    BY <2>3
  <2>5. PICK q \in Nat : q = Cardinality(Pending(s)')
    <3>1. Pending(s)' \subseteq Tabs
      BY <1>17
    <3> QED BY <3>1, FewerTabs
  <2>6. q <= p + 1
    BY <1>17, <2>4, <2>5, OneTabMore
  <2> DEFINE b == IF MayRepeat(s)' THEN 1 ELSE 0
  <2>7. b \in 0 .. 1
    OBVIOUS
  <2> HIDE DEF b
  <2>8. shows[s] + q + n + b <= send[s].setting.views + 1
    BY <1>5, <2>2, <2>3, <2>4, <2>6, <2>7
  <2> QED BY <1>12, <2>1, <2>5, <2>8 DEF Budget, b
<1>19. /\ shows' \in [Secrets -> Nat] /\ kept' \subseteq KeptCopy /\ left'[s] <= left[s]
       /\ \A v \in Secrets \ {s} : left'[v] = left[v] /\ shows'[v] = shows[v]
                                   /\ KeptOf(v)' \subseteq KeptOf(v)
  BY <1>2, <1>3, <1>5, <1>12, <1>14, TypedUnfolded
<1> QED BY <1>6, <1>9, <1>10, <1>12, <1>16, <1>18, <1>19, TabMoves

LEMMA StepAnswer ==
    ASSUME ReadInv, NEW t \in Tabs, Answer(t), UNCHANGED formVars
    PROVE  ReadInv'
<1>1. tab[t] \in PageRecord /\ HonestPage(tab[t], spent[t])
      /\ tab[t].state = "asking" /\ tab[t].net = "sent"
  BY PageFacts DEF Answer
<1>2. PICK s \in Secrets : s = tab[t].link
  BY <1>1 DEF HonestPage
<1>3. ASSUME NEW net \in {"no message", "wrong key", "retry"},
             tab' = [tab EXCEPT ![t].net = net], UNCHANGED <<left, spent>>
      PROVE  ReadInv'
  <2> DEFINE new == [tab[t] EXCEPT !.net = net]
  <2>1. tab' = [tab EXCEPT ![t] = new]
    BY <1>3
  <2>2. new \in PageRecord /\ new.state = "asking" /\ new.net = net /\ new.link = s
    BY <1>1, <1>2 DEF PageRecord
  <2> HIDE DEF new
  <2>3. HonestPage(new, spent[t]) /\ new.net # "ok" /\ new.state # "opening"
    BY <1>1, <2>2 DEF HonestPage
  <2>4. spent[t] \in Nat /\ spent' = [spent EXCEPT ![t] = spent[t]]
        /\ kept' \subseteq kept /\ UNCHANGED <<left, shows, locked, now>>
    BY <1>3, PageFacts DEF Answer
  <2> QED BY <2>1, <2>2, <2>3, <2>4, TabDrops
<1>4. CASE tab' = [tab EXCEPT ![t].net = "no message"] /\ UNCHANGED <<left, spent>>
  BY <1>3, <1>4
<1>5. CASE tab' = [tab EXCEPT ![t].net = "wrong key"] /\ UNCHANGED <<left, spent>>
  BY <1>3, <1>5
<1>6. CASE tab' = [tab EXCEPT ![t].net = "retry"] /\ UNCHANGED <<left, spent>>
  BY <1>3, <1>6
<1>7. CASE /\ left[s] > 0
           /\ tab' = [tab EXCEPT ![t].net = "ok", ![t].viewsLeft = left[s] - 1]
           /\ left' = [left EXCEPT ![s] = @ - 1]
           /\ spent' = [spent EXCEPT ![t] = @ + 1]
  <2>1. UNCHANGED <<shows, locked, kept, now>>
    BY DEF Answer
  <2> QED BY <1>1, <1>2, <1>7, <2>1, StepAnswerView
<1> QED BY <1>2, <1>4, <1>5, <1>6, <1>7 DEF Answer

LEMMA StepReceiveMessage ==
    ASSUME ReadInv, NEW t \in Tabs, ReceiveMessage(t), UNCHANGED formVars
    PROVE  ReadInv'
<1>1. tab[t] \in PageRecord /\ HonestPage(tab[t], spent[t]) /\ spent[t] \in Nat
      /\ tab[t].state = "asking" /\ tab[t].net = "ok"
  BY PageFacts DEF ReceiveMessage
<1>2. PICK s \in Secrets : s = tab[t].link
  BY <1>1 DEF HonestPage
<1>3. Typed
  BY DEF ReadInv
<1>4. /\ shows' = [shows EXCEPT ![s] = @ + 1] /\ UNCHANGED <<spent, left, locked, now>>
  BY <1>2 DEF ReceiveMessage
<1> DEFINE new == Ended(t, "open")
<1>5. tab' = [tab EXCEPT ![t] = new]
  BY DEF ReceiveMessage
<1>6. new \in PageRecord /\ new.state = "open" /\ new.net = "idle" /\ new.link = s
  BY <1>1, <1>2, ClosedIsPage DEF Ended, Closed, PageRecord
<1> HIDE DEF new
<1>7. HonestPage(new, spent[t]) /\ spent' = [spent EXCEPT ![t] = spent[t]]
  BY <1>1, <1>4, <1>6, PageFacts DEF HonestPage
<1>8. tab'[t] = new /\ \A w \in Tabs \ {t} : tab'[w] = tab[w]
  BY <1>1, <1>3, <1>5, <1>6, <1>7, TabAfter
<1>9. t \in Pending(s) /\ ~ Unsent(s)
  <2>1. t \in Pending(s)
    BY <1>1, <1>2 DEF Pending
  <2> QED BY <2>1, TheRight
<1>10. Pending(s)' = Pending(s) \ {t} /\ Pending(s) \subseteq Tabs
  BY <1>6, <1>8 DEF Pending
<1>11. /\ ~ Holds(t, s)'
       /\ \A w \in Tabs : Holds(w, s)' => Holds(w, s)
  BY <1>6, <1>8 DEF Holds
<1>12. /\ shows \in [Secrets -> Nat] /\ shows[s] \in Nat /\ left[s] \in Nat
       /\ Cardinality(Pending(s)) \in Nat /\ send[s].setting.views \in Nat
       /\ kept \subseteq KeptCopy
  BY <1>3, Numbers, TypedUnfolded
<1>13. \/ kept' = kept
       \/ /\ tab[t].viewsLeft = 0
          /\ kept' = Removed(s) \cup {[id |-> s, at |-> now]}
  BY <1>2 DEF ReceiveMessage, Keeps
<1>14. /\ kept' \subseteq KeptCopy
       /\ \A v \in Secrets \ {s} : KeptOf(v)' \subseteq KeptOf(v)
       /\ MayRepeat(s)' => MayRepeat(s)
       /\ OneCopy(s)'
  <2>1. CASE kept' = kept
    <3>1. \A v \in Secrets : KeptOf(v)' = KeptOf(v)
      BY <2>1 DEF KeptOf
    <3>2. MayRepeat(s)' => MayRepeat(s)
      BY <1>4, <1>11, <3>1 DEF MayRepeat
    <3>3. OneCopy(s)'
      BY <1>4, <1>11, <3>1 DEF OneCopy, ReadInv
    <3> QED BY <1>12, <2>1, <3>1, <3>2, <3>3
  <2>2. CASE tab[t].viewsLeft = 0 /\ kept' = Removed(s) \cup {[id |-> s, at |-> now]}
    <3>1. Holds(t, s)
      BY <1>1, <1>2, <2>2 DEF Holds
    <3>2. left[s] = 0 /\ MayRepeat(s) /\ \A w \in Tabs : Holds(w, s) => w = t
      BY <3>1 DEF MayRepeat, ReadInv, OneCopy
    <3>3. [id |-> s, at |-> now] \in KeptCopy
      BY <1>3 DEF Typed, KeptCopy
    <3>4. kept' \subseteq KeptCopy
      BY <1>12, <2>2, <3>3 DEF Removed
    <3>5. \A v \in Secrets \ {s} : KeptOf(v)' \subseteq KeptOf(v)
      BY <2>2 DEF KeptOf, Removed
    <3>6. OneCopy(s)'
      BY <1>4, <1>11, <3>2 DEF OneCopy
    <3> QED BY <3>2, <3>4, <3>5, <3>6
  <2> QED BY <1>13, <2>1, <2>2
<1>15. Budget(s)'
  <2>1. ~ Unsent(s)' /\ send' = send /\ left'[s] = left[s]
    BY <1>4, <1>9 DEF Unsent, formVars
  <2> DEFINE a == IF MayRepeat(s) THEN 1 ELSE 0
             b == IF MayRepeat(s)' THEN 1 ELSE 0
  <2>2. a \in Nat /\ b \in Nat /\ b <= a
    BY <1>14
  <2>3. shows[s] + Cardinality(Pending(s)) + left[s] + a <= send[s].setting.views + 1
    BY <1>9 DEF ReadInv, Budget
  <2> HIDE DEF a, b
  <2>4. PICK p \in Nat : p = Cardinality(Pending(s))
    BY <1>12
  <2>5. Cardinality(Pending(s)') = p - 1
    BY <1>9, <1>10, <2>4, OneTabLess
  <2>6. shows'[s] = shows[s] + 1
    BY <1>4, <1>12
  <2>7. (shows[s] + 1) + (p - 1) + left[s] + b <= send[s].setting.views + 1
    BY <1>12, <2>2, <2>3, <2>4
  <2> QED BY <2>1, <2>5, <2>6, <2>7 DEF Budget, b
<1>16. /\ left' \in [Secrets -> 0 .. MaxViews] /\ left'[s] <= left[s]
       /\ shows' \in [Secrets -> Nat]
       /\ \A v \in Secrets \ {s} : left'[v] = left[v] /\ shows'[v] = shows[v]
  BY <1>3, <1>4, <1>12, TypedUnfolded
<1> QED BY <1>1, <1>2, <1>4, <1>5, <1>6, <1>7, <1>14, <1>15, <1>16, TabMoves

LEMMA ReadNextRead ==
    ASSUME ReadInv, ReadNext, UNCHANGED formVars
    PROVE  ReadInv'
BY StepOpen, StepClose, StepTypePassphrase, StepReveal, StepOpenKept, StepAnswer, StepGarble,
   StepReceiveMessage, StepReceiveRefusal, StepPause, StepResend
   DEF ReadNext, Handle

LEMMA StepRead == ReadInv /\ [Next]_vars => ReadInv'
<1> SUFFICES ASSUME ReadInv, [Next]_vars PROVE ReadInv'
  OBVIOUS
<1>1. CASE FormNext /\ UNCHANGED <<readVars, listVars>>
  BY <1>1, FormNextRead
<1>2. CASE ReadNext /\ UNCHANGED <<formVars, listVars>>
  BY <1>2, ReadNextRead
<1>3. CASE ListNext(granted) /\ UNCHANGED <<formVars, readVars>>
  BY <1>3, ListNextRead
<1>4. CASE Tick /\ UNCHANGED <<formVars, readVars>>
  BY <1>4, TickRead
<1>5. CASE (\E s \in Secrets : SpentElsewhere(s)) /\ UNCHANGED <<formVars, readVars>>
  BY <1>5, ElsewhereRead
<1>6. CASE UNCHANGED vars
  <2>1. Typed /\ FormTypeOK /\ locked \subseteq Secrets /\ now \in 0 .. MaxTime
    BY DEF ReadInv, Typed
  <2> QED BY <1>6, <2>1, FormFrame DEF vars, profileVars, formVars, FormTypeOK
<1> QED BY <1>1, <1>2, <1>3, <1>4, <1>5, <1>6 DEF Next

------------------------------------------------------------------------------
(* The pages keep the bookkeeping of views, displays and copies.           *)
THEOREM ReadInvariant == Spec => []ReadInv
BY InitRead, StepRead, PTL DEF Spec

(* The link-ready state of new-message.ts says of a secret what the        *)
(* service was asked for, whatever the selects show by then.               *)
THEOREM LinkReadyIsTrue == Spec => []UsesShownAreTrue
<1>1. ReadInv => UsesShownAreTrue
  <2> SUFFICES ASSUME ReadInv, page \in Secrets
               PROVE  /\ send[page].phase = "done"
                      /\ send[page].uses = send[page].setting.views
                      /\ left[page] <= send[page].uses
    BY DEF UsesShownAreTrue
  <2>1. FormHonest(page)
    BY DEF ReadInv
  <2> QED BY <2>1 DEF FormHonest
<1> QED BY <1>1, ReadInvariant, PTL

(* A click of view-secret.ts takes one view at most, its repetition        *)
(* included, and a page that says gone has taken none.                     *)
THEOREM ClicksTakeOneView == Spec => []OneViewPerClick
<1>1. ReadInv => OneViewPerClick
  BY DEF ReadInv, TabHonest, HonestPage, OneViewPerClick
<1> QED BY <1>1, ReadInvariant, PTL

(* The pages of one profile display a message once for every view the      *)
(* sender granted, and once more from what view-secret.ts keeps.           *)
THEOREM MessagesAreShownOnceMore == Spec => []ShownOnceMoreAtMost
<1>1. ReadInv => ShownOnceMoreAtMost
  <2> SUFFICES ASSUME ReadInv, NEW s \in Secrets
               PROVE  shows[s] <= granted[s] + 1
    BY DEF ShownOnceMoreAtMost
  <2>1. /\ left[s] \in Nat /\ shows[s] \in Nat /\ Cardinality(Pending(s)) \in Nat
        /\ send[s].setting.views \in Nat
    BY Numbers DEF ReadInv
  <2>2. CASE Unsent(s)
    BY <2>1, <2>2 DEF ReadInv, Budget, granted
  <2>3. CASE ~ Unsent(s)
    <3> DEFINE a == IF MayRepeat(s) THEN 1 ELSE 0
    <3>1. shows[s] + Cardinality(Pending(s)) + left[s] + a <= send[s].setting.views + 1
      BY <2>3 DEF ReadInv, Budget
    <3>2. a \in Nat
      OBVIOUS
    <3> HIDE DEF a
    <3>3. shows[s] <= send[s].setting.views + 1
      BY <2>1, <3>1, <3>2
    <3> QED BY <3>3 DEF granted
  <2> QED BY <2>2, <2>3
<1> QED BY <1>1, ReadInvariant, PTL

------------------------------------------------------------------------------
(* The list of sent links and its page.                                    *)

Ids(entries) == {entries[i].id : i \in 1 .. Len(entries)}

(* A secret that was listed is stored for good and is not listed again.    *)
Recorded(s) == send[s].phase \in {"made", "done"} /\ s \notin records

ListHonest ==
    /\ \A s \in records : send[s].phase \in {"made", "done"}
    /\ \A s \in Ids(list) \cup Rows \cup forgotten \cup saidGone : Recorded(s)
    /\ forgotten \cap (Ids(list) \cup Rows) = {}

(* One request at a time asks for all the rows, and its answer is true of  *)
(* the secrets it says are gone, then and since.                           *)
PollHonest(q) ==
    /\ q.state \in {"sent", "failed"} => q.there = {}
    /\ Rows \subseteq q.ids
    /\ q.there \cap saidGone = {}
    /\ q.state = "answered" => \A s \in (Rows \cap q.ids) \ q.there : left[s] = 0

RowHonest(s) == s \in saidGone => left[s] = 0 /\ rows[s] \notin {"unread", "available"}

ListInv ==
    /\ ReadInv
    /\ list \in Seq(Entry) /\ Len(list) <= MaxEntries
    /\ ListTypeOK
    /\ ListHonest
    /\ \A q \in polls : PollHonest(q) /\ \A r \in polls : q = r
    /\ \A s \in Secrets : RowHonest(s)

(* The places of some entries are counted through one by one.              *)
LEMMA RankHits ==
    ASSUME NEW n \in Nat, NEW P \in SUBSET (1 .. n)
    PROVE  /\ Cardinality(P) \in Nat /\ Cardinality(P) <= n
           /\ \A m \in 1 .. Cardinality(P) :
                 \E i \in P : Cardinality({j \in P : j <= i}) = m
<1>1. IsFiniteSet(1 .. n) /\ Cardinality(1 .. n) = n
  <2>1. 1 \in Int /\ n \in Int
    OBVIOUS
  <2>2. /\ IsFiniteSet(1 .. n)
        /\ Cardinality(1 .. n) = IF 1 > n THEN 0 ELSE n - 1 + 1
    BY <2>1, FS_Interval
  <2> QED BY <2>2
<1>2. IsFiniteSet(P) /\ Cardinality(P) <= n
  BY <1>1, FS_Subset
<1>3. PICK c \in Nat : c = Cardinality(P)
  BY <1>2, FS_CardinalityType
<1> DEFINE upTo(i) == {j \in P : j <= i}
           rank == [i \in P |-> Cardinality(upTo(i))]
<1>4. ASSUME NEW i \in P PROVE rank[i] \in 1 .. c /\ IsFiniteSet(upTo(i))
  <2>1. upTo(i) \subseteq P /\ i \in upTo(i)
    OBVIOUS
  <2>2. IsFiniteSet(upTo(i)) /\ Cardinality(upTo(i)) <= c
    BY <1>2, <1>3, <2>1, FS_Subset
  <2>3. Cardinality(upTo(i)) \in Nat /\ Cardinality(upTo(i)) # 0
    BY <2>1, <2>2, FS_CardinalityType, FS_EmptySet
  <2> QED BY <1>3, <2>2, <2>3
<1>5. ASSUME NEW i \in P, NEW k \in P, i < k PROVE rank[i] # rank[k]
  <2>1. upTo(i) \subseteq upTo(k) /\ k \in upTo(k) /\ k \notin upTo(i)
    <3>1. P \subseteq Nat
      OBVIOUS
    <3>2. i \in Nat /\ k \in Nat /\ k <= k /\ ~ (k <= i)
      BY <1>5, <3>1
    <3>3. \A j \in P : j <= i => j <= k
      BY <1>5, <3>1, <3>2
    <3> QED BY <3>2, <3>3
  <2>2. upTo(i) # upTo(k)
    BY <2>1
  <2>3. Cardinality(upTo(i)) # Cardinality(upTo(k))
    BY <1>4, <2>1, <2>2, FS_Subset
  <2>4. rank[i] = Cardinality(upTo(i)) /\ rank[k] = Cardinality(upTo(k))
    OBVIOUS
  <2> HIDE DEF rank, upTo
  <2> QED BY <2>3, <2>4
<1>6. \A i, k \in P : rank[i] = rank[k] => i = k
  <2> SUFFICES ASSUME NEW i \in P, NEW k \in P, i # k PROVE rank[i] # rank[k]
    OBVIOUS
  <2>1. i < k \/ k < i
    OBVIOUS
  <2> QED BY <1>5, <2>1
<1>7. rank \in [P -> 1 .. c]
  BY <1>4
<1>8. rank \in Injection(P, 1 .. c)
  BY <1>6, <1>7 DEF Injection, IsInjective
<1>9. IsFiniteSet(1 .. c) /\ Cardinality(1 .. c) = c
  <2>1. 1 \in Int /\ c \in Int
    OBVIOUS
  <2>2. /\ IsFiniteSet(1 .. c)
        /\ Cardinality(1 .. c) = IF 1 > c THEN 0 ELSE c - 1 + 1
    BY <2>1, FS_Interval
  <2> QED BY <2>2
<1>10. rank \in Surjection(P, 1 .. c)
  BY <1>3, <1>8, <1>9, FS_Injection
<1>11. \A m \in 1 .. c : \E i \in P : rank[i] = m
  BY <1>10 DEF Surjection
<1> QED BY <1>2, <1>3, <1>11

(* What a filter returns is a list no longer, of entries it has kept.      *)
LEMMA EntriesKept ==
    ASSUME NEW entries \in Seq(Entry), NEW P \in SUBSET (1 .. Len(entries))
    PROVE  /\ EntriesAt(entries, P) \in Seq(Entry)
           /\ Len(EntriesAt(entries, P)) <= Len(entries)
           /\ \A m \in 1 .. Len(EntriesAt(entries, P)) :
                 \E i \in P : EntriesAt(entries, P)[m] = entries[i]
<1>1. Len(entries) \in Nat
  OBVIOUS
<1>2. PICK c \in Nat : c = Cardinality(P) /\ c <= Len(entries)
  BY <1>1, RankHits
<1> DEFINE place(m) == CHOOSE i \in P : Cardinality({j \in P : j <= i}) = m
           kept0 == EntriesAt(entries, P)
<1>3. ASSUME NEW m \in 1 .. c PROVE place(m) \in P
  <2>1. \E i \in P : Cardinality({j \in P : j <= i}) = m
    BY <1>1, <1>2, RankHits
  <2> QED BY <2>1
<1>4. kept0 = [m \in 1 .. c |-> entries[place(m)]]
  BY <1>2 DEF EntriesAt
<1>8. Len(entries) \in Nat /\ entries \in [1 .. Len(entries) -> Entry]
  OBVIOUS
<1> HIDE DEF place, kept0
<1>5. \A m \in 1 .. c : entries[place(m)] \in Entry
  BY <1>3, <1>8
<1>6. kept0 \in Seq(Entry) /\ Len(kept0) = c
  BY <1>4, <1>5
<1>7. \A m \in 1 .. c : kept0[m] = entries[place(m)]
  BY <1>4
<1>9. \A m \in 1 .. Len(kept0) : \E i \in P : kept0[m] = entries[i]
  BY <1>3, <1>6, <1>7
<1> QED BY <1>2, <1>6, <1>9 DEF kept0

LEMMA LoadedEntries ==
    ASSUME list \in Seq(Entry)
    PROVE  /\ loadSecrets \in Seq(Entry) /\ Len(loadSecrets) <= Len(list)
           /\ Ids(loadSecrets) \subseteq Ids(list)
<1> DEFINE fresh == {i \in 1 .. Len(list) : list[i].expiresAt > now}
<1>1. fresh \in SUBSET (1 .. Len(list)) /\ loadSecrets = EntriesAt(list, fresh)
  BY DEF loadSecrets
<1> HIDE DEF fresh
<1>2. /\ loadSecrets \in Seq(Entry) /\ Len(loadSecrets) <= Len(list)
      /\ \A m \in 1 .. Len(loadSecrets) : \E i \in fresh : loadSecrets[m] = list[i]
  BY <1>1, EntriesKept
<1>3. ASSUME NEW m \in 1 .. Len(loadSecrets)
      PROVE  \E i \in 1 .. Len(list) : list[i].id = loadSecrets[m].id
  <2>1. PICK i \in fresh : loadSecrets[m] = list[i]
    BY <1>2
  <2>2. i \in 1 .. Len(list)
    BY <1>1
  <2> QED BY <2>1, <2>2
<1>4. Ids(loadSecrets) \subseteq Ids(list)
  BY <1>3 DEF Ids
<1> QED BY <1>2, <1>4

LEMMA WithoutEntries ==
    ASSUME NEW entries \in Seq(Entry), NEW s \in Secrets
    PROVE  /\ Without(entries, s) \in Seq(Entry) /\ Len(Without(entries, s)) <= Len(entries)
           /\ Ids(Without(entries, s)) \subseteq Ids(entries) \ {s}
<1> DEFINE others == {i \in 1 .. Len(entries) : entries[i].id # s}
           rest == Without(entries, s)
<1>1. others \in SUBSET (1 .. Len(entries)) /\ rest = EntriesAt(entries, others)
      /\ \A i \in others : entries[i].id # s
  BY DEF Without
<1> HIDE DEF others, rest
<1>2. /\ rest \in Seq(Entry) /\ Len(rest) <= Len(entries)
      /\ \A m \in 1 .. Len(rest) : \E i \in others : rest[m] = entries[i]
  BY <1>1, EntriesKept
<1>3. Ids(rest) \subseteq Ids(entries) \ {s}
  BY <1>1, <1>2 DEF Ids
<1> QED BY <1>2, <1>3 DEF rest

LEMMA RecordedEntries ==
    ASSUME list \in Seq(Entry), now \in 0 .. MaxTime, NEW s \in Secrets,
           NEW views \in 1 .. MaxViews
    PROVE  /\ recordSecret(s, views) \in Seq(Entry)
           /\ Len(recordSecret(s, views)) <= MaxEntries
           /\ Ids(recordSecret(s, views)) \subseteq Ids(list) \cup {s}
<1> DEFINE entry == [id |-> s, views |-> views, expiresAt |-> now + Lifetime]
           rest == Without(loadSecrets, s)
           entries == Append(rest, entry)
           excess == IF Len(entries) > MaxEntries THEN Len(entries) - MaxEntries ELSE 0
           n == Len(entries)
<1>1. entry \in Entry /\ entry.id = s
  <2>1. now + Lifetime \in 0 .. MaxTime + Lifetime
    BY ProfileAssumption
  <2> QED BY <2>1 DEF Entry
<1>2. rest \in Seq(Entry) /\ Ids(rest) \subseteq Ids(list)
  BY LoadedEntries, WithoutEntries
<1>3. recordSecret(s, views) = SubSeq(entries, excess + 1, n)
  BY DEF recordSecret
<1> HIDE DEF entry, rest
<1>4. /\ entries \in Seq(Entry) /\ n = Len(rest) + 1 /\ Len(rest) \in Nat
      /\ \A i \in 1 .. n : entries[i] = entry \/ \E j \in 1 .. Len(rest) : entries[i] = rest[j]
  BY <1>1, <1>2
<1>5. n \in Nat /\ \A i \in 1 .. n : entries[i] \in Entry
  BY <1>4
<1>6. Ids(entries) \subseteq Ids(list) \cup {s}
  BY <1>1, <1>2, <1>4 DEF Ids
<1>7. n \in Nat /\ excess \in Nat /\ excess <= n /\ n - excess <= MaxEntries
  BY <1>5, ProfileAssumption
<1> HIDE DEF entries, excess, n
<1> DEFINE new == SubSeq(entries, excess + 1, n)
<1>8. /\ new \in Seq(Entry)
      /\ Len(new) = IF excess + 1 <= n THEN n - (excess + 1) + 1 ELSE 0
      /\ \A i \in 1 .. n - (excess + 1) + 1 : new[i] = entries[(excess + 1) + i - 1]
  <2>1. excess + 1 \in Int /\ n \in Int
    BY <1>7
  <2>2. \A i \in excess + 1 .. n : entries[i] \in Entry
    BY <1>5, <1>7
  <2> QED BY <2>1, <2>2, SubSeqProperties
<1> HIDE DEF new
<1>9. Len(new) \in Nat /\ Len(new) <= MaxEntries
      /\ \A i \in 1 .. Len(new) : i \in 1 .. n - (excess + 1) + 1
                                  /\ (excess + 1) + i - 1 \in 1 .. n
  BY <1>7, <1>8, ProfileAssumption
<1>10. \A i \in 1 .. Len(new) : \E j \in 1 .. n : new[i] = entries[j]
  BY <1>8, <1>9
<1>11. Ids(new) \subseteq Ids(entries)
  BY <1>10 DEF Ids, n
<1> QED BY <1>3, <1>6, <1>8, <1>9, <1>11 DEF new

LEMMA InitList == Init => ListInv
<1> SUFFICES ASSUME Init PROVE ListInv
  OBVIOUS
<1>1. ReadInv
  BY InitRead
<1>2. list \in Seq(Entry) /\ Len(list) <= MaxEntries /\ Ids(list) = {}
  BY ProfileAssumption DEF Init, ProfileInit, Ids
<1>3. /\ rows = [s \in Secrets |-> Absent] /\ polls = {} /\ view = NoPage
      /\ saidGone = {} /\ forgotten = {} /\ records = {}
  BY DEF Init, ListInit, FormInit
<1>4. ListTypeOK
  BY <1>3 DEF ListTypeOK, NoPage
<1>5. Rows = {}
  BY <1>3 DEF Rows
<1>6. ListHonest
  BY <1>2, <1>3, <1>5 DEF ListHonest
<1>7. \A s \in Secrets : RowHonest(s)
  BY <1>3 DEF RowHonest
<1> QED BY <1>1, <1>2, <1>3, <1>4, <1>6, <1>7 DEF ListInv

(* The ids of a list are secrets.                                          *)
LEMMA IdsAreSecrets ==
    ASSUME NEW entries \in Seq(Entry)
    PROVE  Ids(entries) \subseteq Secrets
<1>1. ASSUME NEW i \in 1 .. Len(entries) PROVE entries[i].id \in Secrets
  <2>1. entries[i] \in Entry
    BY ElementOfSeq
  <2> QED BY <2>1 DEF Entry
<1> QED BY <1>1 DEF Ids

(* Steps that leave the list page alone: what is listed was made before,   *)
(* what is made is not made again, and views are only taken.               *)
LEMMA ListFrame ==
    ASSUME ListInv, ReadInv', UNCHANGED listVars,
           list' \in Seq(Entry), Len(list') <= MaxEntries,
           \A s \in Secrets : send[s].phase \in {"made", "done"} =>
               send'[s].phase \in {"made", "done"} /\ left'[s] <= left[s],
           \A s \in records' : send'[s].phase \in {"made", "done"},
           \A s \in records' \ records : send[s].phase = "stored",
           \A s \in Ids(list') \ Ids(list) : s \in records \ records'
    PROVE  ListInv'
<1>1. /\ ListTypeOK /\ ListHonest /\ Typed /\ records \subseteq Secrets
      /\ UNCHANGED <<rows, polls, view, saidGone, forgotten>>
  BY DEF ListInv, ReadInv, Typed, FormTypeOK, listVars
<1>2. ListTypeOK' /\ Rows' = Rows /\ Rows \subseteq Secrets
  BY <1>1 DEF ListTypeOK, Rows
<1>3. Ids(list) \subseteq Secrets /\ Ids(list') \subseteq Secrets
  BY IdsAreSecrets DEF ListInv
<1>4. forgotten \subseteq Secrets /\ saidGone \subseteq Secrets
  BY <1>1 DEF ListTypeOK
<1>5. ASSUME NEW s \in Ids(list) \cup Rows \cup forgotten \cup saidGone PROVE Recorded(s)'
  <2>1. Recorded(s) /\ s \in Secrets
    BY <1>1, <1>2, <1>3, <1>4 DEF ListHonest
  <2>2. send'[s].phase \in {"made", "done"} /\ s \notin records'
    BY <2>1 DEF Recorded
  <2> QED BY <2>2 DEF Recorded
<1>6. ASSUME NEW s \in Ids(list') \ Ids(list) PROVE Recorded(s)' /\ s \notin forgotten
  <2>1. s \in records /\ s \notin records' /\ s \in Secrets
    BY <1>1
  <2>2. send[s].phase \in {"made", "done"} /\ s \notin forgotten
    BY <1>1, <2>1 DEF ListHonest, Recorded
  <2> QED BY <2>1, <2>2 DEF Recorded
<1>7. ListHonest'
  <2>1. \A s \in Ids(list') \cup Rows' \cup forgotten' \cup saidGone' : Recorded(s)'
    BY <1>1, <1>2, <1>5, <1>6
  <2>2. forgotten' \cap (Ids(list') \cup Rows') = {}
    BY <1>1, <1>2, <1>6 DEF ListHonest
  <2> QED BY <2>1, <2>2 DEF ListHonest
<1>8. ASSUME NEW s \in Rows \cup saidGone, left[s] = 0 PROVE left'[s] = 0
  <2>1. send[s].phase \in {"made", "done"} /\ s \in Secrets
    BY <1>1, <1>2, <1>4 DEF ListHonest, Recorded
  <2>2. left' \in [Secrets -> 0 .. MaxViews]
    BY DEF ReadInv, Typed
  <2>3. left'[s] \in 0 .. MaxViews /\ left'[s] <= left[s]
    BY <2>1, <2>2
  <2> QED BY <1>8, <2>3, ProfileAssumption
<1>9. ASSUME NEW q \in polls' PROVE PollHonest(q)' /\ \A r \in polls' : q = r
  <2>1. PollHonest(q) /\ \A r \in polls' : q = r
    BY <1>1, <1>9 DEF ListInv
  <2> QED BY <1>1, <1>2, <1>8, <2>1 DEF PollHonest
<1>10. ASSUME NEW s \in Secrets PROVE RowHonest(s)'
  BY <1>1, <1>8 DEF ListInv, RowHonest
<1> QED BY <1>2, <1>7, <1>9, <1>10 DEF ListInv

(* A step of the form.                                                     *)
LEMMA FormNextList ==
    ASSUME ListInv, ReadInv', FormNext, UNCHANGED listVars
    PROVE  ListInv'
<1>1. /\ Typed /\ ReadInv /\ ListHonest /\ records \subseteq Secrets
      /\ list \in Seq(Entry) /\ Len(list) <= MaxEntries
      /\ send \in [Secrets -> Submissions] /\ now \in 0 .. MaxTime
  BY TypedUnfolded DEF ListInv, ReadInv, Typed, FormTypeOK
<1>2. \A s \in Secrets : left[s] <= left[s]
  BY <1>1, Numbers
<1>3. \A s \in records : send[s].phase \in {"made", "done"}
  BY <1>1 DEF ListHonest
<1>4. ASSUME UNCHANGED <<send, records, left, list>> PROVE ListInv'
  BY <1>1, <1>2, <1>3, <1>4, ListFrame
<1>5. ASSUME NEW s \in Secrets, NEW new \in Submissions,
             send[s].phase \notin {"made", "done"} \/ new.phase = "done",
             send' = [send EXCEPT ![s] = new],
             \/ records' = records
             \/ records' = records \cup {s} /\ send[s].phase = "stored" /\ new.phase = "made",
             list' = list, \A v \in Secrets \ {s} : left'[v] = left[v],
             send[s].phase \in {"made", "done"} => left' = left
      PROVE  ListInv'
  <2>1. send'[s] = new /\ \A v \in Secrets \ {s} : send'[v] = send[v]
    BY <1>1, <1>5
  <2>2. \A v \in Secrets : send[v].phase \in {"made", "done"} =>
            send'[v].phase \in {"made", "done"} /\ left'[v] <= left[v]
    BY <1>2, <1>5, <2>1
  <2>3. \A v \in records' : send'[v].phase \in {"made", "done"}
    <3>1. \A v \in records : send'[v].phase \in {"made", "done"}
      BY <1>1, <1>3, <2>2
    <3> QED BY <1>5, <2>1, <3>1
  <2>4. \A v \in records' \ records : send[v].phase = "stored"
    BY <1>5
  <2> QED BY <1>1, <1>5, <2>2, <2>3, <2>4, ListFrame
<1>6. ASSUME NEW s \in Secrets, NEW p \in BOOLEAN, Submit(s, p) PROVE ListInv'
  <2> DEFINE new == [send[s] EXCEPT !.phase = "saving", !.setting = form.setting]
  <2>1. /\ send' = [send EXCEPT ![s] = new] /\ send[s].phase = "new"
        /\ UNCHANGED <<records, left, list>>
    BY <1>6 DEF Submit
  <2>2. form.setting \in Settings /\ send[s] \in Submissions
    BY <1>1 DEF Typed, FormTypeOK
  <2>3. new \in Submissions
    BY <2>2 DEF Submissions
  <2> HIDE DEF new
  <2> QED BY <1>5, <2>1, <2>3
<1>7. ASSUME NEW s \in Secrets, Store(s) PROVE ListInv'
  <2> DEFINE new == [send[s] EXCEPT !.phase = "stored"]
  <2>1. /\ send' = [send EXCEPT ![s] = new] /\ send[s].phase = "saving"
        /\ UNCHANGED <<records, list>>
    BY <1>7 DEF Store
  <2>2. new \in Submissions
    BY <1>1 DEF Submissions
  <2>3. \A v \in Secrets \ {s} : left'[v] = left[v]
    <3>1. left \in [Secrets -> 0 .. MaxViews]
      BY <1>1 DEF Typed
    <3> QED BY <1>7, <3>1 DEF Store
  <2> HIDE DEF new
  <2> QED BY <1>5, <2>1, <2>2, <2>3
<1>8. ASSUME NEW s \in Secrets, SaveAnswered(s) PROVE ListInv'
  <2> DEFINE one == [send[s] EXCEPT !.phase = "made", !.uses = send[s].setting.views]
             new == [send[s] EXCEPT !.phase = "made", !.uses = send[s].setting.views,
                                    !.label = form.setting]
  <2>1. /\ send' = [send EXCEPT ![s] = new] /\ send[s].phase = "stored"
        /\ records' = records \cup {s} /\ UNCHANGED <<left, list>>
    BY <1>8 DEF SaveAnswered, LinkReadyText, profileVars
  <2>2. /\ form.setting \in Settings /\ send[s] \in Submissions
        /\ send[s].setting.views \in 0 .. MaxViews
    BY <1>1, SettingsAssumption, ProfileAssumption DEF Typed, FormTypeOK, Submissions
  <2>3. new \in Submissions /\ new.phase = "made"
    <3>1. one \in Submissions /\ one.phase = "made"
      BY <2>2 DEF Submissions
    <3>2. new = [one EXCEPT !.label = form.setting]
      BY <2>2 DEF Submissions
    <3> HIDE DEF one, new
    <3> QED BY <2>2, <3>1, <3>2 DEF Submissions
  <2> HIDE DEF new
  <2> QED BY <1>5, <2>1, <2>3
<1>9. ASSUME NEW s \in Secrets, SaveFailed(s) PROVE ListInv'
  <2> DEFINE new == [send[s] EXCEPT !.phase = "failed"]
  <2>1. /\ send' = [send EXCEPT ![s] = new] /\ send[s].phase \in {"saving", "stored"}
        /\ UNCHANGED <<records, left, list>>
    BY <1>9 DEF SaveFailed, profileVars
  <2>2. new \in Submissions
    BY <1>1 DEF Submissions
  <2> HIDE DEF new
  <2> QED BY <1>5, <2>1, <2>2
<1>10. ASSUME NEW s \in Secrets, ShowLink(s) PROVE ListInv'
  <2> DEFINE new == [send[s] EXCEPT !.phase = "done"]
  <2>1. /\ send' = [send EXCEPT ![s] = new]
        /\ UNCHANGED <<records, left, list>>
    BY <1>10 DEF ShowLink, profileVars
  <2>2. new \in Submissions /\ new.phase = "done"
    BY <1>1 DEF Submissions
  <2> HIDE DEF new
  <2> QED BY <1>5, <2>1, <2>2
<1>11. ASSUME NEW s \in Secrets, Record(s) PROVE ListInv'
  <2>1. /\ s \in records /\ records' = records \ {s} /\ UNCHANGED <<send, left>>
        /\ list' = recordSecret(s, send[s].setting.views) \/ list' = list
    BY <1>11 DEF Record
  <2>2. send[s].setting.views \in 1 .. MaxViews
    BY <1>1, Numbers
  <2>3. list' \in Seq(Entry) /\ Len(list') <= MaxEntries /\ Ids(list') \subseteq Ids(list) \cup {s}
    <3>1. CASE list' = list
      BY <1>1, <3>1
    <3>2. CASE list' = recordSecret(s, send[s].setting.views)
      BY <1>1, <2>2, <3>2, RecordedEntries
    <3> QED BY <2>1, <3>1, <3>2
  <2>4. \A v \in Ids(list') \ Ids(list) : v \in records \ records'
    BY <2>1, <2>3
  <2> QED BY <1>2, <1>3, <2>1, <2>3, <2>4, ListFrame
<1>12. ASSUME NEW filled \in BOOLEAN, Type(filled) PROVE ListInv'
  BY <1>4, <1>12 DEF Type, profileVars
<1>13. ASSUME NEW w \in Settings, Choose(w) PROVE ListInv'
  BY <1>4, <1>13 DEF Choose, profileVars
<1>14. ASSUME Reset PROVE ListInv'
  BY <1>4, <1>14 DEF Reset, profileVars
<1> QED
  BY <1>6, <1>7, <1>8, <1>9, <1>10, <1>11, <1>12, <1>13, <1>14 DEF FormNext

(* A step around the list of which the service only takes views.           *)
LEMMA ViewsTaken ==
    ASSUME ListInv, ReadInv', UNCHANGED listVars, UNCHANGED <<send, records, list>>,
           \A s \in Secrets : left'[s] <= left[s]
    PROVE  ListInv'
<1>1. list' \in Seq(Entry) /\ Len(list') <= MaxEntries
      /\ \A s \in records : send[s].phase \in {"made", "done"}
  BY DEF ListInv, ListHonest
<1> QED BY <1>1, ListFrame

LEMMA ReadNextList ==
    ASSUME ListInv, ReadInv', ReadNext, UNCHANGED <<formVars, listVars>>
    PROVE  ListInv'
<1>1. Typed /\ left \in [Secrets -> 0 .. MaxViews]
  BY TypedUnfolded DEF ListInv, ReadInv
<1>2. \A s \in Secrets : left[s] \in Nat /\ left[s] <= left[s]
  BY <1>1, Numbers
<1>3. list' = list /\ send' = send /\ records' = records
  BY DEF ReadNext, Handle, Open, Close, TypePassphrase, Reveal, OpenKept, Answer, Garble,
         ReceiveMessage, ReceiveRefusal, Pause, Resend, profileVars, formVars
<1>4. left' = left \/ \E t \in Tabs : left' = [left EXCEPT ![tab[t].link] = @ - 1]
  BY DEF ReadNext, Handle, Open, Close, TypePassphrase, Reveal, OpenKept, Answer, Garble,
         ReceiveMessage, ReceiveRefusal, Pause, Resend, profileVars
<1>5. \A s \in Secrets : left'[s] <= left[s]
  <2>1. CASE left' = left
    BY <1>2, <2>1
  <2>2. ASSUME NEW t \in Tabs, left' = [left EXCEPT ![tab[t].link] = @ - 1],
               NEW s \in Secrets
        PROVE  left'[s] <= left[s]
    <3>1. left'[s] = left[s] \/ left'[s] = left[s] - 1
      BY <1>1, <2>2
    <3> QED BY <1>2, <3>1
  <2> QED BY <1>4, <2>1, <2>2
<1> QED BY <1>3, <1>5, ViewsTaken

(* Steps of the list page: what it shows was listed, and its requests ask  *)
(* for what it shows.                                                      *)
LEMMA ListMoves ==
    ASSUME ListInv, ReadInv', UNCHANGED <<send, records, left>>,
           list' \in Seq(Entry), Len(list') <= MaxEntries, ListTypeOK',
           Ids(list') \subseteq Ids(list), Rows' \subseteq Rows \cup Ids(list),
           saidGone' \subseteq saidGone \cup Rows, forgotten' \subseteq forgotten \cup Rows,
           forgotten' \cap (Ids(list') \cup Rows') = {},
           \A q \in polls' : PollHonest(q)' /\ \A r \in polls' : q = r,
           \A s \in Secrets : RowHonest(s)'
    PROVE  ListInv'
<1>1. ListHonest
  BY DEF ListInv
<1>2. ASSUME NEW s \in Ids(list') \cup Rows' \cup forgotten' \cup saidGone' PROVE Recorded(s)'
  <2>1. Recorded(s)
    BY <1>1 DEF ListHonest
  <2> QED BY <2>1 DEF Recorded
<1>3. ListHonest'
  BY <1>1, <1>2 DEF ListHonest
<1> QED BY <1>3 DEF ListInv

(* A refresh asks for all the rows, unless a request does already.         *)
LEMMA Refreshes ==
    ASSUME ListInv, refresh(Polled) \/ polls' = polls, UNCHANGED <<rows, saidGone, left>>
    PROVE  /\ polls' \subseteq [state : {"sent", "answered", "failed"},
                                ids : SUBSET Secrets, there : SUBSET Secrets]
           /\ \A q \in polls' : PollHonest(q)' /\ \A r \in polls' : q = r
<1>1. ListTypeOK /\ (\A q \in polls : PollHonest(q) /\ \A r \in polls : q = r)
  BY DEF ListInv
<1>2. Rows' = Rows /\ Rows \subseteq Secrets
  BY DEF Rows
<1>3. CASE polls' = polls
  <2>1. \A q \in polls : PollHonest(q)'
    BY <1>1, <1>2 DEF PollHonest
  <2> QED BY <1>1, <1>3, <2>1 DEF ListTypeOK
<1>4. CASE polls = {} /\ polls' = {Asking(Rows)}
  <2>0. PICK q \in [state : {"sent", "answered", "failed"},
                    ids : SUBSET Secrets, there : SUBSET Secrets] :
            q = Asking(Rows)
    BY <1>2 DEF Asking
  <2>1. q.state = "sent" /\ q.ids = Rows /\ q.there = {}
    BY <2>0 DEF Asking
  <2>2. PollHonest(q)'
    BY <1>2, <2>1 DEF PollHonest
  <2>3. polls' = {q}
    BY <1>4, <2>0
  <2> QED BY <2>2, <2>3
<1>5. polls' = polls \/ (polls = {} /\ polls' = {Asking(Rows)})
  BY DEF refresh, Polled, InFlight
<1> QED BY <1>3, <1>4, <1>5

(* A step of the list page that changes neither its rows nor the list.     *)
LEMMA PageWaits ==
    ASSUME ListInv, ReadInv', refresh(Polled) \/ polls' = polls,
           view' \in [open : BOOLEAN, hidden : BOOLEAN, timer : BOOLEAN],
           UNCHANGED <<rows, saidGone, forgotten, profileVars>>, UNCHANGED formVars
    PROVE  ListInv'
<1>1. ListTypeOK /\ list \in Seq(Entry) /\ Len(list) <= MaxEntries /\ ListHonest
  BY DEF ListInv
<1>2. /\ UNCHANGED <<rows, saidGone, forgotten, left, list>> /\ UNCHANGED <<send, records, left>>
  BY DEF profileVars, formVars
<1>3. /\ polls' \subseteq [state : {"sent", "answered", "failed"},
                           ids : SUBSET Secrets, there : SUBSET Secrets]
      /\ \A q \in polls' : PollHonest(q)' /\ \A r \in polls' : q = r
  BY <1>2, Refreshes
<1>4. ListTypeOK' /\ Rows' = Rows
  BY <1>1, <1>2, <1>3 DEF ListTypeOK, Rows
<1>5. Ids(list') \subseteq Ids(list) /\ list' \in Seq(Entry) /\ Len(list') <= MaxEntries
      /\ forgotten' \cap (Ids(list') \cup Rows') = {}
  BY <1>1, <1>2, <1>4 DEF ListHonest
<1>6. \A s \in Secrets : RowHonest(s)'
  BY <1>2 DEF ListInv, RowHonest
<1> QED BY <1>2, <1>3, <1>4, <1>5, <1>6, ListMoves

LEMMA StepOpenList ==
    ASSUME ListInv, ReadInv', OpenList, UNCHANGED formVars
    PROVE  ListInv'
<1>1. ListTypeOK /\ ListHonest /\ list \in Seq(Entry) /\ Len(list) <= MaxEntries
  BY DEF ListInv
<1> DEFINE ids == Ids(loadSecrets)
<1>2. /\ list' = loadSecrets /\ rows' = [s \in Secrets |-> IF s \in ids THEN renderRow ELSE Absent]
      /\ polls' = IF ids = {} THEN {} ELSE {Asking(ids)}
      /\ \E hidden \in BOOLEAN : view' = [open |-> TRUE, hidden |-> hidden, timer |-> ids # {}]
      /\ saidGone' = {} /\ forgotten' = forgotten
      /\ UNCHANGED <<send, records, left>>
  BY DEF OpenList, Ids, formVars
<1>3. /\ loadSecrets \in Seq(Entry) /\ Len(loadSecrets) <= Len(list) /\ Len(loadSecrets) \in Nat
      /\ ids \subseteq Ids(list) /\ ids \subseteq Secrets
  BY <1>1, LoadedEntries, IdsAreSecrets
<1> HIDE DEF ids
<1>4. Len(list') <= MaxEntries /\ list' \in Seq(Entry) /\ Ids(list') = ids
  <2>1. Len(list) \in Nat
    BY <1>1
  <2> QED BY <1>1, <1>2, <1>3, <2>1, ProfileAssumption DEF ids
<1>5. Rows' = ids
  BY <1>2, <1>3 DEF Rows, renderRow, Absent
<1>6. rows' \in [Secrets -> Labels \cup {Absent}]
  BY <1>2 DEF Labels, renderRow
<1>7. view' \in [open : BOOLEAN, hidden : BOOLEAN, timer : BOOLEAN]
  <2>1. PICK hidden \in BOOLEAN : view' = [open |-> TRUE, hidden |-> hidden, timer |-> ids # {}]
    BY <1>2
  <2>2. CASE ids = {}
    <3>1. view' = [open |-> TRUE, hidden |-> hidden, timer |-> FALSE]
      BY <2>1, <2>2
    <3> QED BY <3>1
  <2>3. CASE ids # {}
    <3>1. view' = [open |-> TRUE, hidden |-> hidden, timer |-> TRUE]
      BY <2>1, <2>3
    <3> QED BY <3>1
  <2> QED BY <2>2, <2>3
<1>8. /\ polls' \subseteq [state : {"sent", "answered", "failed"},
                           ids : SUBSET Secrets, there : SUBSET Secrets]
      /\ \A q \in polls' : PollHonest(q)' /\ \A r \in polls' : q = r
  <2>0. PICK q \in [state : {"sent", "answered", "failed"},
                    ids : SUBSET Secrets, there : SUBSET Secrets] :
            q = Asking(ids)
    BY <1>3 DEF Asking
  <2>1. q.state = "sent" /\ q.ids = ids /\ q.there = {}
    BY <2>0 DEF Asking
  <2>2. polls' = {} \/ polls' = {q}
    BY <1>2, <2>0
  <2>3. PollHonest(q)'
    BY <1>2, <1>5, <2>1 DEF PollHonest
  <2> QED BY <2>2, <2>3
<1>9. ListTypeOK'
  BY <1>1, <1>2, <1>6, <1>7, <1>8 DEF ListTypeOK
<1>10. \A s \in Secrets : RowHonest(s)'
  BY <1>2 DEF RowHonest
<1>11. forgotten' \cap (Ids(list') \cup Rows') = {}
  BY <1>1, <1>2, <1>3, <1>4, <1>5 DEF ListHonest
<1> QED BY <1>2, <1>3, <1>4, <1>5, <1>8, <1>9, <1>10, <1>11, ListMoves

LEMMA StepCloseList ==
    ASSUME ListInv, ReadInv', CloseList, UNCHANGED formVars
    PROVE  ListInv'
<1>1. ListTypeOK /\ ListHonest /\ list \in Seq(Entry) /\ Len(list) <= MaxEntries
  BY DEF ListInv
<1>2. /\ rows' = [s \in Secrets |-> Absent] /\ polls' = {} /\ view' = NoPage /\ saidGone' = {}
      /\ UNCHANGED <<forgotten, list>> /\ UNCHANGED <<send, records, left>>
  BY DEF CloseList, profileVars, formVars
<1>3. ListTypeOK' /\ Rows' = {}
  BY <1>1, <1>2 DEF ListTypeOK, NoPage, Rows
<1>4. \A s \in Secrets : RowHonest(s)'
  BY <1>2 DEF RowHonest
<1>5. forgotten' \cap (Ids(list') \cup Rows') = {} /\ Ids(list') \subseteq Ids(list)
  BY <1>1, <1>2, <1>3 DEF ListHonest
<1> QED BY <1>1, <1>2, <1>3, <1>4, <1>5, ListMoves

LEMMA StepTimer ==
    ASSUME ListInv, ReadInv', TimerFires \/ Click \/ Hide \/ Show, UNCHANGED formVars
    PROVE  ListInv'
<1>1. view \in [open : BOOLEAN, hidden : BOOLEAN, timer : BOOLEAN]
  BY DEF ListInv, ListTypeOK
<1>2. CASE TimerFires
  <2>1. refresh(Polled) /\ UNCHANGED <<rows, view, saidGone, forgotten, profileVars>>
    BY <1>2 DEF TimerFires
  <2> QED BY <1>1, <2>1, PageWaits
<1>3. CASE Click
  <2>1. refresh(Polled) /\ UNCHANGED <<rows, saidGone, forgotten, profileVars>>
        /\ view' = [view EXCEPT !.timer = TRUE]
    BY <1>3 DEF Click
  <2>2. view' \in [open : BOOLEAN, hidden : BOOLEAN, timer : BOOLEAN]
    BY <1>1, <2>1
  <2> QED BY <2>1, <2>2, PageWaits
<1>4. CASE Hide
  <2>1. polls' = polls /\ UNCHANGED <<rows, saidGone, forgotten, profileVars>>
        /\ view' = [view EXCEPT !.hidden = TRUE, !.timer = IF Rows = {} THEN @ ELSE FALSE]
    BY <1>4 DEF Hide
  <2>2. CASE Rows = {}
    <3>1. view' = [view EXCEPT !.hidden = TRUE, !.timer = view.timer]
      BY <1>1, <2>1, <2>2
    <3>2. view' \in [open : BOOLEAN, hidden : BOOLEAN, timer : BOOLEAN]
      BY <1>1, <3>1
    <3> QED BY <2>1, <3>2, PageWaits
  <2>3. CASE Rows # {}
    <3>1. view' = [view EXCEPT !.hidden = TRUE, !.timer = FALSE]
      BY <1>1, <2>1, <2>3
    <3>2. view' \in [open : BOOLEAN, hidden : BOOLEAN, timer : BOOLEAN]
      BY <1>1, <3>1
    <3> QED BY <2>1, <3>2, PageWaits
  <2> QED BY <2>2, <2>3
<1>5. CASE Show
  <2>1. /\ refresh(Polled) \/ polls' = polls
        /\ UNCHANGED <<rows, saidGone, forgotten, profileVars>>
        /\ view' = [view EXCEPT !.hidden = FALSE]
           \/ view' = [view EXCEPT !.hidden = FALSE, !.timer = TRUE]
    BY <1>5 DEF Show
  <2>2. view' \in [open : BOOLEAN, hidden : BOOLEAN, timer : BOOLEAN]
    BY <1>1, <2>1
  <2> QED BY <2>1, <2>2, PageWaits
<1> QED BY <1>2, <1>3, <1>4, <1>5

(* A request that was under way is answered, or fails.                     *)
LEMMA PollMoves ==
    ASSUME ListInv, ReadInv', NEW q \in polls,
           NEW new \in [state : {"sent", "answered", "failed"},
                        ids : SUBSET Secrets, there : SUBSET Secrets],
           Becomes(q, new), PollHonest(new),
           UNCHANGED <<rows, view, saidGone, forgotten, profileVars>>, UNCHANGED formVars
    PROVE  ListInv'
<1>1. ListTypeOK /\ list \in Seq(Entry) /\ Len(list) <= MaxEntries /\ ListHonest
      /\ polls = {q}
  BY DEF ListInv
<1>2. UNCHANGED <<rows, view, saidGone, forgotten, left, list>> /\ UNCHANGED <<send, records, left>>
  BY DEF profileVars, formVars
<1>3. polls' = {new}
  BY <1>1 DEF Becomes
<1>4. Rows' = Rows
  BY <1>2 DEF Rows
<1>5. PollHonest(new)'
  BY <1>2, <1>4 DEF PollHonest
<1>6. ListTypeOK'
  BY <1>1, <1>2, <1>3 DEF ListTypeOK
<1>7. \A s \in Secrets : RowHonest(s)'
  BY <1>2 DEF ListInv, RowHonest
<1>8. \A r \in polls' : PollHonest(r)' /\ \A w \in polls' : r = w
  BY <1>3, <1>5
<1>9. Ids(list') \subseteq Ids(list) /\ forgotten' \cap (Ids(list') \cup Rows') = {}
      /\ list' \in Seq(Entry) /\ Len(list') <= MaxEntries
  BY <1>1, <1>2, <1>4 DEF ListHonest
<1> QED BY <1>2, <1>4, <1>6, <1>7, <1>8, <1>9, ListMoves

LEMMA StepAnswerStatus ==
    ASSUME ListInv, ReadInv', NEW q \in polls, AnswerStatus(q), UNCHANGED formVars
    PROVE  ListInv'
<1>1. q \in [state : {"sent", "answered", "failed"}, ids : SUBSET Secrets, there : SUBSET Secrets]
      /\ PollHonest(q) /\ ListTypeOK
  BY DEF ListInv, ListTypeOK
<1>2. PICK there \in SUBSET Secrets : there = {s \in q.ids : left[s] > 0}
  BY <1>1
<1> DEFINE new == [q EXCEPT !.state = "answered", !.there = there]
<1>3. Becomes(q, new) /\ UNCHANGED <<rows, view, saidGone, forgotten, profileVars>>
  BY <1>2 DEF AnswerStatus
<1>4. /\ new \in [state : {"sent", "answered", "failed"},
                  ids : SUBSET Secrets, there : SUBSET Secrets]
      /\ new.state = "answered" /\ new.ids = q.ids /\ new.there = there
  BY <1>1, <1>2
<1> HIDE DEF new
<1>5. PollHonest(new)
  <2>1. Rows \subseteq new.ids /\ Rows \subseteq Secrets /\ saidGone \subseteq Secrets
    BY <1>1, <1>4 DEF PollHonest, Rows, ListTypeOK
  <2>2. \A s \in Secrets : left[s] \in Nat
    BY Numbers DEF ListInv, ReadInv
  <2>3. there \cap saidGone = {}
    <3>1. \A s \in saidGone : left[s] = 0
      BY <2>1 DEF ListInv, RowHonest
    <3> QED BY <1>2, <3>1
  <2>4. \A s \in (Rows \cap new.ids) \ there : left[s] = 0
    <3> SUFFICES ASSUME NEW s \in Rows, s \in q.ids, s \notin there PROVE left[s] = 0
      BY <1>4
    <3>1. left[s] \in Nat /\ ~ (left[s] > 0)
      BY <1>2, <2>1, <2>2
    <3> QED BY <3>1
  <2> QED BY <1>4, <2>1, <2>3, <2>4 DEF PollHonest
<1> QED BY <1>3, <1>4, <1>5, PollMoves

LEMMA StepStatusFails ==
    ASSUME ListInv, ReadInv', NEW q \in polls, StatusFails(q), UNCHANGED formVars
    PROVE  ListInv'
<1>1. q \in [state : {"sent", "answered", "failed"}, ids : SUBSET Secrets, there : SUBSET Secrets]
      /\ PollHonest(q)
  BY DEF ListInv, ListTypeOK
<1> DEFINE new == [q EXCEPT !.state = "failed", !.there = {}]
<1>2. Becomes(q, new) /\ UNCHANGED <<rows, view, saidGone, forgotten, profileVars>>
  BY DEF StatusFails
<1>3. /\ new \in [state : {"sent", "answered", "failed"},
                  ids : SUBSET Secrets, there : SUBSET Secrets]
      /\ new.state = "failed" /\ new.ids = q.ids /\ new.there = {}
  BY <1>1
<1> HIDE DEF new
<1>4. PollHonest(new)
  BY <1>1, <1>3 DEF PollHonest
<1> QED BY <1>2, <1>3, <1>4, PollMoves

(* What is painted of an answer is true of every row.                      *)
LEMMA StepUpdateStatuses ==
    ASSUME ListInv, ReadInv', NEW q \in polls, updateStatuses(q, granted), UNCHANGED formVars
    PROVE  ListInv'
<1>1. ListTypeOK /\ list \in Seq(Entry) /\ Len(list) <= MaxEntries /\ ListHonest
      /\ polls = {q} /\ PollHonest(q)
  BY DEF ListInv
<1>2. /\ q.state \in {"answered", "failed"} /\ polls' = {}
      /\ rows' = [s \in Secrets |-> IF s \in Rows THEN classify(q, s, granted[s]) ELSE Absent]
      /\ saidGone' = saidGone \cup {s \in Rows : rows'[s] \in {"consumed", "used"}}
      /\ UNCHANGED <<view, forgotten, left, list>> /\ UNCHANGED <<send, records, left>>
  BY <1>1 DEF updateStatuses, profileVars, formVars
<1>3. \A s \in Secrets : classify(q, s, granted[s]) \in Labels
  BY DEF classify, Labels
<1>4. rows' \in [Secrets -> Labels \cup {Absent}] /\ Rows' \subseteq Rows
  BY <1>2, <1>3 DEF Rows
<1>5. ListTypeOK'
  <2>1. saidGone' \subseteq Secrets
    BY <1>1, <1>2 DEF ListTypeOK, Rows
  <2> QED BY <1>1, <1>2, <1>4, <2>1 DEF ListTypeOK
<1>6. ASSUME NEW s \in Secrets PROVE RowHonest(s)'
  <2>1. CASE s \notin Rows
    <3>1. rows'[s] = Absent /\ (s \in saidGone' => s \in saidGone)
      BY <1>2, <2>1
    <3> QED BY <1>2, <3>1 DEF ListInv, RowHonest, Absent
  <2>2. CASE s \in Rows
    <3>1. rows'[s] = classify(q, s, granted[s])
      BY <1>2, <2>2
    <3>2. CASE q.state = "failed"
      <4>1. rows'[s] = "unknown" /\ (s \in saidGone' => s \in saidGone)
        BY <1>2, <3>1, <3>2 DEF classify
      <4> QED BY <1>2, <4>1 DEF ListInv, RowHonest
    <3>3. CASE q.state = "answered" /\ s \in q.there
      <4>1. rows'[s] \in {"available", "unread"} /\ s \notin saidGone
        BY <1>1, <3>1, <3>3 DEF classify, PollHonest
      <4>2. s \notin saidGone'
        BY <1>2, <4>1
      <4> QED BY <4>2 DEF RowHonest
    <3>4. CASE q.state = "answered" /\ s \notin q.there
      <4>1. rows'[s] \in {"used", "consumed"} /\ left[s] = 0
        BY <1>1, <2>2, <3>1, <3>4 DEF classify, PollHonest
      <4> QED BY <1>2, <4>1 DEF RowHonest
    <3> QED BY <1>2, <3>2, <3>3, <3>4
  <2> QED BY <2>1, <2>2
<1>7. saidGone' \subseteq saidGone \cup Rows /\ Ids(list') \subseteq Ids(list)
      /\ list' \in Seq(Entry) /\ Len(list') <= MaxEntries
      /\ forgotten' \cap (Ids(list') \cup Rows') = {}
  BY <1>1, <1>2, <1>4 DEF ListHonest
<1> QED BY <1>2, <1>4, <1>5, <1>6, <1>7, ListMoves

LEMMA StepForget ==
    ASSUME ListInv, ReadInv', NEW s \in Secrets, Forget(s), UNCHANGED formVars
    PROVE  ListInv'
<1>1. ListTypeOK /\ list \in Seq(Entry) /\ Len(list) <= MaxEntries /\ ListHonest
  BY DEF ListInv
<1>2. /\ s \in Rows /\ list' = Without(list, s) /\ rows' = [rows EXCEPT ![s] = Absent]
      /\ forgotten' = forgotten \cup {s} /\ view' = [view EXCEPT !.timer = @ /\ Rows # {s}]
      /\ UNCHANGED <<polls, saidGone, left>> /\ UNCHANGED <<send, records, left>>
  BY DEF Forget, formVars
<1>3. /\ list' \in Seq(Entry) /\ Len(list') <= Len(list) /\ Ids(list') \subseteq Ids(list) \ {s}
      /\ Len(list') \in Nat /\ Len(list) \in Nat
  BY <1>1, <1>2, WithoutEntries
<1>4. Len(list') <= MaxEntries
  BY <1>1, <1>3, ProfileAssumption
<1>5. /\ rows' \in [Secrets -> Labels \cup {Absent}] /\ rows'[s] = Absent
      /\ \A v \in Secrets \ {s} : rows'[v] = rows[v]
  BY <1>1, <1>2 DEF ListTypeOK
<1>6. Rows' \subseteq Rows \ {s}
  BY <1>5 DEF Rows
<1>7. view' \in [open : BOOLEAN, hidden : BOOLEAN, timer : BOOLEAN]
  <2>1. view \in [open : BOOLEAN, hidden : BOOLEAN, timer : BOOLEAN]
    BY <1>1 DEF ListTypeOK
  <2>2. CASE Rows = {s}
    <3>1. view' = [view EXCEPT !.timer = FALSE]
      BY <1>2, <2>2
    <3> QED BY <2>1, <3>1
  <2>3. CASE Rows # {s}
    <3>1. view' = [view EXCEPT !.timer = view.timer]
      BY <1>2, <2>1, <2>3
    <3> QED BY <2>1, <3>1
  <2> QED BY <2>2, <2>3
<1>8. ListTypeOK'
  BY <1>1, <1>2, <1>5, <1>7 DEF ListTypeOK
<1>9. \A q \in polls' : PollHonest(q)' /\ \A r \in polls' : q = r
  <2>1. \A q \in polls : PollHonest(q) /\ \A r \in polls : q = r
    BY DEF ListInv
  <2>2. \A q \in polls : PollHonest(q)'
    BY <1>2, <1>6, <2>1 DEF PollHonest
  <2> QED BY <1>2, <2>1, <2>2
<1>10. \A v \in Secrets : RowHonest(v)'
  BY <1>2, <1>5 DEF ListInv, RowHonest, Absent
<1>11. forgotten' \cap (Ids(list') \cup Rows') = {}
  BY <1>1, <1>2, <1>3, <1>6 DEF ListHonest
<1> QED BY <1>2, <1>3, <1>4, <1>6, <1>8, <1>9, <1>10, <1>11, ListMoves

LEMMA StepList == ListInv /\ [Next]_vars => ListInv'
<1> SUFFICES ASSUME ListInv, [Next]_vars PROVE ListInv'
  OBVIOUS
<1>1. ReadInv'
  BY StepRead DEF ListInv
<1>2. ASSUME UNCHANGED <<left, list>>, UNCHANGED <<formVars, listVars>> PROVE ListInv'
  <2>1. \A s \in Secrets : left'[s] <= left[s]
    BY <1>2, Numbers DEF ListInv, ReadInv
  <2> QED BY <1>1, <1>2, <2>1, ViewsTaken DEF formVars
<1>3. CASE FormNext /\ UNCHANGED <<readVars, listVars>>
  BY <1>1, <1>3, FormNextList
<1>4. CASE ReadNext /\ UNCHANGED <<formVars, listVars>>
  BY <1>1, <1>4, ReadNextList
<1>5. CASE ListNext(granted) /\ UNCHANGED <<formVars, readVars>>
  BY <1>1, <1>5, StepOpenList, StepCloseList, StepTimer, StepAnswerStatus, StepStatusFails,
     StepUpdateStatuses, StepForget DEF ListNext, Poll
<1>6. CASE Tick /\ UNCHANGED <<formVars, readVars, listVars>>
  BY <1>2, <1>6 DEF Tick
<1>7. ASSUME NEW s \in Secrets, SpentElsewhere(s), UNCHANGED <<formVars, readVars, listVars>>
      PROVE  ListInv'
  <2>1. PICK v \in 0 .. left[s] - 1 : left' = [left EXCEPT ![s] = v]
    BY <1>7 DEF SpentElsewhere
  <2>2. left \in [Secrets -> 0 .. MaxViews] /\ \A w \in Secrets : left[w] \in Nat
    BY Numbers, TypedUnfolded DEF ListInv, ReadInv
  <2>3. \A w \in Secrets : left'[w] <= left[w]
    BY <2>1, <2>2
  <2>4. UNCHANGED <<send, records, list>>
    BY <1>7 DEF SpentElsewhere, formVars
  <2> QED BY <1>1, <1>7, <2>3, <2>4, ViewsTaken
<1>8. CASE UNCHANGED vars
  BY <1>2, <1>8 DEF vars, profileVars
<1> QED BY <1>3, <1>4, <1>5, <1>6, <1>7, <1>8 DEF Next

------------------------------------------------------------------------------
(* The list, its page and its requests keep track of what was sent.        *)
THEOREM ListInvariant == Spec => []ListInv
BY InitList, StepList, PTL DEF Spec

(* The pages of a profile keep to the types of their variables.            *)
THEOREM ProfileTypesHold == Spec => []TypeOK
<1>1. ListInv => TypeOK
  BY DEF ListInv, ReadInv, Typed, TypeOK, ProfileTypeOK
<1> QED BY <1>1, ListInvariant, PTL

(* No row of mySecrets.ts turns unread after it was called consumed,       *)
(* however its requests and their failures fall.                           *)
THEOREM NoRowComesBack == Spec => []GoneStaysGone
<1>1. ListInv => GoneStaysGone
  <2> SUFFICES ASSUME ListInv, NEW s \in saidGone
               PROVE  rows[s] \notin {"unread", "available"}
    BY DEF GoneStaysGone
  <2>1. s \in Secrets
    BY DEF ListInv, ListTypeOK
  <2> QED BY <2>1 DEF ListInv, RowHonest
<1> QED BY <1>1, ListInvariant, PTL

(* No request of mySecrets.ts asks for a link that the user has removed    *)
(* from the list, on this page or an earlier one.                          *)
THEOREM ForgottenStaysForgotten == Spec => ForgottenIsNotAsked
<1> DEFINE NotAsked ==
       \A q \in polls' \ polls : q.state = "sent" => q.ids \cap forgotten = {}
<1>1. ListInv /\ [Next]_vars => [NotAsked]_listVars
  <2> SUFFICES ASSUME ListInv, [Next]_vars, NEW q \in polls' \ polls, q.state = "sent"
               PROVE  q.ids \cap forgotten = {}
    OBVIOUS
  <2>1. forgotten \cap (Ids(list) \cup Rows) = {} /\ list \in Seq(Entry)
    BY DEF ListInv, ListHonest
  <2>2. polls' # polls
    OBVIOUS
  <2>3. ListNext(granted)
    BY <2>2 DEF Next, vars, listVars
  <2>4. CASE OpenList
    <3>1. q = Asking(Ids(loadSecrets))
      BY <2>4 DEF OpenList, Ids
    <3>2. q.ids = Ids(loadSecrets)
      BY <3>1 DEF Asking
    <3> QED BY <2>1, <3>2, LoadedEntries
  <2>5. CASE TimerFires \/ Click \/ Show
    <3>1. refresh(Polled)
      BY <2>2, <2>5 DEF TimerFires, Click, Show
    <3>2. q = Asking(Rows)
      BY <3>1 DEF refresh, Polled
    <3>3. q.ids = Rows
      BY <3>2 DEF Asking
    <3> QED BY <2>1, <3>3
  <2>6. ASSUME NEW r \in polls, Poll(r, granted) PROVE FALSE
    <3>1. r \in [state : {"sent", "answered", "failed"},
                 ids : SUBSET Secrets, there : SUBSET Secrets]
      BY DEF ListInv, ListTypeOK
    <3>2. CASE AnswerStatus(r)
      <4>1. q = [r EXCEPT !.state = "answered", !.there = {s \in r.ids : left[s] > 0}]
        BY <3>2 DEF AnswerStatus, Becomes
      <4>2. q.state = "answered"
        BY <3>1, <4>1
      <4> QED BY <4>2
    <3>3. CASE StatusFails(r)
      <4>1. q = [r EXCEPT !.state = "failed", !.there = {}]
        BY <3>3 DEF StatusFails, Becomes
      <4>2. q.state = "failed"
        BY <3>1, <4>1
      <4> QED BY <4>2
    <3>4. CASE updateStatuses(r, granted)
      BY <3>4 DEF updateStatuses
    <3> QED BY <2>6, <3>2, <3>3, <3>4 DEF Poll
  <2>7. ~ CloseList /\ ~ Hide /\ \A s \in Secrets : ~ Forget(s)
    BY DEF CloseList, Hide, Forget
  <2> QED BY <2>3, <2>4, <2>5, <2>6, <2>7 DEF ListNext
<1> HIDE DEF NotAsked
<1>2. Spec => [][NotAsked]_listVars
  BY <1>1, ListInvariant, PTL DEF Spec
<1> QED BY <1>2 DEF ForgottenIsNotAsked, NotAsked
==============================================================================
