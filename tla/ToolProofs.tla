----------------------------- MODULE ToolProofs -----------------------------
(***************************************************************************)
(* Proofs about what the tools of an agent keep: the answers InfoGatherer  *)
(* collects, the list of tools beside their map, and the steps of a        *)
(* context beside theirs. For any number of calls, questions, instances,   *)
(* tools and steps. The three share no state.                              *)
(***************************************************************************)
EXTENDS InfoGathering, AgentSkills, ContextFlow,
        FiniteSetTheorems, SequenceTheorems, WellFoundedInduction, TLAPS

-----------------------------------------------------------------------------
(* InfoGathering: the answers                                              *)

Records == [question_index : Nat, answers : Seq(Nat)]

\* Whatever data is about, at the platform, in a call or in an answer, is in step:
\* calls are made with data that was once merged, and each answer extends its own.
GatherInv ==
    /\ gathered \in Records /\ InStep(gathered)
    /\ snapshot \in [ToolCalls -> Records] /\ \A c \in ToolCalls : InStep(snapshot[c])
    /\ update \in [ToolCalls -> Records] /\ \A c \in ToolCalls : InStep(update[c])

-----------------------------------------------------------------------------
\* One more answer, under the key of the question the data points at, keeps data
\* in step.
LEMMA OneMoreAnswer ==
    ASSUME NEW data \in Records, InStep(data)
    PROVE  LET next == Data(data.question_index + 1, Append(data.answers, data.question_index))
           IN next \in Records /\ InStep(next)
<1> DEFINE idx == data.question_index
           old == data.answers
           new == Append(old, idx)
<1>1. idx \in Nat /\ old \in Seq(Nat) /\ Len(old) = idx
  BY DEF Records, InStep
<1>2. new \in Seq(Nat) /\ Len(new) = idx + 1
  BY <1>1
<1>3. ASSUME NEW i \in DOMAIN new PROVE new[i] = i - 1
  <2>1. i \in 1..(idx + 1)
    BY <1>2, <1>3
  <2>2. CASE i = idx + 1
    BY <1>1, <2>2
  <2>3. CASE i # idx + 1
    <3>1. i \in DOMAIN old /\ new[i] = old[i]
      BY <1>1, <2>1, <2>3
    <3>2. QED
      BY <3>1 DEF InStep
  <2>4. QED
    BY <2>2, <2>3
<1>4. QED
  BY <1>1, <1>2, <1>3 DEF Data, Records, InStep

\* However many calls overlap, are repeated and are answered out of order, the
\* platform holds one answer for each question before the current one, in order.
THEOREM AnswersStayInStep == GatherSpec => []AnswersMatchQuestions
<1>1. GatherInit => GatherInv
  <2> SUFFICES ASSUME GatherInit PROVE GatherInv
    OBVIOUS
  <2>1. Data(0, <<>>) \in Records /\ InStep(Data(0, <<>>))
    BY DEF Data, Records, InStep
  <2>2. QED
    BY <2>1 DEF GatherInit, GatherInv
<1>2. GatherInv /\ [GatherNext]_gatherVars => GatherInv'
  <2> SUFFICES ASSUME GatherInv, [GatherNext]_gatherVars PROVE GatherInv'
    OBVIOUS
  <2>1. ASSUME NEW c \in ToolCalls, ToolCalled(c) PROVE GatherInv'
    BY <2>1 DEF ToolCalled, GatherInv
  <2>2. ASSUME NEW c \in ToolCalls, ToolCalledAgain(c) PROVE GatherInv'
    BY <2>2 DEF ToolCalledAgain, GatherInv
  <2>3. ASSUME NEW c \in ToolCalls, SubmitAnswer(c) PROVE GatherInv'
    <3> DEFINE idx == snapshot[c].question_index
               next == Data(idx + 1, Append(snapshot[c].answers, idx))
    <3>1. next \in Records /\ InStep(next)
      BY OneMoreAnswer DEF GatherInv
    <3>2. UNCHANGED <<gathered, snapshot>>
      BY <2>3 DEF SubmitAnswer
    <3>3. update' = [update EXCEPT ![c] = IF idx >= Questions THEN @ ELSE next]
      BY <2>3 DEF SubmitAnswer
    <3> HIDE DEF next
    <3>4. update' \in [ToolCalls -> Records] /\ \A d \in ToolCalls : InStep(update'[d])
      BY <3>1, <3>3 DEF GatherInv
    <3>5. QED
      BY <3>2, <3>4 DEF GatherInv
  <2>4. ASSUME NEW c \in ToolCalls, UpdateMerged(c) PROVE GatherInv'
    BY <2>4 DEF UpdateMerged, GatherInv
  <2>5. CASE UNCHANGED gatherVars
    BY <2>5 DEF gatherVars, GatherInv
  <2>6. QED
    BY <2>1, <2>2, <2>3, <2>4, <2>5 DEF GatherNext
<1>3. GatherInv => AnswersMatchQuestions
  BY DEF GatherInv, AnswersMatchQuestions
<1>4. QED
  BY <1>1, <1>2, <1>3, PTL DEF GatherSpec

\* What the platform holds counts questions there are: the index never passes the
\* end, late and repeated answers included.
LEMMA GatherTypesAtFirst == GatherInit => GatherTypeOK
<1> SUFFICES ASSUME GatherInit PROVE GatherTypeOK
  OBVIOUS
<1>1. Data(0, <<>>) \in GatheredData
  BY QuestionsAssumption DEF Data, GatheredData
<1>2. QED
  BY <1>1 DEF GatherInit, GatherTypeOK

LEMMA GatherTypesOn == GatherTypeOK /\ [GatherNext]_gatherVars => GatherTypeOK'
<1> SUFFICES ASSUME GatherTypeOK, [GatherNext]_gatherVars PROVE GatherTypeOK'
  OBVIOUS
<1>1. ASSUME NEW c \in ToolCalls, ToolCalled(c) PROVE GatherTypeOK'
  BY <1>1 DEF ToolCalled, GatherTypeOK
<1>2. ASSUME NEW c \in ToolCalls, ToolCalledAgain(c) PROVE GatherTypeOK'
  BY <1>2 DEF ToolCalledAgain, GatherTypeOK
<1>3. ASSUME NEW c \in ToolCalls, SubmitAnswer(c) PROVE GatherTypeOK'
  <2> DEFINE data == snapshot[c]
             idx == data.question_index
             next == Data(idx + 1, Append(data.answers, idx))
  <2>1. data \in GatheredData /\ update[c] \in GatheredData
    BY DEF GatherTypeOK
  <2>2. idx \in Nat /\ idx <= Questions /\ idx \in 0..Questions /\ data.answers \in Seq(0..Questions)
    BY <2>1, QuestionsAssumption DEF GatheredData
  <2> HIDE DEF data, idx
  <2>3. ASSUME ~(idx >= Questions) PROVE next \in GatheredData
    <3>1. idx + 1 \in 0..Questions /\ Append(data.answers, idx) \in Seq(0..Questions)
      BY <2>2, <2>3, QuestionsAssumption
    <3>2. QED
      BY <3>1 DEF Data, GatheredData
  <2> HIDE DEF next
  <2>4. PICK v \in GatheredData : update' = [update EXCEPT ![c] = v]
    <3>1. update' = [update EXCEPT ![c] = IF idx >= Questions THEN update[c] ELSE next]
      BY <1>3 DEF SubmitAnswer, data, idx, next
    <3>2. QED
      BY <2>1, <2>3, <3>1
  <2>5. /\ hook' \in [ToolCalls -> {"idle", "sent", "answered", "refused", "merged"}]
        /\ UNCHANGED <<gathered, snapshot, repeated>>
    BY <1>3 DEF SubmitAnswer, GatherTypeOK
  <2>6. QED
    BY <2>4, <2>5 DEF GatherTypeOK
<1>4. ASSUME NEW c \in ToolCalls, UpdateMerged(c) PROVE GatherTypeOK'
  BY <1>4 DEF UpdateMerged, GatherTypeOK
<1>5. CASE UNCHANGED gatherVars
  BY <1>5 DEF gatherVars, GatherTypeOK
<1>6. QED
  BY <1>1, <1>2, <1>3, <1>4, <1>5 DEF GatherNext

-----------------------------------------------------------------------------
(* Lists the code edits in place                                           *)

\* A set of positions that is not empty has a first one.
LEMMA FirstIsThere ==
    ASSUME NEW I \in SUBSET Nat, I # {}
    PROVE  Min(I) \in I
<1>1. PICK i \in I : \A j \in I : ~(<<j, i>> \in OpToRel(<, Nat))
  BY NatLessThanWellFounded, WFMin
<1>2. \A j \in I : i <= j
  <2> TAKE j \in I
  <2>1. ~(j < i)
    BY <1>1 DEF OpToRel
  <2>2. QED
    BY <2>1
<1>3. QED
  BY <1>2 DEF Min

\* append(l[:k], l[k+1:]...)
LEMMA RemoveAtFacts ==
    ASSUME NEW S, NEW l \in Seq(S), NEW k \in 1..Len(l)
    PROVE  /\ RemoveAt(l, k) \in Seq(S)
           /\ Len(RemoveAt(l, k)) = Len(l) - 1
           /\ \A i \in 1..(Len(l) - 1) : RemoveAt(l, k)[i] = IF i < k THEN l[i] ELSE l[i + 1]
<1> DEFINE x == SubSeq(l, 1, k - 1)
           y == SubSeq(l, k + 1, Len(l))
<1>1. /\ Len(l) \in Nat /\ k \in Nat /\ 1 <= k /\ k <= Len(l)
      /\ \A i \in 1..(k - 1) : i \in 1..Len(l)
      /\ \A i \in (k + 1)..Len(l) : i \in 1..Len(l)
  OBVIOUS
<1>2. x \in Seq(S) /\ Len(x) = k - 1 /\ \A i \in 1..(k - 1) : x[i] = l[i]
  BY <1>1, SubSeqProperties
<1>3. y \in Seq(S) /\ Len(y) = Len(l) - k /\ \A i \in 1..(Len(l) - k) : y[i] = l[k + i]
  BY <1>1, SubSeqProperties
<1> HIDE DEF x, y
<1>4. x \o y \in Seq(S) /\ Len(x \o y) = Len(l) - 1
  BY <1>1, <1>2, <1>3, ConcatProperties
<1>5. ASSUME NEW i \in 1..(Len(l) - 1)
      PROVE  (x \o y)[i] = IF i < k THEN l[i] ELSE l[i + 1]
  <2>1. CASE i < k
    BY <1>1, <1>2, <1>3, <2>1
  <2>2. CASE ~(i < k)
    <3>1. i - (k - 1) \in 1..(Len(l) - k) /\ k + (i - (k - 1)) = i + 1
      BY <1>1, <2>2
    <3>2. (x \o y)[i] = y[i - (k - 1)]
      BY <1>1, <1>2, <1>3, <2>2
    <3>3. QED
      BY <1>3, <2>2, <3>1, <3>2
  <2>3. QED
    BY <2>1, <2>2
<1>6. QED
  BY <1>4, <1>5 DEF RemoveAt, x, y

\* The list new is l with v put in at place k.
InsertedAt(new, S, l, k, v) ==
    /\ new \in Seq(S) /\ Len(new) = Len(l) + 1
    /\ \A i \in 1..(Len(l) + 1) :
          new[i] = IF i < k THEN l[i] ELSE IF i = k THEN v ELSE l[i - 1]

\* append(l[:k], append(v, l[k:]...)...)
LEMMA InsertAtFacts ==
    ASSUME NEW S, NEW l \in Seq(S), NEW k \in 1..(Len(l) + 1), NEW v \in S
    PROVE  InsertedAt(InsertAt(l, k, v), S, l, k, v)
<1> DEFINE x == SubSeq(l, 1, k - 1)
           y == SubSeq(l, k, Len(l))
           z == x \o <<v>>
<1>1. /\ Len(l) \in Nat /\ k \in Nat /\ 1 <= k /\ k <= Len(l) + 1
      /\ \A i \in 1..(k - 1) : i \in 1..Len(l)
      /\ \A i \in k..Len(l) : i \in 1..Len(l)
  OBVIOUS
<1>2. x \in Seq(S) /\ Len(x) = k - 1 /\ \A i \in 1..(k - 1) : x[i] = l[i]
  BY <1>1, SubSeqProperties
<1>3. y \in Seq(S) /\ Len(y) = Len(l) - k + 1 /\ \A i \in 1..(Len(l) - k + 1) : y[i] = l[k + i - 1]
  BY <1>1, SubSeqProperties
<1> HIDE DEF x, y
<1>4. z \in Seq(S) /\ Len(z) = k /\ (\A i \in 1..(k - 1) : z[i] = l[i]) /\ z[k] = v
  <2>1. /\ z \in Seq(S) /\ Len(z) = Len(x) + 1
        /\ \A i \in 1..Len(x) : z[i] = x[i]
        /\ z[Len(x) + 1] = v
    BY <1>2
  <2> HIDE DEF z
  <2>2. QED
    BY <1>1, <1>2, <2>1
<1> HIDE DEF z
<1>5. z \o y \in Seq(S) /\ Len(z \o y) = Len(l) + 1
  <2>1. z \o y \in Seq(S) /\ Len(z \o y) = Len(z) + Len(y)
    BY <1>3, <1>4, ConcatProperties
  <2>2. QED
    BY <1>1, <1>3, <1>4, <2>1
<1>6. ASSUME NEW i \in 1..(Len(l) + 1)
      PROVE  (z \o y)[i] = IF i < k THEN l[i] ELSE IF i = k THEN v ELSE l[i - 1]
  <2>1. CASE i <= k
    BY <1>1, <1>3, <1>4, <2>1
  <2>2. CASE ~(i <= k)
    <3>1. i - k \in 1..(Len(l) - k + 1) /\ k + (i - k) - 1 = i - 1
      BY <1>1, <2>2
    <3>2. (z \o y)[i] = y[i - k]
      BY <1>1, <1>3, <1>4, <2>2
    <3>3. QED
      BY <1>1, <1>3, <2>2, <3>1, <3>2
  <2>3. QED
    BY <2>1, <2>2
<1>7. InsertAt(l, k, v) = z \o y
  BY DEF InsertAt, x, y, z
<1>8. QED
  BY <1>5, <1>6, <1>7 DEF InsertedAt

-----------------------------------------------------------------------------
(* AgentSkills: skills and tools in step                                   *)

\* The list of tools has every tool that has a handler, once.
ToolsListed ==
    /\ \A i \in 1..Len(toolOrder) : tools[toolOrder[i]] # Nobody
    /\ \A n \in Names : tools[n] # Nobody => \E i \in 1..Len(toolOrder) : toolOrder[i] = n
    /\ \A i, j \in 1..Len(toolOrder) : toolOrder[i] = toolOrder[j] => i = j

\* The instance under a key is set up and has that key; one that was not set up found
\* its key taken by one that was; the tool of one that registered is there.
InstancesInPlace ==
    /\ \A k \in Keys : loaded[k] # Nobody =>
          loaded[k] \in ready /\ KeyOf(loaded[k]) = k
    /\ \A b \in ready : /\ adding[b] \in {"loaded", "added"}
                        /\ adding[b] = "added" => tools[ToolOf[b]] # Nobody \/ ToolOf[b] \in removed
    /\ \A b \in Adds \ ready :
          adding[b] \in {"loaded", "added"} =>
              SkillOf[b] \in Multi /\ \E y \in ready : KeyOf(y) = KeyOf(b)

-----------------------------------------------------------------------------
\* The names and keys of an instance.
LEMMA InstanceFacts ==
    ASSUME NEW b \in Adds
    PROVE  /\ ToolOf[b] \in Names /\ Unnamed \in Names /\ KeyOf(b) \in Keys
           /\ b # Nobody /\ User # Nobody
           /\ \A x \in Adds : KeyOf(x) = KeyOf(b) /\ SkillOf[b] \in Multi \ LateKey
                                => ToolOf[x] = ToolOf[b]
           /\ \A s \in Skills : KeyOf(b) = <<s, Unnamed>> /\ s \notin Multi => SkillOf[b] \notin Multi
  BY SkillsAssumption DEF Names, Keys, KeyOf, Skills

\* DefineTool, whoever calls it.
LEMMA DefineKeepsListed ==
    ASSUME SkillsTypeOK, ToolsListed, NEW n \in Names, NEW h \in Adds \cup {User}, h # Nobody,
           Define(n, h)
    PROVE  /\ toolOrder' \in Seq(Names) /\ tools' \in [Names -> Adds \cup {User, Nobody}]
           /\ ToolsListed' /\ tools'[n] # Nobody
           /\ \A m \in Names : tools[m] # Nobody => tools'[m] # Nobody
<1>1. /\ toolOrder \in Seq(Names) /\ Len(toolOrder) \in Nat
      /\ tools \in [Names -> Adds \cup {User, Nobody}] /\ tools' = [tools EXCEPT ![n] = h]
  BY DEF SkillsTypeOK, Define
<1>2. tools'[n] # Nobody /\ \A m \in Names : tools[m] # Nobody => tools'[m] # Nobody
  BY <1>1
<1>3. CASE tools[n] # Nobody
  <2>1. toolOrder' = toolOrder /\ \A m \in Names : tools'[m] # Nobody <=> tools[m] # Nobody
    BY <1>1, <1>3 DEF Define
  <2>2. \A i \in 1..Len(toolOrder) : toolOrder[i] \in Names
    BY <1>1
  <2>3. QED
    BY <1>1, <1>2, <2>1, <2>2 DEF ToolsListed
<1>4. CASE tools[n] = Nobody
  <2>1. /\ toolOrder' \in Seq(Names) /\ Len(toolOrder') = Len(toolOrder) + 1
        /\ toolOrder'[Len(toolOrder) + 1] = n
        /\ \A i \in 1..Len(toolOrder) :
              toolOrder'[i] = toolOrder[i] /\ toolOrder[i] \in Names /\ toolOrder[i] # n
        /\ \A i \in 1..Len(toolOrder') : i \in 1..Len(toolOrder) \/ i = Len(toolOrder) + 1
        /\ \A i \in 1..(Len(toolOrder) + 1) : i \in 1..Len(toolOrder')
    BY <1>1, <1>4 DEF Define, ToolsListed
  <2>2. \A i \in 1..Len(toolOrder') : tools'[toolOrder'[i]] # Nobody
    BY <1>1, <1>2, <2>1 DEF ToolsListed
  <2>3. ASSUME NEW m \in Names, tools'[m] # Nobody
        PROVE  \E i \in 1..Len(toolOrder') : toolOrder'[i] = m
    <3>1. CASE m = n
      BY <1>1, <2>1, <3>1
    <3>2. CASE m # n
      <4>1. PICK i \in 1..Len(toolOrder) : toolOrder[i] = m
        BY <1>1, <2>3, <3>2 DEF ToolsListed
      <4>2. i \in 1..Len(toolOrder') /\ toolOrder'[i] = m
        BY <1>1, <2>1, <4>1
      <4>3. QED
        BY <4>2
    <3>3. QED
      BY <3>1, <3>2
  <2>4. \A i, j \in 1..Len(toolOrder') : toolOrder'[i] = toolOrder'[j] => i = j
    BY <2>1 DEF ToolsListed
  <2>5. QED
    BY <1>1, <1>2, <2>1, <2>2, <2>3, <2>4 DEF ToolsListed
<1>5. QED
  BY <1>3, <1>4

\* RemoveFunction: the name leaves the map and, at its first place, the list.
LEMMA RemoveKeepsListed ==
    ASSUME SkillsTypeOK, ToolsListed, NEW n \in Names, RemoveFunction(n)
    PROVE  toolOrder' \in Seq(Names) /\ ToolsListed'
<1> DEFINE I == {i \in 1..Len(toolOrder) : toolOrder[i] = n}
           k == Min(I)
<1>1. /\ toolOrder \in Seq(Names) /\ Len(toolOrder) \in Nat /\ tools[n] # Nobody
      /\ tools \in [Names -> Adds \cup {User, Nobody}]
      /\ tools' = [tools EXCEPT ![n] = Nobody] /\ toolOrder' = RemoveFirst(toolOrder, n)
  BY DEF SkillsTypeOK, RemoveFunction
<1>2. I # {} /\ I \in SUBSET Nat
  BY <1>1 DEF ToolsListed
<1>3. k \in 1..Len(toolOrder) /\ toolOrder[k] = n
  BY <1>2, FirstIsThere
<1>4. SelectInSeq(toolOrder, LAMBDA v : v = n) = k
  BY <1>2 DEF SelectInSeq
<1>5. toolOrder' = RemoveAt(toolOrder, k)
  BY <1>1, <1>3, <1>4 DEF RemoveFirst
<1> HIDE DEF I, k
<1>6. /\ toolOrder' \in Seq(Names) /\ Len(toolOrder') = Len(toolOrder) - 1
      /\ \A i \in 1..(Len(toolOrder) - 1) :
            toolOrder'[i] = IF i < k THEN toolOrder[i] ELSE toolOrder[i + 1]
  <2>1. toolOrder \in Seq(Names)
    BY <1>1
  <2> DEFINE new == RemoveAt(toolOrder, k)
  <2>2. /\ new \in Seq(Names) /\ Len(new) = Len(toolOrder) - 1
        /\ \A i \in 1..(Len(toolOrder) - 1) :
              new[i] = IF i < k THEN toolOrder[i] ELSE toolOrder[i + 1]
    BY <1>3, <2>1, RemoveAtFacts
  <2> HIDE DEF new
  <2>3. QED
    BY <1>5, <2>2 DEF new
<1>7. ASSUME NEW i \in 1..Len(toolOrder')
      PROVE  \E j \in 1..Len(toolOrder) :
                j # k /\ toolOrder'[i] = toolOrder[j] /\ j = IF i < k THEN i ELSE i + 1
  BY <1>1, <1>3, <1>6
<1>8. \A i \in 1..Len(toolOrder') : tools'[toolOrder'[i]] # Nobody
  BY <1>1, <1>3, <1>7 DEF ToolsListed
<1>9. ASSUME NEW m \in Names, tools'[m] # Nobody
      PROVE  \E i \in 1..Len(toolOrder') : toolOrder'[i] = m
  <2>1. PICK j \in 1..Len(toolOrder) : toolOrder[j] = m /\ j # k
    BY <1>1, <1>3, <1>9 DEF ToolsListed
  <2>2. CASE j < k
    BY <1>1, <1>3, <1>6, <2>1, <2>2
  <2>3. CASE ~(j < k)
    <3>1. j - 1 \in 1..(Len(toolOrder) - 1) /\ ~(j - 1 < k) /\ (j - 1) + 1 = j
      BY <1>1, <1>3, <2>1, <2>3
    <3>2. toolOrder'[j - 1] = m
      BY <1>6, <2>1, <3>1
    <3>3. QED
      BY <1>6, <3>1, <3>2
  <2>4. QED
    BY <2>2, <2>3
<1>10. ASSUME NEW i \in 1..Len(toolOrder'), NEW j \in 1..Len(toolOrder'),
              toolOrder'[i] = toolOrder'[j]
       PROVE  i = j
  <2>1. (IF i < k THEN i ELSE i + 1) = (IF j < k THEN j ELSE j + 1)
    BY <1>7, <1>10 DEF ToolsListed
  <2>2. QED
    BY <1>1, <1>3, <1>6, <2>1
<1>11. QED
  BY <1>6, <1>8, <1>9, <1>10 DEF ToolsListed

\* Tools and skills stay in step: for any skills, any instances of them and any
\* tools the application defines and removes itself, the SWML lists every tool
\* once, and the tool of an added instance exists, unless it was removed or the
\* key could not know it.
THEOREM SkillsAndToolsInStep == SkillsSpec => [](SkillsTypeOK /\ SkillToolsSound)
<1> DEFINE Inv == SkillsTypeOK /\ ToolsListed /\ InstancesInPlace
<1>1. SkillsInit => Inv
  <2> SUFFICES ASSUME SkillsInit PROVE Inv
    OBVIOUS
  <2>1. toolOrder \in Seq(Names) /\ Len(toolOrder) = 0
    BY DEF SkillsInit
  <2>2. SkillsTypeOK
    BY <2>1 DEF SkillsInit, SkillsTypeOK
  <2>3. ToolsListed
    BY <2>1 DEF SkillsInit, ToolsListed
  <2>4. InstancesInPlace
    BY DEF SkillsInit, InstancesInPlace
  <2>5. QED
    BY <2>2, <2>3, <2>4
<1>2. Inv /\ [SkillsNext]_skillVars => Inv'
  <2> SUFFICES ASSUME SkillsTypeOK, ToolsListed, InstancesInPlace, [SkillsNext]_skillVars
               PROVE  SkillsTypeOK' /\ ToolsListed' /\ InstancesInPlace'
    OBVIOUS
  <2> USE DEF registry
  <2>1. CASE UNCHANGED skillVars
    BY <2>1 DEF skillVars, SkillsTypeOK, ToolsListed, InstancesInPlace
  <2>2. ASSUME NEW b \in Adds, LoadDuplicate(b) \/ LoadFails(b)
        PROVE  SkillsTypeOK' /\ ToolsListed' /\ InstancesInPlace'
    <3>1. UNCHANGED <<ready, loaded, tools, toolOrder, removed>> /\ adding[b] = "idle"
      BY <2>2 DEF LoadDuplicate, LoadFails
    <3>2. /\ \A x \in Adds : x # b => adding'[x] = adding[x]
          /\ adding'[b] \in {"loaded", "failed"}
          /\ adding'[b] = "loaded" =>
                SkillOf[b] \in Multi /\ \E y \in ready : KeyOf(y) = KeyOf(b)
          /\ adding' \in [Adds -> {"idle", "loaded", "failed", "added"}]
      BY <2>2, InstanceFacts DEF LoadDuplicate, LoadFails, SkillsTypeOK, InstancesInPlace
    <3>3. InstancesInPlace'
      BY <3>1, <3>2 DEF InstancesInPlace, SkillsTypeOK
    <3>4. QED
      BY <3>1, <3>2, <3>3 DEF SkillsTypeOK, ToolsListed
  <2>3. ASSUME NEW b \in Adds, LoadSucceeds(b)
        PROVE  SkillsTypeOK' /\ ToolsListed' /\ InstancesInPlace'
    <3>1. /\ UNCHANGED <<tools, toolOrder, removed>> /\ adding[b] = "idle"
          /\ loaded[KeyOf(b)] = Nobody /\ ready' = ready \cup {b} /\ KeyOf(b) \in Keys
      BY <2>3, InstanceFacts DEF LoadSucceeds
    <3>2. /\ \A x \in Adds : x # b => adding'[x] = adding[x]
          /\ adding'[b] = "loaded"
          /\ adding' \in [Adds -> {"idle", "loaded", "failed", "added"}]
      BY <2>3 DEF LoadSucceeds, SkillsTypeOK
    <3>3. /\ loaded' \in [Keys -> Adds \cup {Nobody}] /\ loaded'[KeyOf(b)] = b
          /\ \A k \in Keys : k # KeyOf(b) => loaded'[k] = loaded[k]
      BY <2>3, <3>1 DEF LoadSucceeds, SkillsTypeOK
    <3>4. \A x \in Adds : KeyOf(x) \in Keys /\ x # Nobody
      BY InstanceFacts
    <3>5. InstancesInPlace'
      <4>1. \A k \in Keys : loaded'[k] # Nobody => loaded'[k] \in ready' /\ KeyOf(loaded'[k]) = k
        BY <3>1, <3>3 DEF InstancesInPlace
      <4>2. \A x \in ready' : /\ adding'[x] \in {"loaded", "added"}
                              /\ adding'[x] = "added" =>
                                    tools'[ToolOf[x]] # Nobody \/ ToolOf[x] \in removed'
        BY <3>1, <3>2 DEF InstancesInPlace, SkillsTypeOK
      <4>3. \A x \in Adds \ ready' : adding'[x] \in {"loaded", "added"} =>
                SkillOf[x] \in Multi /\ \E y \in ready' : KeyOf(y) = KeyOf(x)
        BY <3>1, <3>2 DEF InstancesInPlace
      <4>4. QED
        BY <4>1, <4>2, <4>3 DEF InstancesInPlace, KeyOf
    <3>6. QED
      BY <3>1, <3>2, <3>3, <3>5 DEF SkillsTypeOK, ToolsListed
  <2>4. ASSUME NEW k \in Keys, RemoveSkill(k)
        PROVE  SkillsTypeOK' /\ ToolsListed' /\ InstancesInPlace'
    <3>1. /\ UNCHANGED <<adding, ready, tools, toolOrder, removed>>
          /\ loaded' = [loaded EXCEPT ![k] = Nobody]
      BY <2>4 DEF RemoveSkill
    <3>2. /\ loaded' \in [Keys -> Adds \cup {Nobody}]
          /\ \A h \in Keys : loaded'[h] # Nobody => loaded'[h] = loaded[h]
      BY <3>1 DEF SkillsTypeOK
    <3>3. InstancesInPlace'
      BY <3>1, <3>2 DEF InstancesInPlace, KeyOf
    <3>4. QED
      BY <3>1, <3>2, <3>3 DEF SkillsTypeOK, ToolsListed
  <2>5. ASSUME NEW b \in Adds, AddRegisters(b)
        PROVE  SkillsTypeOK' /\ ToolsListed' /\ InstancesInPlace'
    <3> DEFINE n == IF b \in ready THEN ToolOf[b] ELSE Unnamed
    <3>1. n \in Names /\ b # Nobody
      BY InstanceFacts
    <3>2. /\ Define(n, b) /\ UNCHANGED <<ready, loaded, removed>> /\ adding[b] = "loaded"
          /\ adding'[b] = "added" /\ \A x \in Adds : x # b => adding'[x] = adding[x]
          /\ adding' \in [Adds -> {"idle", "loaded", "failed", "added"}]
      BY <2>5 DEF AddRegisters, SkillsTypeOK
    <3>3. /\ toolOrder' \in Seq(Names) /\ tools' \in [Names -> Adds \cup {User, Nobody}]
          /\ ToolsListed' /\ tools'[n] # Nobody
          /\ \A m \in Names : tools[m] # Nobody => tools'[m] # Nobody
      BY <3>1, <3>2, DefineKeepsListed
    <3>4. \A x \in Adds : ToolOf[x] \in Names
      BY InstanceFacts
    <3>5. InstancesInPlace'
      <4>1. \A x \in ready : /\ adding'[x] \in {"loaded", "added"}
                             /\ adding'[x] = "added" =>
                                   tools'[ToolOf[x]] # Nobody \/ ToolOf[x] \in removed
        BY <3>2, <3>3, <3>4 DEF InstancesInPlace, SkillsTypeOK
      <4>2. \A x \in Adds \ ready : adding'[x] \in {"loaded", "added"} =>
                SkillOf[x] \in Multi /\ \E y \in ready : KeyOf(y) = KeyOf(x)
        BY <3>2 DEF InstancesInPlace
      <4>3. QED
        BY <3>2, <4>1, <4>2 DEF InstancesInPlace
    <3>6. QED
      BY <3>2, <3>3, <3>5 DEF SkillsTypeOK
  <2>6. ASSUME NEW n \in Names, UserDefines(n)
        PROVE  SkillsTypeOK' /\ ToolsListed' /\ InstancesInPlace'
    <3>1. /\ Define(n, User) /\ UNCHANGED <<adding, ready, loaded>> /\ removed' = removed \cup {n}
          /\ User # Nobody
      BY <2>6, SkillsAssumption DEF UserDefines
    <3>2. /\ toolOrder' \in Seq(Names) /\ tools' \in [Names -> Adds \cup {User, Nobody}]
          /\ ToolsListed' /\ \A m \in Names : tools[m] # Nobody => tools'[m] # Nobody
      BY <3>1, DefineKeepsListed
    <3>3. \A x \in Adds : ToolOf[x] \in Names
      BY InstanceFacts
    <3>4. InstancesInPlace'
      BY <3>1, <3>2, <3>3 DEF InstancesInPlace, SkillsTypeOK
    <3>5. QED
      BY <3>1, <3>2, <3>4 DEF SkillsTypeOK
  <2>7. ASSUME NEW n \in Names, RemoveFunction(n)
        PROVE  SkillsTypeOK' /\ ToolsListed' /\ InstancesInPlace'
    <3>1. /\ UNCHANGED <<adding, ready, loaded>> /\ removed' = removed \cup {n}
          /\ tools' = [tools EXCEPT ![n] = Nobody]
      BY <2>7 DEF RemoveFunction
    <3>2. toolOrder' \in Seq(Names) /\ ToolsListed'
      BY <2>7, RemoveKeepsListed
    <3>3. \A x \in Adds : ToolOf[x] \in Names
      BY InstanceFacts
    <3>4. InstancesInPlace'
      BY <3>1, <3>3 DEF InstancesInPlace, SkillsTypeOK
    <3>5. QED
      BY <3>1, <3>2, <3>4 DEF SkillsTypeOK
  <2>8. QED
    BY <2>1, <2>2, <2>3, <2>4, <2>5, <2>6, <2>7 DEF SkillsNext
<1>3. Inv => SkillsTypeOK /\ SkillToolsSound
  <2> SUFFICES ASSUME SkillsTypeOK, ToolsListed, InstancesInPlace
               PROVE  ToolsListedOnce /\ KnownInstanceHasTool
    BY DEF SkillToolsSound
  <2>1. ToolsListedOnce
    <3> SUFFICES ASSUME NEW n \in Names
                 PROVE  Cardinality({i \in DOMAIN toolOrder : toolOrder[i] = n})
                          = IF tools[n] = Nobody THEN 0 ELSE 1
      BY DEF ToolsListedOnce
    <3> DEFINE I == {i \in DOMAIN toolOrder : toolOrder[i] = n}
    <3>1. DOMAIN toolOrder = 1..Len(toolOrder)
      BY DEF SkillsTypeOK
    <3>2. CASE tools[n] = Nobody
      <4>1. I = {}
        BY <3>1, <3>2 DEF ToolsListed
      <4>2. QED
        BY <3>2, <4>1, FS_EmptySet
    <3>3. CASE tools[n] # Nobody
      <4>1. PICK i \in 1..Len(toolOrder) : toolOrder[i] = n
        BY <3>3 DEF ToolsListed
      <4>2. I = {i}
        BY <3>1, <4>1 DEF ToolsListed
      <4>3. Cardinality({i}) = 1
        BY FS_Singleton
      <4>4. QED
        BY <3>3, <4>2, <4>3
    <3>4. QED
      BY <3>2, <3>3
  <2>2. KnownInstanceHasTool
    <3> SUFFICES ASSUME NEW x \in Adds, adding[x] = "added", SkillOf[x] \notin LateKey
                 PROVE  \/ tools[ToolOf[x]] # Nobody \/ ToolOf[x] \in removed
                        \/ \E y \in ready : KeyOf(y) = KeyOf(x) /\ adding[y] = "loaded"
      BY DEF KnownInstanceHasTool
    <3>1. CASE x \in ready
      BY <3>1 DEF InstancesInPlace
    <3>2. CASE x \notin ready
      <4>1. SkillOf[x] \in Multi \ LateKey
        BY <3>2 DEF InstancesInPlace
      <4>2. PICK y \in ready : KeyOf(y) = KeyOf(x)
        BY <3>2 DEF InstancesInPlace
      <4>3. ToolOf[y] = ToolOf[x]
        BY <4>1, <4>2, InstanceFacts DEF SkillsTypeOK
      <4>4. adding[y] = "loaded" \/ tools[ToolOf[y]] # Nobody \/ ToolOf[y] \in removed
        BY <4>2 DEF InstancesInPlace
      <4>5. QED
        BY <4>2, <4>3, <4>4
    <3>3. QED
      BY <3>1, <3>2
  <2>3. QED
    BY <2>1, <2>2
<1>4. QED
  BY <1>1, <1>2, <1>3, PTL DEF SkillsSpec

-----------------------------------------------------------------------------
(* ContextFlow: the map and the list                                       *)

\* What the map has is in the list; and while no name was given twice the list has
\* no name twice and nothing the map has not.
MapFollowsList ==
    /\ \A i \in 1..Len(steps) : stepName[steps[i]] \in StepNames
    /\ \A n \in StepNames : stepMap[n] # NoRef => \E i \in 1..Len(steps) : stepName[steps[i]] = n
    /\ ~doubled => /\ \A i \in 1..Len(steps) : stepMap[stepName[steps[i]]] # NoRef
                   /\ \A i, j \in 1..Len(steps) : stepName[steps[i]] = stepName[steps[j]] => i = j

FlowInv == FlowTypeOK /\ MapFollowsList

-----------------------------------------------------------------------------
\* The first step of a name, if there is one.
LEMMA FirstNamedFacts ==
    ASSUME FlowTypeOK, NEW n \in StepNames
    PROVE  /\ FirstNamed(n) # 0 => /\ FirstNamed(n) \in 1..Len(steps)
                                   /\ stepName[steps[FirstNamed(n)]] = n
           /\ FirstNamed(n) = 0 => \A i \in 1..Len(steps) : stepName[steps[i]] # n
<1> DEFINE I == {i \in 1..Len(steps) : stepName[steps[i]] = n}
<1>1. I \in SUBSET Nat /\ (I # {} => Min(I) \in I)
  <2>1. I \in SUBSET Nat
    OBVIOUS
  <2>2. QED
    BY <2>1, FirstIsThere
<1>2. FirstNamed(n) = IF I # {} THEN Min(I) ELSE 0
  BY DEF FirstNamed, SelectInSeq
<1>3. QED
  BY <1>1, <1>2

\* Taking the step at a place out of the list: the others keep their names, and the
\* name is gone if it was there once.
LEMMA TakenOut ==
    ASSUME FlowTypeOK, MapFollowsList, NEW k \in 1..Len(steps)
    PROVE  LET rest == RemoveAt(steps, k) IN
           /\ rest \in Seq(StepObjs) /\ Len(rest) \in Nat
           /\ \A i \in 1..Len(rest) : stepName[rest[i]] \in StepNames
           /\ \A i \in 1..Len(rest) : \E j \in 1..Len(steps) : j # k /\ rest[i] = steps[j]
           /\ \A j \in 1..Len(steps) : j # k => \E i \in 1..Len(rest) : rest[i] = steps[j]
           /\ ~doubled => /\ \A i, j \in 1..Len(rest) :
                                stepName[rest[i]] = stepName[rest[j]] => i = j
                          /\ \A i \in 1..Len(rest) : stepName[rest[i]] # stepName[steps[k]]
<1> DEFINE rest == RemoveAt(steps, k)
<1>1. steps \in Seq(StepObjs) /\ Len(steps) \in Nat /\ k \in Nat /\ 1 <= k /\ k <= Len(steps)
  BY DEF FlowTypeOK
<1>2. /\ rest \in Seq(StepObjs) /\ Len(rest) = Len(steps) - 1
      /\ \A i \in 1..(Len(steps) - 1) : rest[i] = IF i < k THEN steps[i] ELSE steps[i + 1]
  BY <1>1, RemoveAtFacts
<1> HIDE DEF rest
<1>3. ASSUME NEW i \in 1..Len(rest)
      PROVE  \E j \in 1..Len(steps) :
                j # k /\ rest[i] = steps[j] /\ j = IF i < k THEN i ELSE i + 1
  BY <1>1, <1>2
<1>4. ASSUME NEW j \in 1..Len(steps), j # k PROVE \E i \in 1..Len(rest) : rest[i] = steps[j]
  <2>1. CASE j < k
    BY <1>1, <1>2, <2>1
  <2>2. CASE ~(j < k)
    <3>1. j - 1 \in 1..(Len(steps) - 1) /\ ~(j - 1 < k) /\ (j - 1) + 1 = j
      BY <1>1, <1>4, <2>2
    <3>2. QED
      BY <1>2, <3>1
  <2>3. QED
    BY <2>1, <2>2
<1>5. ASSUME ~doubled, NEW i \in 1..Len(rest), NEW j \in 1..Len(rest),
             stepName[rest[i]] = stepName[rest[j]]
      PROVE  i = j
  <2>1. PICK x \in 1..Len(steps) : rest[i] = steps[x] /\ x = IF i < k THEN i ELSE i + 1
    BY <1>3
  <2>2. PICK y \in 1..Len(steps) : rest[j] = steps[y] /\ y = IF j < k THEN j ELSE j + 1
    BY <1>3
  <2>3. x = y
    BY <1>5, <2>1, <2>2 DEF MapFollowsList
  <2>4. i \in Nat /\ j \in Nat
    BY <1>1, <1>2
  <2>5. QED
    BY <1>1, <2>1, <2>2, <2>3, <2>4
<1>6. ASSUME ~doubled, NEW i \in 1..Len(rest) PROVE stepName[rest[i]] # stepName[steps[k]]
  BY <1>3, <1>6 DEF MapFollowsList
<1>7. \A i \in 1..Len(rest) : stepName[rest[i]] \in StepNames
  BY <1>3 DEF MapFollowsList
<1>8. QED
  BY <1>1, <1>2, <1>3, <1>4, <1>5, <1>6, <1>7 DEF rest

\* RemoveStep: the name leaves the map, and the first step of it the list.
LEMMA RemoveKeepsFlow ==
    ASSUME FlowInv, NEW n \in StepNames, RemoveStep(n)
    PROVE  FlowInv'
<1> USE DEF FlowInv
<1> DEFINE k == FirstNamed(n)
           rest == RemoveAt(steps, k)
<1>1. /\ stepMap[n] # NoRef /\ stepMap' = [stepMap EXCEPT ![n] = NoRef]
      /\ steps' = rest /\ UNCHANGED <<stepName, stepRef, initialStep, flowTools, doubled>>
  BY DEF RemoveStep
<1>2. k \in 1..Len(steps) /\ stepName[steps[k]] = n
  BY <1>1, FirstNamedFacts DEF MapFollowsList
<1>3. /\ rest \in Seq(StepObjs) /\ Len(rest) \in Nat
      /\ \A i \in 1..Len(rest) : stepName[rest[i]] \in StepNames
      /\ \A i \in 1..Len(rest) : \E j \in 1..Len(steps) : j # k /\ rest[i] = steps[j]
      /\ \A j \in 1..Len(steps) : j # k => \E i \in 1..Len(rest) : rest[i] = steps[j]
      /\ ~doubled => /\ \A i, j \in 1..Len(rest) : stepName[rest[i]] = stepName[rest[j]] => i = j
                     /\ \A i \in 1..Len(rest) : stepName[rest[i]] # n
  BY <1>2, TakenOut
<1> HIDE DEF k, rest
<1>4. FlowTypeOK'
  BY <1>1, <1>3 DEF FlowTypeOK
<1>5. ASSUME NEW m \in StepNames, stepMap'[m] # NoRef
      PROVE  \E i \in 1..Len(steps') : stepName[steps'[i]] = m
  <2>1. m # n /\ stepMap[m] # NoRef
    BY <1>1, <1>5 DEF FlowTypeOK
  <2>2. PICK j \in 1..Len(steps) : stepName[steps[j]] = m
    BY <2>1 DEF MapFollowsList
  <2>3. QED
    BY <1>1, <1>2, <1>3, <2>1, <2>2
<1>6. ASSUME ~doubled, NEW i \in 1..Len(steps') PROVE stepMap'[stepName[steps'[i]]] # NoRef
  <2>1. PICK j \in 1..Len(steps) : steps'[i] = steps[j]
    BY <1>1, <1>3
  <2>2. stepName[steps'[i]] # n /\ stepMap[stepName[steps'[i]]] # NoRef
    BY <1>1, <1>3, <1>6, <2>1 DEF MapFollowsList
  <2>3. QED
    BY <1>1, <1>3, <2>2 DEF FlowTypeOK
<1>7. MapFollowsList'
  BY <1>1, <1>3, <1>5, <1>6 DEF MapFollowsList
<1>8. QED
  BY <1>4, <1>7

\* MoveStep: the first step of the name is taken out and put back elsewhere.
LEMMA MoveKeepsFlow ==
    ASSUME FlowInv, NEW n \in StepNames, NEW position \in Nat, MoveStep(n, position)
    PROVE  FlowInv'
<1> USE DEF FlowInv
<1> DEFINE k == FirstNamed(n)
           rest == RemoveAt(steps, k)
           p == (IF position > Len(rest) THEN Len(rest) ELSE position) + 1
<1>1. /\ k # 0 /\ steps' = InsertAt(rest, p, steps[k])
      /\ UNCHANGED <<stepMap, stepName, stepRef, initialStep, flowTools, doubled>>
  BY DEF MoveStep
<1>2. k \in 1..Len(steps) /\ stepName[steps[k]] = n /\ steps[k] \in StepObjs
  BY <1>1, FirstNamedFacts DEF FlowTypeOK
<1>3. /\ rest \in Seq(StepObjs) /\ Len(rest) \in Nat
      /\ \A i \in 1..Len(rest) : stepName[rest[i]] \in StepNames
      /\ \A i \in 1..Len(rest) : \E j \in 1..Len(steps) : j # k /\ rest[i] = steps[j]
      /\ \A j \in 1..Len(steps) : j # k => \E i \in 1..Len(rest) : rest[i] = steps[j]
      /\ ~doubled => /\ \A i, j \in 1..Len(rest) : stepName[rest[i]] = stepName[rest[j]] => i = j
                     /\ \A i \in 1..Len(rest) : stepName[rest[i]] # n
  BY <1>2, TakenOut
<1> HIDE DEF k, rest
<1>4. p \in 1..(Len(rest) + 1)
  BY <1>3
<1> HIDE DEF p
<1>5. /\ steps' \in Seq(StepObjs) /\ Len(steps') = Len(rest) + 1
      /\ \A i \in 1..(Len(rest) + 1) :
            steps'[i] = IF i < p THEN rest[i] ELSE IF i = p THEN steps[k] ELSE rest[i - 1]
  <2>1. rest \in Seq(StepObjs) /\ p \in 1..(Len(rest) + 1) /\ steps[k] \in StepObjs
    BY <1>2, <1>3, <1>4
  <2> DEFINE v == steps[k]
  <2>2. v \in StepObjs /\ steps' = InsertAt(rest, p, v)
    BY <1>1, <2>1
  <2> HIDE DEF v
  <2>3. InsertedAt(steps', StepObjs, rest, p, v)
    <3>1. InsertedAt(InsertAt(rest, p, v), StepObjs, rest, p, v)
      BY <2>1, <2>2, InsertAtFacts
    <3>2. QED
      BY <2>2, <3>1
  <2>4. QED
    BY <2>3 DEF InsertedAt, v
<1>6. ASSUME NEW i \in 1..Len(steps')
      PROVE  \/ i = p /\ steps'[i] = steps[k]
             \/ \E j \in 1..Len(rest) : /\ i # p /\ steps'[i] = rest[j]
                                        /\ i = IF j < p THEN j ELSE j + 1
  <2>1. CASE i < p
    BY <1>3, <1>4, <1>5, <2>1
  <2>2. CASE i = p
    BY <1>4, <1>5, <2>2
  <2>3. CASE i > p
    <3>1. i - 1 \in 1..Len(rest) /\ ~(i - 1 < p) /\ i = (i - 1) + 1
      BY <1>3, <1>4, <1>5, <2>3
    <3>2. steps'[i] = rest[i - 1]
      BY <1>3, <1>4, <1>5, <2>3
    <3>3. QED
      BY <1>4, <2>3, <3>1, <3>2
  <2>4. QED
    <3>1. i \in Nat /\ p \in Nat
      BY <1>3, <1>4, <1>5
    <3>2. i < p \/ i = p \/ i > p
      BY <3>1
    <3>3. QED
      BY <2>1, <2>2, <2>3, <3>2
<1>7. ASSUME NEW j \in 1..Len(steps) PROVE \E i \in 1..Len(steps') : steps'[i] = steps[j]
  <2>1. CASE j = k
    <3>1. p \in 1..Len(steps') /\ ~(p < p)
      BY <1>3, <1>4, <1>5
    <3>2. steps'[p] = steps[k]
      BY <1>4, <1>5, <3>1
    <3>3. QED
      BY <2>1, <3>1, <3>2
  <2>2. CASE j # k
    <3>1. PICK h \in 1..Len(rest) : rest[h] = steps[j]
      BY <1>3, <2>2
    <3>2. CASE h < p
      <4>1. h \in 1..Len(steps') /\ h \in 1..(Len(rest) + 1)
        BY <1>3, <1>5
      <4>2. steps'[h] = rest[h]
        BY <1>5, <3>2, <4>1
      <4>3. QED
        BY <3>1, <4>1, <4>2
    <3>3. CASE ~(h < p)
      <4>1. h + 1 \in 1..Len(steps') /\ ~(h + 1 < p) /\ h + 1 # p /\ (h + 1) - 1 = h
        BY <1>3, <1>4, <1>5, <3>3
      <4>2. QED
        BY <1>5, <3>1, <4>1
    <3>4. QED
      BY <3>2, <3>3
  <2>3. QED
    BY <2>1, <2>2
<1>8. FlowTypeOK'
  BY <1>1, <1>5 DEF FlowTypeOK
<1>9. \A i \in 1..Len(steps') : \E j \in 1..Len(steps) : steps'[i] = steps[j]
  BY <1>2, <1>3, <1>6
<1>10. ASSUME ~doubled, NEW i \in 1..Len(steps'), NEW j \in 1..Len(steps'),
              stepName[steps'[i]] = stepName[steps'[j]]
       PROVE  i = j
  <2>1. i = p <=> j = p
    <3>1. ASSUME NEW h \in 1..Len(steps'), stepName[steps'[h]] = n PROVE h = p
      <4>1. CASE h = p
        BY <4>1
      <4>2. CASE h # p
        <5>1. PICK x \in 1..Len(rest) : steps'[h] = rest[x]
          BY <1>6, <4>2
        <5>2. QED
          BY <1>3, <1>10, <3>1, <5>1
      <4>3. QED
        BY <4>1, <4>2
    <3>2. \A h \in 1..Len(steps') : h = p => stepName[steps'[h]] = n
      BY <1>2, <1>6
    <3>3. QED
      BY <1>10, <3>1, <3>2
  <2>2. CASE i = p
    BY <2>1, <2>2
  <2>3. CASE i # p
    <3>1. PICK x \in 1..Len(rest) : steps'[i] = rest[x] /\ i = IF x < p THEN x ELSE x + 1
      BY <1>6, <2>3
    <3>2. PICK y \in 1..Len(rest) : steps'[j] = rest[y] /\ j = IF y < p THEN y ELSE y + 1
      BY <1>6, <2>1, <2>3
    <3>3. x = y
      BY <1>3, <1>10, <3>1, <3>2
    <3>4. QED
      BY <3>1, <3>2, <3>3
  <2>4. QED
    BY <2>2, <2>3
<1>11. MapFollowsList'
  <2>1. \A i \in 1..Len(steps') : stepName[steps'[i]] \in StepNames
    BY <1>9 DEF MapFollowsList
  <2>2. ASSUME NEW m \in StepNames, stepMap[m] # NoRef
        PROVE  \E i \in 1..Len(steps') : stepName[steps'[i]] = m
    BY <1>7, <2>2 DEF MapFollowsList
  <2>3. ~doubled => \A i \in 1..Len(steps') : stepMap[stepName[steps'[i]]] # NoRef
    BY <1>9 DEF MapFollowsList
  <2>4. QED
    BY <1>1, <1>10, <2>1, <2>2, <2>3 DEF MapFollowsList
<1>12. QED
  BY <1>8, <1>11

\* AddStep: the new step is the last one, and takes its name over in the map.
LEMMA AddKeepsFlow ==
    ASSUME FlowInv, NEW o \in StepObjs, NEW n \in StepNames, AddStep(o, n)
    PROVE  FlowInv'
<1> USE DEF FlowInv
<1>1. /\ stepName[o] = NoRef /\ steps' = Append(steps, o) /\ stepMap' = [stepMap EXCEPT ![n] = o]
      /\ stepName' = [stepName EXCEPT ![o] = n] /\ doubled' = (doubled \/ stepMap[n] # NoRef)
      /\ UNCHANGED <<stepRef, initialStep, flowTools>>
  BY DEF AddStep
<1>2. /\ steps \in Seq(StepObjs) /\ Len(steps) \in Nat
      /\ steps' \in Seq(StepObjs) /\ Len(steps') = Len(steps) + 1
      /\ steps'[Len(steps) + 1] = o
      /\ \A i \in 1..Len(steps) : steps'[i] = steps[i] /\ steps[i] \in StepObjs
      /\ \A i \in 1..Len(steps') : i \in 1..Len(steps) \/ i = Len(steps) + 1
      /\ \A i \in 1..(Len(steps) + 1) : i \in 1..Len(steps')
  BY <1>1 DEF FlowTypeOK
<1>3. NoRef \notin StepNames /\ o # NoRef
  BY FlowAssumption
<1>4. /\ stepName'[o] = n /\ stepMap'[n] = o /\ doubled' \in BOOLEAN
      /\ \A m \in StepNames : m # n => stepMap'[m] = stepMap[m]
      /\ \A i \in 1..Len(steps) : stepName'[steps[i]] = stepName[steps[i]]
  BY <1>1, <1>2, <1>3 DEF FlowTypeOK, MapFollowsList
<1>5. FlowTypeOK'
  BY <1>1, <1>2, <1>4 DEF FlowTypeOK
<1>6. \A i \in 1..Len(steps') : stepName'[steps'[i]] \in StepNames
  BY <1>2, <1>4 DEF MapFollowsList
<1>7. ASSUME NEW m \in StepNames, stepMap'[m] # NoRef
      PROVE  \E i \in 1..Len(steps') : stepName'[steps'[i]] = m
  <2>1. CASE m = n
    BY <1>2, <1>4, <2>1
  <2>2. CASE m # n
    <3>1. PICK i \in 1..Len(steps) : stepName[steps[i]] = m
      BY <1>4, <1>7, <2>2 DEF MapFollowsList
    <3>2. i \in 1..Len(steps') /\ stepName'[steps'[i]] = m
      BY <1>2, <1>4, <3>1
    <3>3. QED
      BY <3>2
  <2>3. QED
    BY <2>1, <2>2
<1>8. ASSUME ~doubled'
      PROVE  /\ \A i \in 1..Len(steps') : stepMap'[stepName'[steps'[i]]] # NoRef
             /\ \A i, j \in 1..Len(steps') : stepName'[steps'[i]] = stepName'[steps'[j]] => i = j
  <2>1. ~doubled /\ stepMap[n] = NoRef
    BY <1>1, <1>8 DEF FlowTypeOK
  <2>2. \A i \in 1..Len(steps) : /\ stepName[steps[i]] \in StepNames /\ stepName[steps[i]] # n
                                 /\ stepMap[stepName[steps[i]]] # NoRef
    BY <2>1 DEF MapFollowsList
  <2>3. \A i \in 1..Len(steps') : stepMap'[stepName'[steps'[i]]] # NoRef
    BY <1>2, <1>3, <1>4, <2>2
  <2>4. \A i, j \in 1..Len(steps') : stepName'[steps'[i]] = stepName'[steps'[j]] => i = j
    BY <1>2, <1>4, <2>1, <2>2 DEF MapFollowsList
  <2>5. QED
    BY <2>3, <2>4
<1>9. MapFollowsList'
  BY <1>6, <1>7, <1>8 DEF MapFollowsList
<1>10. QED
  BY <1>5, <1>9

\* A flow that is rendered has no dangling reference but "next" in the valid_steps of
\* its last step and functions of a question, and while no name was given twice none
\* is refused that has no other: for any number of steps, names and tools, added,
\* removed, moved and referred to in any order.
THEOREM FlowIsJudgedRightly == FlowSpec => [](FlowTypeOK /\ FlowJudgedRightly)
<1>1. FlowInit => FlowInv
  <2> SUFFICES ASSUME FlowInit PROVE FlowInv
    OBVIOUS
  <2>1. steps \in Seq(StepObjs) /\ Len(steps) = 0
    BY DEF FlowInit
  <2>2. FlowTypeOK
    BY <2>1 DEF FlowInit, FlowTypeOK
  <2>3. MapFollowsList
    BY <2>1 DEF FlowInit, MapFollowsList
  <2>4. QED
    BY <2>2, <2>3 DEF FlowInv
<1>2. FlowInv /\ [FlowNext]_flowVars => FlowInv'
  <2> SUFFICES ASSUME FlowInv, [FlowNext]_flowVars PROVE FlowInv'
    OBVIOUS
  <2>1. ASSUME NEW n \in StepNames, NEW i \in 0..Cardinality(StepObjs), MoveStep(n, i) PROVE FlowInv'
    <3>1. i \in Nat
      OBVIOUS
    <3>2. QED
      BY <2>1, <3>1, MoveKeepsFlow
  <2>2. ASSUME NEW o \in StepObjs, NEW r \in Refs, SetReference(o, r) PROVE FlowInv'
    BY <2>2 DEF SetReference, FlowInv, FlowTypeOK, MapFollowsList
  <2>3. ASSUME NEW n \in StepNames, SetInitialStep(n) PROVE FlowInv'
    BY <2>3 DEF SetInitialStep, FlowInv, FlowTypeOK, MapFollowsList
  <2>4. ASSUME NEW t \in FlowTools, ChangeTools(t) PROVE FlowInv'
    BY <2>4 DEF ChangeTools, FlowInv, FlowTypeOK, MapFollowsList
  <2>5. CASE UNCHANGED flowVars
    BY <2>5 DEF flowVars, FlowInv, FlowTypeOK, MapFollowsList
  <2>6. QED
    BY <2>1, <2>2, <2>3, <2>4, <2>5, AddKeepsFlow, RemoveKeepsFlow DEF FlowNext
<1>3. FlowInv => FlowTypeOK /\ FlowJudgedRightly
  <2> SUFFICES ASSUME FlowInv PROVE FlowJudgedRightly
    BY DEF FlowInv
  <2> USE DEF FlowInv
  <2>1. /\ steps \in Seq(StepObjs) /\ Len(steps) \in Nat /\ DOMAIN steps = 1..Len(steps)
        /\ Len(steps) > 0 <=> steps # <<>>
    BY DEF FlowTypeOK
  <2>2. \A i \in 1..Len(steps) : i # Len(steps) <=> i + 1 \in 1..Len(steps)
    <3>1. \A l \in Nat : \A i \in 1..l : i # l <=> i + 1 \in 1..l
      OBVIOUS
    <3>2. QED
      BY <2>1, <3>1
  <2>3. \A n \in StepNames : stepMap[n] # NoRef => n \in Rendered
    BY <2>1 DEF MapFollowsList, Rendered
  <2>4. ~doubled => \A n \in Rendered : stepMap[n] # NoRef
    BY <2>1 DEF MapFollowsList, Rendered
  <2>5. \A i \in 1..Len(steps) : stepRef[steps[i]] \in Refs \cup {NoRef}
    BY <2>1 DEF FlowTypeOK
  <2>6. NoRef \notin Refs /\ Following \notin StepNames \cup FlowTools /\ StepNames \cap FlowTools = {}
    BY FlowAssumption
  <2>7. ASSUME NEW i \in 1..Len(steps), Ref(i) # NoRef
        PROVE  \/ Ref(i).by \in {"valid_steps", "completion_action"} /\ Ref(i).to \in StepNames \cup {Following}
               \/ Ref(i).by \in {"functions", "questions"} /\ Ref(i).to \in FlowTools
    BY <2>5, <2>7 DEF Ref, Refs
  <2>8. Validate => Closed
    <3> SUFFICES ASSUME Validate PROVE Closed
      OBVIOUS
    <3>1. steps # <<>> /\ initialStep \in Rendered \cup {NoRef}
      BY <2>1, <2>3 DEF Validate, FlowTypeOK
    <3>2. ASSUME NEW i \in 1..Len(steps), Dangling(i) PROVE MayDangle(i)
      <4>1. Ref(i) # NoRef /\ RefAccepted(i)
        BY <2>1, <3>2 DEF Validate, Dangling
      <4>2. CASE Ref(i).to \in StepNames \ Rendered
        BY <2>3, <4>1, <4>2 DEF RefAccepted
      <4>3. CASE Ref(i).to = Following /\ i + 1 \notin DOMAIN steps
        <5>1. i = Len(steps)
          BY <2>1, <2>2, <4>3
        <5>2. Ref(i).by # "completion_action"
          BY <4>1, <4>3, <5>1 DEF RefAccepted
        <5>3. QED
          BY <2>6, <2>7, <4>1, <4>3, <5>2 DEF MayDangle
      <4>4. CASE Ref(i).to \in FlowTools \ flowTools
        <5>1. Ref(i).by # "functions"
          BY <4>1, <4>4 DEF RefAccepted
        <5>2. QED
          BY <2>6, <2>7, <4>1, <4>4, <5>1 DEF MayDangle
      <4>5. QED
        BY <3>2, <4>2, <4>3, <4>4 DEF Dangling
    <3>3. QED
      BY <2>1, <3>1, <3>2 DEF Closed
  <2>9. ASSUME ~doubled, Closed PROVE Validate
    <3>1. Len(steps) > 0 /\ (initialStep = NoRef \/ stepMap[initialStep] # NoRef)
      BY <2>1, <2>4, <2>9 DEF Closed
    <3>2. ASSUME NEW i \in 1..Len(steps), Ref(i) # NoRef PROVE RefAccepted(i)
      <4>1. Dangling(i) => MayDangle(i)
        BY <2>1, <2>9 DEF Closed
      <4>2. Ref(i).to \in StepNames => stepMap[Ref(i).to] # NoRef
        <5>1. Ref(i).to \in StepNames => ~MayDangle(i)
          BY <2>6, <2>7, <3>2 DEF MayDangle
        <5>2. QED
          BY <2>4, <2>9, <3>2, <4>1, <5>1 DEF Dangling
      <4>3. Ref(i).by = "completion_action" /\ Ref(i).to = Following => i # Len(steps)
        BY <2>1, <2>2, <3>2, <4>1 DEF Dangling, MayDangle
      <4>4. Ref(i).by = "functions" => Ref(i).to \in flowTools
        BY <2>7, <3>2, <4>1 DEF Dangling, MayDangle
      <4>5. QED
        BY <4>2, <4>3, <4>4 DEF RefAccepted
    <3>3. QED
      BY <2>1, <3>1, <3>2 DEF Validate, RefAccepted
  <2>10. QED
    BY <2>8, <2>9 DEF FlowJudgedRightly
<1>4. QED
  BY <1>1, <1>2, <1>3, PTL DEF FlowSpec
=============================================================================
