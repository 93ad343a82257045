------------------------ MODULE EquivalenceRelation ------------------------
(***************************************************************************)
(* The equivalence relation on which the fuzzer's facts about synonymous   *)
(* data rest: source/fuzz/equivalence_relation.h.  A forest of values,     *)
(* whose roots represent the classes.  Every question goes through Find,   *)
(* a const method that rewrites the forest (path compression), one         *)
(* iteration of its two loops being one step here.  One call is in         *)
(* progress at a time.  A value stands for its canonical pointer.          *)
(***************************************************************************)
EXTENDS Naturals, Sequences, Subsequences

CONSTANT Values      \* what may be registered

VARIABLES
  known,      \* value_set_ and owned_values_
  parent,     \* parent_
  children,   \* children_
  call,       \* [op, args] of the call in progress or of the last one
  found,      \* what the Finds of the call returned so far
  current,    \* Find: the value whose parent is to be compressed
  result,     \* Find: the ancestor reached
  stack,      \* GetEquivalenceClass: values to visit
  collected,  \* GetEquivalenceClass: values visited
  pc          \* "idle", "chase", "compress", "return", "collect"

forest == <<known, parent, children>>
vars == <<known, parent, children, call, found, current, result, stack, collected, pc>>

NoCall == [op |-> "None", args |-> << >>]

Calls(K) ==
  [op : {"Find", "GetEquivalenceClass"}, args : {<<v>> : v \in K}]
    \cup [op : {"IsEquivalent", "MakeEquivalent"}, args : {<<v, w>> : v \in K, w \in K}]

\* s without its element at position k.
Without(s, k) == [i \in 1..(Len(s) - 1) |-> IF i < k THEN s[i] ELSE s[i + 1]]

\* std::find and erase: s without its first v.
Erase(s, v) ==
  Without(s, CHOOSE k \in DOMAIN s : s[k] = v /\ \A j \in 1..(k - 1) : s[j] # v)

\* The values that every set which is closed under parents and children and
\* holds v also holds: the tree of v.
Closed(S) == \A x \in known : parent[x] \in S <=> x \in S
ClassOf(v) == {w \in known : \A S \in SUBSET known : Closed(S) /\ v \in S => w \in S}

IsRepresentative(v) == v \in known /\ parent[v] = v

Init ==
  /\ known = {}
  /\ parent = [v \in known |-> v]
  /\ children = [v \in known |-> << >>]
  /\ call = NoCall
  /\ found = << >>
  /\ current \in Values
  /\ result = current
  /\ stack = << >>
  /\ collected = << >>
  /\ pc = "idle"

\* Mutant: a known value is registered again.
RegisterAgain(v) ==
  /\ pc = "idle"
  /\ known' = known \cup {v}
  /\ parent' = [x \in known' |-> IF x = v THEN v ELSE parent[x]]
  /\ children' = [x \in known' |-> IF x = v THEN << >> ELSE children[x]]
  /\ call' = NoCall
  /\ UNCHANGED <<found, current, result, stack, collected, pc>>

Register(v) ==
  /\ pc = "idle"
  /\ v \notin known
  /\ known' = known \cup {v}
  /\ parent' = [x \in known' |-> IF x = v THEN v ELSE parent[x]]
  /\ children' = [x \in known' |-> IF x = v THEN << >> ELSE children[x]]
  /\ call' = NoCall
  /\ UNCHANGED <<found, current, result, stack, collected, pc>>

\* Find is entered: known_value is looked up.
StartFind(v) ==
  /\ current' = v
  /\ result' = v
  /\ pc' = "chase"

\* MakeEquivalent of a value and itself returns before any Find.
Nothing(c) == c.op = "MakeEquivalent" /\ c.args[1] = c.args[2]

Start(c) ==
  /\ pc = "idle"
  /\ ~Nothing(c)
  /\ call' = c
  /\ found' = << >>
  /\ stack' = << >>
  /\ collected' = << >>
  /\ StartFind(c.args[1])
  /\ UNCHANGED forest

\* Mutant: one step up the chain of ancestors only.
ChaseOnce ==
  /\ pc = "chase"
  /\ parent[result] # result
  /\ result' = parent[result]
  /\ pc' = "compress"
  /\ UNCHANGED <<known, parent, children, call, found, current, stack, collected>>

\* Mutant: the parent of the value asked about is taken every time.
ChaseFromBelow ==
  /\ pc = "chase"
  /\ parent[result] # result
  /\ result' = parent[current]
  /\ UNCHANGED <<known, parent, children, call, found, current, stack, collected, pc>>

\* The first loop of Find, up to a value that is its own parent.
Chase ==
  /\ pc = "chase"
  /\ parent[result] # result
  /\ result' = parent[result]
  /\ UNCHANGED <<known, parent, children, call, found, current, stack, collected, pc>>

Chased ==
  /\ pc = "chase"
  /\ parent[result] = result
  /\ pc' = "compress"
  /\ UNCHANGED <<known, parent, children, call, found, current, result, stack, collected>>

\* Mutant: the child is not erased from its former parent's list.
MovedWithoutErasing(v, from, to) == [children EXCEPT ![to] = Append(@, v)]

\* The lists of children once v has moved from one parent to another.
Moved(v, from, to) ==
  [children EXCEPT ![to] = Append(@, v), ![from] = Erase(@, v)]

\* The second loop of Find.
Compress ==
  /\ pc = "compress"
  /\ parent[current] # result
  /\ parent' = [parent EXCEPT ![current] = result]
  /\ children' = Moved(current, parent[current], result)
  /\ current' = parent[current]
  /\ UNCHANGED <<known, call, found, result, stack, collected, pc>>

\* Find returns; the call goes on to its next argument, if it has one.
EndFind ==
  /\ pc = "compress"
  /\ parent[current] = result
  /\ found' = Append(found, result)
  /\ IF Len(found') < Len(call.args)
     THEN StartFind(call.args[Len(found') + 1])
     ELSE pc' = "return" /\ UNCHANGED <<current, result>>
  /\ UNCHANGED <<known, parent, children, call, stack, collected>>

\* Find and IsEquivalent: the answer is in found.
Answer ==
  /\ pc = "return"
  /\ call.op \in {"Find", "IsEquivalent"}
  /\ pc' = "idle"
  /\ UNCHANGED <<known, parent, children, call, found, current, result, stack, collected>>

\* Mutant: the values, not their representatives, are linked.
LinkValues ==
  /\ pc = "return"
  /\ call.op = "MakeEquivalent"
  /\ IF found[1] = found[2]
     THEN UNCHANGED <<parent, children>>
     ELSE /\ parent' = [parent EXCEPT ![call.args[1]] = call.args[2]]
          /\ children' = [children EXCEPT ![call.args[2]] = Append(@, call.args[1])]
  /\ pc' = "idle"
  /\ UNCHANGED <<known, call, found, current, result, stack, collected>>

\* MakeEquivalent: the first representative becomes a child of the second.
Link ==
  /\ pc = "return"
  /\ call.op = "MakeEquivalent"
  /\ IF found[1] = found[2]
     THEN UNCHANGED <<parent, children>>
     ELSE /\ parent' = [parent EXCEPT ![found[1]] = found[2]]
          /\ children' = [children EXCEPT ![found[2]] = Append(@, found[1])]
  /\ pc' = "idle"
  /\ UNCHANGED <<known, call, found, current, result, stack, collected>>

\* Mutant: the traversal starts at the value asked about.
StartCollectingBelow ==
  /\ pc = "return"
  /\ call.op = "GetEquivalenceClass"
  /\ stack' = call.args
  /\ pc' = "collect"
  /\ UNCHANGED <<known, parent, children, call, found, current, result, collected>>

\* GetEquivalenceClass: the traversal starts at the representative.
StartCollecting ==
  /\ pc = "return"
  /\ call.op = "GetEquivalenceClass"
  /\ stack' = found
  /\ pc' = "collect"
  /\ UNCHANGED <<known, parent, children, call, found, current, result, collected>>

Visit ==
  /\ pc = "collect"
  /\ stack # << >>
  /\ LET item == stack[Len(stack)] IN
     /\ collected' = Append(collected, item)
     /\ stack' = SubSeq(stack, 1, Len(stack) - 1) \o children[item]
  /\ UNCHANGED <<known, parent, children, call, found, current, result, pc>>

Collected ==
  /\ pc = "collect"
  /\ stack = << >>
  /\ pc' = "idle"
  /\ UNCHANGED <<known, parent, children, call, found, current, result, stack, collected>>

Step ==
  Chase \/ Chased \/ Compress \/ EndFind \/ Answer \/ Link \/ StartCollecting \/ Visit \/ Collected

Next ==
  \/ \E v \in Values : Register(v)
  \/ \E c \in Calls(known) : Start(c)
  \/ Step

\* A call that has begun runs to its end; no call need be made.
Spec == Init /\ [][Next]_vars /\ WF_vars(Step)
-----------------------------------------------------------------------------
Distinct(s) == \A i, j \in DOMAIN s : s[i] = s[j] => i = j

\* Types.
TypeOK ==
  /\ known \subseteq Values
  /\ parent \in [known -> known]
  /\ children \in [known -> Seq(known)]
  /\ call \in Calls(known) \cup {NoCall}
  /\ found \in Seq(known)
  /\ Len(found) <= 2
  /\ current \in Values /\ result \in Values
  /\ stack \in Seq(known) /\ collected \in Seq(known)
  /\ pc \in {"idle", "chase", "compress", "return", "collect"}
  /\ pc # "idle" => call # NoCall /\ current \in known /\ result \in known

\* Two records of the same forest: between any two iterations of any loop,
\* a value that is not a representative is, once, among the children of its
\* parent and of nobody else. Find asserts it of every value it moves.
ChildrenMirrorParents ==
  \A v \in known :
    /\ Distinct(children[v])
    /\ Elements(children[v]) = {x \in known \ {v} : parent[x] = v}

\* There is exactly one representative in every class, also while a path is
\* being compressed: no cycle and no second root can come about.
OneRepresentative ==
  \A v \in known : \E r \in ClassOf(v) :
    /\ IsRepresentative(r)
    /\ \A x \in ClassOf(v) : IsRepresentative(x) => x = r

\* What a call answers is right at the moment it returns: Find the
\* representative of the class, IsEquivalent whether the classes are the
\* same, GetEquivalenceClass every member once; and what MakeEquivalent was
\* given is equivalent.
AnswersAreRight ==
  pc = "idle" =>
    /\ call.op = "Find" =>
         found[1] \in ClassOf(call.args[1]) /\ IsRepresentative(found[1])
    /\ call.op = "IsEquivalent" =>
         (found[1] = found[2] <=> call.args[2] \in ClassOf(call.args[1]))
    /\ call.op = "MakeEquivalent" =>
         call.args[2] \in ClassOf(call.args[1])
    /\ call.op = "GetEquivalenceClass" =>
         Distinct(collected) /\ Elements(collected) = ClassOf(call.args[1])

\* Clients keep pointers to representatives as keys: a value that has ceased
\* to be one never becomes one again, and no call but MakeEquivalent makes a
\* representative cease to be one.
RepresentativesOnlyRetire ==
  [][\A v \in known :
       /\ IsRepresentative(v)' => IsRepresentative(v)
       /\ IsRepresentative(v) /\ ~IsRepresentative(v)' =>
            call.op = "MakeEquivalent" /\ pc' = "idle"]_vars

\* No call goes on for ever.
CallsReturn == (pc # "idle") ~> (pc = "idle")

P == INSTANCE Partition WITH classes <- {ClassOf(v) : v \in known}

\* The forest implements a partition: Register adds a class and MakeEquivalent
\* merges two, each in one step, and every other step, those that compress a
\* path included, leaves the classes alone.
Implements == P!PartitionSpec
=============================================================================
