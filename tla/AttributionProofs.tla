------------------------- MODULE AttributionProofs -------------------------
(***************************************************************************)
(* Theorems about Attribution, for every catalog, every set of texts and   *)
(* every pair of policy layers.                                            *)
(***************************************************************************)
EXTENDS Attribution, FiniteSetTheorems, SequenceTheorems, TLAPS

\* What a bind is about stays: its catalog, its text's names, its layers.
Fixed == binding = Binding(text.items) /\ catalog = Entries /\ text \in Texts

\* What the lookup of a function the text names, in any form, was held to.
LEMMA FunctionHeld ==
  ASSUME Fixed, Busy(FunctionTypes), ~FunctionLookupRefused, NEW i \in 1 .. 2
  PROVE  /\ Entry.name \notin ControlPlaneNames \union OpaqueNames
         /\ Entry.name \in binding.functions /\ ~Top.trusted => FunctionAllowed(layers[i], Identity(Entry))
         /\ Entry.name \in binding.synthesized \union binding.literals =>
              SystemIdentity(Identity(Entry)) /\ FunctionAllowed(layers[i], Identity(Entry))
  <1> DEFINE special == Entry.name \in p.caller_expansions \union p.replacement_functions
             system == IF special THEN p.caller_expansions ELSE {}
             b == IF Entry.name \in p.replacement_functions
                  THEN [binding EXCEPT !.functions = @ \union {Entry.name}] ELSE binding
             identity == Identity(Entry)
  <1>1. identity.name = Entry.name
    BY DEF Identity
  <1>2. /\ b.synthesized = binding.synthesized /\ b.literals = binding.literals
        /\ binding.functions \subseteq b.functions
    BY DEF Fixed, Binding
  <1>3. ~FunctionEntryRefused(layers[i], b, system, identity, FunctionAttributable)
    BY DEF FunctionLookupRefused, LookupRefused
  <1>4. Entry.name \in binding.functions /\ ~Top.trusted => FunctionAttributable
    BY DEF FunctionAttributable, CallerCanName
  <1> HIDE DEF b, system, identity
  <1>5. identity.name \notin OpaqueNames /\ identity.name \notin ControlPlaneNames
    BY <1>3 DEF FunctionEntryRefused, FunctionRefused
  <1>6. identity.name \in binding.functions /\ ~Top.trusted => FunctionAllowed(layers[i], identity)
    BY <1>1, <1>2, <1>3, <1>4 DEF FunctionEntryRefused, FunctionRefused
  <1>7. identity.name \in binding.synthesized \union binding.literals =>
          SystemIdentity(identity) /\ FunctionAllowed(layers[i], identity)
    BY <1>2, <1>3 DEF FunctionEntryRefused, FunctionRefused
  <1> QED BY <1>1, <1>5, <1>6, <1>7 DEF identity

\* What NamedHeld says of one retrieval.
HeldRetrieval(r, i) ==
  LET e == catalog[r.entry]
  IN  /\ e.type \in {"relation", "view"} /\ NamesObject(binding.tables, e) => TableAllowed(layers[i], e.name)
      /\ e.type \in FunctionTypes =>
           /\ e.name \notin ControlPlaneNames \union OpaqueNames
           /\ e.name \in binding.functions /\ ~r.trusted => FunctionAllowed(layers[i], Identity(e))
           /\ e.name \in binding.synthesized \union binding.literals =>
                SystemIdentity(Identity(e)) /\ FunctionAllowed(layers[i], Identity(e))

\* A step that retrieves the item's entry, which was held, or nothing.
LEMMA RetrievalStep ==
  ASSUME NamedHeld, UNCHANGED <<binding, catalog, layers>>,
         \/ UNCHANGED retrieved
         \/ /\ retrieved' = retrieved \union {[entry |-> Item.entry, owner |-> Item.owner, trusted |-> Top.trusted]}
            /\ \A i \in 1 .. 2 : HeldRetrieval([entry |-> Item.entry, owner |-> Item.owner, trusted |-> Top.trusted], i)
  PROVE  NamedHeld'
  <1>1. NamedHeld <=> \A r \in retrieved, i \in 1 .. 2 : HeldRetrieval(r, i)
    BY DEF NamedHeld, HeldRetrieval
  <1>2. \A r \in retrieved', i \in 1 .. 2 : HeldRetrieval(r, i)
    BY <1>1
  <1>3. \A r, i : HeldRetrieval(r, i)' = HeldRetrieval(r, i)
    BY DEF HeldRetrieval, Identity
  <1> QED BY <1>2, <1>3 DEF NamedHeld, HeldRetrieval

\* Whatever the catalog, the text and the policies are, what the text names is held to both layers, an object in every
\* binder and a function in every untrusted one, and no route retrieves a control-plane function (check.cpp,
\* LookupCallback; authorization.cpp, AuthorizeObjectAgainst).
THEOREM NamesAreHeld == Spec => []NamedHeld
  <1>1. Init => Fixed /\ NamedHeld
    BY DEF Init, Fixed, NamedHeld
  <1>2. Fixed /\ NamedHeld /\ [Next]_vars => Fixed' /\ NamedHeld'
    <2> SUFFICES ASSUME Fixed, NamedHeld, [Next]_vars PROVE Fixed' /\ NamedHeld'
      OBVIOUS
    <2>1. UNCHANGED <<binding, catalog, layers, text>>
      BY DEF Next, vars, Open, Close, Argument, LookupObject, LookupFunction, ReplacementScan, Collate, AuthorizePlan,
             Refuse, Continue
    <2>2. Fixed'
      BY <2>1 DEF Fixed
    <2>3. CASE Open \/ Close \/ Argument \/ AuthorizePlan \/ UNCHANGED vars
      <3>1. UNCHANGED retrieved
        BY <2>3 DEF Open, Close, Argument, AuthorizePlan, vars
      <3> QED BY <2>1, <2>2, <3>1, RetrievalStep
    <2>4. CASE LookupObject
      <3>1. CASE Refuse(Entry)
        BY <2>1, <2>2, <3>1, RetrievalStep DEF Refuse
      <3>2. CASE /\ ~\E i \in 1 .. 2 : ObjectRefused(layers[i], major, Entry, ObjectAttributable)
                 /\ \E items : Continue(items)
        <4>1. Entry.type \in {"relation", "view"} /\ Entry = catalog[Item.entry]
          BY <2>4 DEF LookupObject, Busy, Entry
        <4>2. \A i \in 1 .. 2 : NamesObject(binding.tables, Entry) => TableAllowed(layers[i], Entry.name)
          BY <3>2 DEF ObjectRefused, ObjectAttributable
        <4>3. \A i \in 1 .. 2 : HeldRetrieval([entry |-> Item.entry, owner |-> Item.owner, trusted |-> Top.trusted], i)
          BY <4>1, <4>2 DEF HeldRetrieval, FunctionTypes
        <4> QED BY <2>1, <2>2, <3>2, <4>3, RetrievalStep DEF Continue
      <3> QED BY <2>4, <3>1, <3>2 DEF LookupObject
    <2>5. CASE LookupFunction
      <3>1. CASE Refuse(Entry)
        BY <2>1, <2>2, <3>1, RetrievalStep DEF Refuse
      <3>2. CASE ~FunctionLookupRefused /\ Continue(Unfold)
        <4>1. Busy(FunctionTypes) /\ Entry.type \in FunctionTypes /\ Entry = catalog[Item.entry]
          BY <2>5 DEF LookupFunction, Busy, Entry
        <4>2. \A i \in 1 .. 2 : HeldRetrieval([entry |-> Item.entry, owner |-> Item.owner, trusted |-> Top.trusted], i)
          BY <3>2, <4>1, FunctionHeld DEF HeldRetrieval, FunctionTypes
        <4> QED BY <2>1, <2>2, <3>2, <4>2, RetrievalStep DEF Continue
      <3> QED BY <2>5, <3>1, <3>2 DEF LookupFunction
    <2>6. CASE ReplacementScan \/ Collate
      <3>1. Entry.type \in {"path", "collation"} /\ Entry = catalog[Item.entry]
        BY <2>6 DEF ReplacementScan, Collate, Busy, Entry
      <3>2. \A i \in 1 .. 2 : HeldRetrieval([entry |-> Item.entry, owner |-> Item.owner, trusted |-> Top.trusted], i)
        BY <3>1 DEF HeldRetrieval, FunctionTypes
      <3>3. \/ UNCHANGED retrieved
            \/ retrieved' = retrieved \union {[entry |-> Item.entry, owner |-> Item.owner, trusted |-> Top.trusted]}
        BY <2>6 DEF ReplacementScan, Collate, Refuse, Continue
      <3> QED BY <2>1, <2>2, <3>2, <3>3, RetrievalStep
    <2> QED BY <2>3, <2>4, <2>5, <2>6 DEF Next
  <1> QED BY <1>1, <1>2, PTL DEF Spec
-----------------------------------------------------------------------------
(***************************************************************************)
(* Trust: what is left to bind, and the binders under way.                 *)
(***************************************************************************)
DefinitionOwners == {"caller", "default", "metadata", "host"}
Owners == DefinitionOwners \union {"body"}
PassedItems ==
  {item \in [form : Forms, entry : Ids, detail : Details, owner : DefinitionOwners, args : {<<>>}] : Named(item)}
WorkItems ==
  {item \in [form : Forms, entry : Ids, detail : Details, owner : Owners, args : Seq(PassedItems)] : Named(item)}
BinderRecords == [trusted : BOOLEAN, armed : BOOLEAN, owner : Owners]

\* An item that opens no host definition's body, and belongs to none but as its end.
Plain(item) == item.owner # "body" \/ item.form = "close"

\* A host definition's body is opened next, if at all, and by a binder that is trusted or armed.
Scoped ==
  /\ work \in Seq(WorkItems) /\ binders \in Seq(BinderRecords) /\ binders # <<>>
  /\ \A i \in DOMAIN work : Plain(work[i]) \/ (i = 1 /\ work[i].form = "open" /\ (Top.trusted \/ Top.armed))
  /\ BodiesTrusted

\* Items of a definition, owned.
LEMMA OwnedShape ==
  ASSUME NEW items \in Seq(ItemRecords), NEW owner \in DefinitionOwners
  PROVE  /\ Owned(items, owner) \in Seq(WorkItems)
         /\ \A i \in DOMAIN Owned(items, owner) : Owned(items, owner)[i].owner # "body"
  <1> DEFINE Passed(args) == [j \in DOMAIN args |-> [form |-> args[j].form, entry |-> args[j].entry,
                                detail |-> args[j].detail, owner |-> owner, args |-> <<>>]]
             Item1(item) == [form |-> item.form, entry |-> item.entry, detail |-> item.detail, owner |-> owner,
                             args |-> Passed(item.args)]
  <1>1. ASSUME NEW args \in Seq(Arguments)
        PROVE  Passed(args) \in Seq(PassedItems)
    <2>1. \A j \in DOMAIN args : args[j] \in Arguments
      OBVIOUS
    <2>2. \A j \in DOMAIN args : [form |-> args[j].form, entry |-> args[j].entry, detail |-> args[j].detail,
                                  owner |-> owner, args |-> <<>>] \in PassedItems
      BY <2>1 DEF Arguments, PassedItems, Named
    <2>3. DOMAIN args = 1 .. Len(args) /\ Len(args) \in Nat
      OBVIOUS
    <2> QED BY <2>2, <2>3
  <1>2. ASSUME NEW item \in ItemRecords
        PROVE  Item1(item) \in WorkItems /\ Item1(item).owner # "body"
    <2>1. item.args \in Seq(Arguments) /\ item.form \in Forms /\ item.entry \in Ids /\ item.detail \in Details
          /\ Named(item)
      BY DEF ItemRecords
    <2>2. Passed(item.args) \in Seq(PassedItems)
      BY <1>1, <2>1
    <2> HIDE DEF Passed
    <2> QED BY <2>1, <2>2 DEF WorkItems, Named, Owners, DefinitionOwners
  <1>3. Owned(items, owner) = [i \in DOMAIN items |-> Item1(items[i])]
    BY DEF Owned
  <1>4. DOMAIN items = 1 .. Len(items) /\ Len(items) \in Nat /\ \A i \in DOMAIN items : items[i] \in ItemRecords
    OBVIOUS
  <1> HIDE DEF Item1
  <1>5. \A i \in DOMAIN items : Item1(items[i]) \in WorkItems /\ Item1(items[i]).owner # "body"
    BY <1>2, <1>4
  <1> QED BY <1>3, <1>4, <1>5

\* A body with the arguments of its call in their places.
LEMMA ExpandShape ==
  ASSUME NEW body \in Seq(WorkItems), \A i \in DOMAIN body : body[i].owner # "body", NEW args \in Seq(PassedItems)
  PROVE  /\ Expand(body, args) \in Seq(WorkItems)
         /\ \A i \in DOMAIN Expand(body, args) : Expand(body, args)[i].owner # "body"
  <1>1. DOMAIN body = 1 .. Len(body) /\ Len(body) \in Nat /\ \A i \in DOMAIN body : body[i] \in WorkItems
    OBVIOUS
  <1>2. ASSUME NEW item \in WorkItems
        PROVE  [item EXCEPT !.args = args] \in WorkItems /\ [item EXCEPT !.args = args].owner = item.owner
    BY DEF WorkItems, Named
  <1>3. \A i \in DOMAIN body :
          /\ (IF body[i].form = "argument" THEN [body[i] EXCEPT !.args = args] ELSE body[i]) \in WorkItems
          /\ (IF body[i].form = "argument" THEN [body[i] EXCEPT !.args = args] ELSE body[i]).owner # "body"
    BY <1>1, <1>2
  <1> QED BY <1>1, <1>3 DEF Expand

\* What binds in a binder of its own.
LEMMA InBinderShape ==
  ASSUME NEW items \in Seq(WorkItems), \A i \in DOMAIN items : items[i].owner # "body", NEW owner \in Owners
  PROVE  LET s == InBinder(items, owner)
         IN  /\ s \in Seq(WorkItems)
             /\ \A i \in DOMAIN s : Plain(s[i]) \/ (i = 1 /\ s[i].form = "open" /\ owner = "body")
  <1> DEFINE open == BinderItem("open", owner)
             close == BinderItem("close", owner)
             s == InBinder(items, owner)
  <1>1. open \in WorkItems /\ close \in WorkItems
    BY DEF BinderItem, WorkItems, Named, Forms, Structure, Ids, Details
  <1>2. open.form = "open" /\ open.owner = owner /\ close.form = "close"
    BY DEF BinderItem
  <1>3. s = <<open>> \o items \o <<close>>
    BY DEF InBinder
  <1> HIDE DEF open, close, s
  <1>4. s \in Seq(WorkItems) /\ Len(s) = Len(items) + 2 /\ DOMAIN s = 1 .. Len(items) + 2 /\ Len(items) \in Nat
    BY <1>1, <1>3
  <1>5. s[1] = open /\ s[Len(items) + 2] = close /\ \A i \in 2 .. Len(items) + 1 : s[i] = items[i - 1]
    BY <1>1, <1>3
  <1>6. \A i \in DOMAIN s : Plain(s[i]) \/ (i = 1 /\ s[i].form = "open" /\ owner = "body")
    <2> SUFFICES ASSUME NEW i \in DOMAIN s PROVE Plain(s[i]) \/ (i = 1 /\ s[i].form = "open" /\ owner = "body")
      OBVIOUS
    <2>1. CASE i = 1
      BY <1>2, <1>5, <2>1 DEF Plain
    <2>2. CASE i = Len(items) + 2
      BY <1>2, <1>5, <2>2 DEF Plain
    <2>3. CASE i \in 2 .. Len(items) + 1
      <3>1. i - 1 \in DOMAIN items /\ s[i] = items[i - 1]
        BY <1>4, <1>5, <2>3
      <3> QED BY <3>1 DEF Plain
    <2> QED BY <1>4, <2>1, <2>2, <2>3
  <1> QED BY <1>4, <1>6 DEF s

\* The item being bound, and what is left after it.
LEMMA WorkShape ==
  ASSUME Scoped, work # <<>>
  PROVE  /\ Item \in WorkItems /\ Item.args \in Seq(PassedItems) /\ Item.owner \in Owners
         /\ Tail(work) \in Seq(WorkItems) /\ \A i \in DOMAIN Tail(work) : Plain(Tail(work)[i])
         /\ Item.owner = "body" /\ Item.form = "open" => Top.trusted \/ Top.armed
         /\ Item.form \notin {"open", "close"} => Item.owner \in DefinitionOwners
         /\ Item.form \notin Structure => Item.entry \in DOMAIN Entries
  <1>1. work \in Seq(WorkItems) /\ Len(work) \in Nat \ {0} /\ DOMAIN work = 1 .. Len(work)
    BY DEF Scoped
  <1>2. Item \in WorkItems
    BY <1>1 DEF Item
  <1>3. Tail(work) \in Seq(WorkItems) /\ DOMAIN Tail(work) = 1 .. Len(work) - 1
        /\ \A i \in DOMAIN Tail(work) : Tail(work)[i] = work[i + 1]
    BY <1>1
  <1>4. \A i \in DOMAIN Tail(work) : Plain(Tail(work)[i])
    BY <1>1, <1>3 DEF Scoped
  <1>5. Plain(Item) \/ (Item.form = "open" /\ (Top.trusted \/ Top.armed))
    BY <1>1 DEF Scoped, Item
  <1>6. Item.args \in Seq(PassedItems) /\ Item.owner \in Owners /\ Named(Item)
    BY <1>2 DEF WorkItems
  <1> QED BY <1>2, <1>3, <1>4, <1>5, <1>6 DEF Plain, Owners, Named, Structure

\* The innermost binder.
LEMMA TopShape ==
  ASSUME Scoped
  PROVE  /\ Len(binders) \in Nat \ {0} /\ DOMAIN binders = 1 .. Len(binders) /\ Top = binders[Len(binders)]
         /\ Top \in BinderRecords /\ \A i \in DOMAIN binders : binders[i] \in BinderRecords
  BY DEF Scoped, Top, Last

\* The same binders, the innermost armed if it was or is now.
Kept(armed) ==
  /\ binders' \in Seq(BinderRecords) /\ Len(binders') = Len(binders)
  /\ \A i \in 1 .. Len(binders) : binders'[i].trusted = binders[i].trusted /\ binders'[i].owner = binders[i].owner
  /\ binders'[Len(binders)].armed = (binders[Len(binders)].armed \/ armed)
  /\ \A i \in 1 .. Len(binders) : i # Len(binders) => binders'[i] = binders[i]

\* A sequence with one of its elements replaced.
LEMMA ReplaceOne ==
  ASSUME NEW S, NEW s \in Seq(S), NEW i \in 1 .. Len(s), NEW e \in S
  PROVE  /\ [s EXCEPT ![i] = e] \in Seq(S) /\ Len([s EXCEPT ![i] = e]) = Len(s)
         /\ [s EXCEPT ![i] = e][i] = e /\ \A j \in 1 .. Len(s) : j # i => [s EXCEPT ![i] = e][j] = s[j]
  OBVIOUS

\* Arming touches nothing else.
LEMMA ArmKeeps ==
  ASSUME Scoped, NEW armed \in BOOLEAN, Arm(armed)
  PROVE  Kept(armed)
  <1> DEFINE n == Len(binders)
             b == [binders[n] EXCEPT !.armed = binders[n].armed \/ armed]
  <1>1. n \in 1 .. Len(binders) /\ binders[n] \in BinderRecords /\ binders \in Seq(BinderRecords)
    BY TopShape DEF Scoped
  <1>2. b \in BinderRecords /\ b.trusted = binders[n].trusted /\ b.owner = binders[n].owner
        /\ b.armed = (binders[n].armed \/ armed)
    BY <1>1 DEF BinderRecords
  <1>3. binders' = [binders EXCEPT ![n] = b]
    BY <1>1 DEF Arm
  <1> HIDE DEF b
  <1>4. /\ binders' \in Seq(BinderRecords) /\ Len(binders') = n /\ binders'[n] = b
        /\ \A j \in 1 .. n : j # n => binders'[j] = binders[j]
    BY <1>1, <1>2, <1>3, ReplaceOne
  <1> HIDE DEF n
  <1>5. \A i \in 1 .. n : binders'[i].trusted = binders[i].trusted /\ binders'[i].owner = binders[i].owner
    BY <1>2, <1>4
  <1> QED BY <1>2, <1>4, <1>5 DEF Kept, n

\* The binder goes on: items take the place of the one it has bound, and it is armed if they open a host's body.
LEMMA ContinueStep ==
  ASSUME Scoped, work # <<>>, NEW items \in Seq(WorkItems), work' = items \o Tail(work), NEW armed \in BOOLEAN,
         Kept(armed),
         \A i \in DOMAIN items : Plain(items[i]) \/ (i = 1 /\ items[i].form = "open" /\ (Top.trusted \/ armed))
  PROVE  Scoped'
  <1> DEFINE n == Len(binders)
             rest == Tail(work)
  <1>1. rest \in Seq(WorkItems) /\ \A i \in DOMAIN rest : Plain(rest[i])
    BY WorkShape
  <1>2. n \in Nat \ {0} /\ DOMAIN binders = 1 .. n /\ Top = binders[n] /\ \A i \in DOMAIN binders : binders[i] \in BinderRecords
    BY TopShape
  <1>3. /\ binders' \in Seq(BinderRecords) /\ Len(binders') = n /\ DOMAIN binders' = 1 .. n /\ binders' # <<>>
        /\ \A i \in 1 .. n : binders'[i].trusted = binders[i].trusted /\ binders'[i].owner = binders[i].owner
        /\ binders'[n].armed = (binders[n].armed \/ armed)
    BY <1>2 DEF Kept
  <1>4. Top' = binders'[n]
    BY <1>3 DEF Top, Last
  <1>5. Top'.trusted = Top.trusted /\ Top'.armed = (Top.armed \/ armed)
    BY <1>2, <1>3, <1>4
  <1> HIDE DEF rest
  <1>6. /\ work' \in Seq(WorkItems) /\ DOMAIN work' = 1 .. Len(items) + Len(rest)
        /\ Len(items) \in Nat /\ Len(rest) \in Nat
        /\ \A i \in 1 .. Len(items) : work'[i] = items[i]
        /\ \A i \in Len(items) + 1 .. Len(items) + Len(rest) : work'[i] = rest[i - Len(items)]
    BY <1>1 DEF rest
  <1>7. \A i \in DOMAIN work' : Plain(work'[i]) \/ (i = 1 /\ work'[i].form = "open" /\ (Top.trusted \/ armed))
    <2> SUFFICES ASSUME NEW i \in DOMAIN work'
                 PROVE  Plain(work'[i]) \/ (i = 1 /\ work'[i].form = "open" /\ (Top.trusted \/ armed))
      OBVIOUS
    <2>1. CASE i \in 1 .. Len(items)
      <3>1. i \in DOMAIN items /\ work'[i] = items[i]
        BY <1>6, <2>1
      <3> QED BY <3>1
    <2>2. CASE i \in Len(items) + 1 .. Len(items) + Len(rest)
      <3>1. work'[i] = rest[i - Len(items)]
        BY ONLY <1>6, <2>2
      <3>2. i - Len(items) \in 1 .. Len(rest)
        BY ONLY <1>6, <2>2
      <3>3. i - Len(items) \in DOMAIN rest
        BY <1>1, <3>2
      <3> QED BY <1>1, <3>1, <3>3
    <2> QED BY <1>6, <2>1, <2>2
  <1>8. BodiesTrusted'
    BY <1>2, <1>3 DEF Scoped, BodiesTrusted
  <1> QED BY <1>3, <1>5, <1>6, <1>7, <1>8 DEF Scoped, Plain

\* A child binder opens: a host's body under a trusted callback.
LEMMA OpenStep ==
  ASSUME Scoped, Open
  PROVE  Scoped'
  <1> DEFINE n == Len(binders)
             parent == [binders[n] EXCEPT !.armed = FALSE]
             child == [trusted |-> Top.trusted \/ Top.armed, armed |-> FALSE, owner |-> Item.owner]
             kept == [binders EXCEPT ![n] = parent]
  <1>1. work # <<>> /\ Item.form = "open" /\ work' = Tail(work)
    BY DEF Open
  <1>2. /\ n \in 1 .. Len(binders) /\ n \in Nat \ {0} /\ Top = binders[n] /\ Top \in BinderRecords
        /\ binders \in Seq(BinderRecords) /\ DOMAIN binders = 1 .. n
    BY TopShape DEF Scoped
  <1>3. parent \in BinderRecords /\ parent.trusted = Top.trusted /\ parent.owner = Top.owner
    BY <1>2 DEF BinderRecords
  <1>4. child \in BinderRecords /\ child.trusted = (Top.trusted \/ Top.armed) /\ child.owner = Item.owner
    BY <1>1, <1>2, WorkShape DEF BinderRecords
  <1>5. binders' = Append(kept, child)
    BY <1>2 DEF Open
  <1> HIDE DEF parent, child
  <1>6. kept \in Seq(BinderRecords) /\ Len(kept) = n /\ kept[n] = parent /\ \A j \in 1 .. n : j # n => kept[j] = binders[j]
    BY <1>2, <1>3, ReplaceOne
  <1> HIDE DEF kept, n
  <1>7. /\ binders' \in Seq(BinderRecords) /\ Len(binders') = n + 1 /\ DOMAIN binders' = 1 .. n + 1
        /\ binders'[n + 1] = child /\ \A j \in 1 .. n : binders'[j] = kept[j]
    BY <1>2, <1>4, <1>5, <1>6
  <1>8. \A j \in 1 .. n : binders'[j].trusted = binders[j].trusted /\ binders'[j].owner = binders[j].owner
    BY <1>2, <1>3, <1>6, <1>7
  <1>9. Item.owner = "body" => child.trusted
    BY <1>1, <1>4, WorkShape
  <1>10. BodiesTrusted'
    <2> SUFFICES ASSUME NEW i \in 1 .. n + 1, NEW j \in 1 .. n + 1, i <= j,
                        binders'[i].owner = "body" \/ binders'[i].trusted
                 PROVE  binders'[j].trusted
      BY <1>7 DEF BodiesTrusted
    <2>1. CASE j \in 1 .. n
      BY <1>2, <1>8, <2>1 DEF Scoped, BodiesTrusted
    <2>2. CASE j = n + 1 /\ i \in 1 .. n
      <3>1. binders[i].owner = "body" \/ binders[i].trusted
        BY <1>8, <2>2
      <3>2. Top.trusted
        BY <1>2, <2>2, <3>1 DEF Scoped, BodiesTrusted
      <3> QED BY <1>4, <1>7, <2>2, <3>2
    <2>3. CASE i = n + 1
      BY <1>2, <1>4, <1>7, <1>9, <2>3
    <2> QED BY <1>2, <2>1, <2>2, <2>3
  <1> QED BY <1>1, <1>2, <1>7, <1>10, WorkShape DEF Scoped

\* A child binder is done: what it was opened for is over.
LEMMA CloseStep ==
  ASSUME Scoped, Close
  PROVE  Scoped'
  <1> DEFINE n == Len(binders)
  <1>1. work # <<>> /\ work' = Tail(work) /\ n > 1 /\ binders' = SubSeq(binders, 1, n - 1)
    BY DEF Close, Front
  <1>2. n \in Nat \ {0} /\ DOMAIN binders = 1 .. n /\ binders \in Seq(BinderRecords)
    BY TopShape DEF Scoped
  <1>3. /\ binders' \in Seq(BinderRecords) /\ Len(binders') = n - 1 /\ DOMAIN binders' = 1 .. n - 1
        /\ \A j \in 1 .. n - 1 : binders'[j] = binders[j]
    BY <1>1, <1>2
  <1>4. BodiesTrusted'
    BY <1>1, <1>2, <1>3 DEF Scoped, BodiesTrusted
  <1>5. work' \in Seq(WorkItems) /\ \A i \in DOMAIN work' : Plain(work'[i])
    BY <1>1, WorkShape
  <1>6. binders' # <<>>
    <2>1. 1 \in DOMAIN binders'
      BY <1>1, <1>2, <1>3
    <2> QED BY <2>1
  <1> QED BY <1>3, <1>4, <1>5, <1>6 DEF Scoped, Plain

\* What a view or macro may be: an entry of the catalog, its body items.
LEMMA EntryShape ==
  ASSUME Fixed, Scoped, NEW types, Busy(types)
  PROVE  /\ work # <<>> /\ Entry.type \in types /\ Entry.internal \in BOOLEAN /\ Entry.body \in Seq(ItemRecords)
         /\ Item.args \in Seq(PassedItems) /\ Item.owner \in DefinitionOwners
  <1>1. work # <<>> /\ Item.form \notin Structure /\ Entry.type \in types
    BY DEF Busy
  <1>2. Item.entry \in DOMAIN Entries /\ Item.args \in Seq(PassedItems) /\ Item.owner \in DefinitionOwners
    BY <1>1, WorkShape DEF Structure
  <1>3. Entry = Entries[Item.entry]
    BY DEF Fixed, Entry
  <1> QED BY <1>1, <1>2, <1>3, CatalogAssumption DEF EntryRecord

\* What the engine binds for a function; a host's table macro has armed its callback unless it is trusted already.
LEMMA UnfoldShape ==
  ASSUME Fixed, Scoped, Busy(FunctionTypes)
  PROVE  /\ Unfold \in Seq(WorkItems)
         /\ \A i \in DOMAIN Unfold :
              Plain(Unfold[i]) \/ (i = 1 /\ Unfold[i].form = "open" /\ (Top.trusted \/ ArmsFunction))
  <1>1. /\ Entry.internal \in BOOLEAN /\ Entry.body \in Seq(ItemRecords)
        /\ Item.args \in Seq(PassedItems) /\ Item.owner \in DefinitionOwners
    BY EntryShape
  <1>2. BodyOwner \in DefinitionOwners /\ Opener(BodyOwner) \in Owners /\ Item.owner \in Owners /\ Item.owner # "body"
    BY <1>1 DEF BodyOwner, Opener, Owners, DefinitionOwners
  <1> DEFINE body == Owned(Entry.body, BodyOwner)
             own == Owned(Entry.body, Item.owner)
             expanded == Expand(body, Item.args)
  <1>3. body \in Seq(WorkItems) /\ \A i \in DOMAIN body : body[i].owner # "body"
    BY <1>1, <1>2, OwnedShape
  <1>4. own \in Seq(WorkItems) /\ \A i \in DOMAIN own : own[i].owner # "body"
    BY <1>1, OwnedShape
  <1> HIDE DEF body, own
  <1>5. expanded \in Seq(WorkItems) /\ \A i \in DOMAIN expanded : expanded[i].owner # "body"
    BY <1>1, <1>3, ExpandShape
  <1> HIDE DEF expanded
  <1>6. CASE Entry.type = "macro"
    <2>1. Unfold = expanded
      BY <1>6 DEF Unfold, expanded, body
    <2> QED BY <1>5, <2>1 DEF Plain
  <1>7. CASE Entry.type = "table_macro"
    <2>1. Unfold = InBinder(expanded, Opener(BodyOwner))
      BY <1>7 DEF Unfold, expanded, body
    <2>2. /\ Unfold \in Seq(WorkItems)
          /\ \A i \in DOMAIN Unfold : Plain(Unfold[i]) \/ (i = 1 /\ Unfold[i].form = "open" /\ Opener(BodyOwner) = "body")
      BY <1>2, <1>5, <2>1, InBinderShape
    <2>3. Opener(BodyOwner) = "body" => Top.trusted \/ ArmsFunction
      BY <1>1, <1>2, <1>7 DEF Opener, ArmsFunction, DefinitionOwners
    <2> QED BY <2>2, <2>3
  <1>8. CASE Entry.type = "table" /\ Entry.body # <<>>
    <2>1. Unfold = InBinder(own, Item.owner)
      BY <1>8 DEF Unfold, own
    <2>2. /\ Unfold \in Seq(WorkItems)
          /\ \A i \in DOMAIN Unfold : Plain(Unfold[i]) \/ (i = 1 /\ Unfold[i].form = "open" /\ Item.owner = "body")
      BY <1>2, <1>4, <2>1, InBinderShape
    <2> QED BY <1>2, <2>2
  <1>9. CASE Entry.type \notin {"macro", "table_macro"} /\ ~(Entry.type = "table" /\ Entry.body # <<>>)
    <2>1. Unfold = <<>>
      BY <1>9 DEF Unfold
    <2> QED BY <2>1
  <1> QED BY <1>6, <1>7, <1>8, <1>9

\* Where a bind starts, nothing is trusted and no body is open.
LEMMA ScopedInit ==
  ASSUME Init
  PROVE  Fixed /\ Scoped
  <1>1. Fixed
    BY DEF Init, Fixed
  <1>2. work \in Seq(WorkItems) /\ \A i \in DOMAIN work : Plain(work[i])
    <2>1. text.items \in Seq(ItemRecords) /\ work = Owned(text.items, "caller")
      BY TextAssumption DEF Init
    <2> QED BY <2>1, OwnedShape DEF Plain, DefinitionOwners
  <1>3. binders = <<[trusted |-> FALSE, armed |-> FALSE, owner |-> "caller"]>>
    BY DEF Init
  <1>4. binders \in Seq(BinderRecords) /\ binders # <<>> /\ DOMAIN binders = {1}
    BY <1>3 DEF BinderRecords, Owners, DefinitionOwners
  <1>5. BodiesTrusted
    BY <1>3, <1>4 DEF BodiesTrusted
  <1> QED BY <1>1, <1>2, <1>4, <1>5 DEF Scoped

\* Every step keeps what is opened under trust there.
LEMMA ScopedStep ==
  ASSUME Fixed, Scoped, [Next]_vars
  PROVE  Fixed' /\ Scoped'
  <1>1. Fixed'
    BY DEF Fixed, Next, vars, Open, Close, Argument, LookupObject, LookupFunction, ReplacementScan, Collate, AuthorizePlan,
           Refuse, Continue
  <1> SUFFICES Scoped'
    BY <1>1
  <1>2. UNCHANGED <<work, binders>> => Scoped'
    BY DEF Scoped, Top, Last, BodiesTrusted
  <1>3. UNCHANGED binders => Kept(FALSE)
    BY TopShape DEF Scoped, Kept, BinderRecords
  <1>4. CASE Argument
    <2>1. work # <<>> /\ work' = Item.args \o Tail(work) /\ UNCHANGED binders
      BY <1>4 DEF Argument
    <2>2. Item.args \in Seq(WorkItems) /\ \A i \in DOMAIN Item.args : Plain(Item.args[i])
      <3>1. Item.args \in Seq(PassedItems)
        BY <2>1, WorkShape
      <3>2. ASSUME NEW item \in PassedItems PROVE item \in WorkItems /\ item.owner # "body"
        <4>1. <<>> \in Seq(PassedItems)
          OBVIOUS
        <4> QED BY <4>1 DEF PassedItems, WorkItems, Owners, DefinitionOwners
      <3>3. \A i \in DOMAIN Item.args : Item.args[i] \in PassedItems
        BY <3>1
      <3> QED BY <3>1, <3>2, <3>3 DEF Plain
    <2> QED BY <1>3, <2>1, <2>2, ContinueStep
  <1>5. CASE LookupObject
    <2>1. CASE Refuse(Entry)
      BY <1>2, <2>1 DEF Refuse
    <2> DEFINE owner == IF ~Entry.internal \/ Item.owner = "host" THEN "host" ELSE "metadata"
               body == Owned(Entry.body, owner)
               items == IF Entry.type = "view" THEN InBinder(body, Opener(owner)) ELSE <<>>
               armed == ~Top.trusted /\ Entry.type = "view" /\ (~Entry.internal \/ ~ObjectAttributable)
    <2>2. CASE Arm(armed) /\ Continue(items)
      <3>1. work # <<>> /\ Entry.internal \in BOOLEAN /\ Entry.body \in Seq(ItemRecords)
        BY <1>5, EntryShape DEF LookupObject
      <3>2. owner \in DefinitionOwners /\ Opener(owner) \in Owners /\ (Opener(owner) = "body" => ~Entry.internal)
        BY <3>1 DEF Opener, Owners, DefinitionOwners
      <3>3. body \in Seq(WorkItems) /\ \A i \in DOMAIN body : body[i].owner # "body"
        BY <3>1, <3>2, OwnedShape
      <3> HIDE DEF body, owner
      <3>4. /\ InBinder(body, Opener(owner)) \in Seq(WorkItems)
            /\ \A i \in DOMAIN InBinder(body, Opener(owner)) :
                 \/ Plain(InBinder(body, Opener(owner))[i])
                 \/ i = 1 /\ InBinder(body, Opener(owner))[i].form = "open" /\ Opener(owner) = "body"
        BY <3>2, <3>3, InBinderShape
      <3>5. /\ items \in Seq(WorkItems)
            /\ \A i \in DOMAIN items : Plain(items[i]) \/ (i = 1 /\ items[i].form = "open" /\ (Top.trusted \/ armed))
        BY <3>2, <3>4
      <3>6. work' = items \o Tail(work) /\ armed \in BOOLEAN
        BY <2>2 DEF Continue
      <3> HIDE DEF items, armed
      <3> QED BY <2>2, <3>1, <3>5, <3>6, ArmKeeps, ContinueStep
    <2> QED BY <1>5, <2>1, <2>2 DEF LookupObject
  <1>6. CASE LookupFunction
    <2>1. CASE Refuse(Entry)
      BY <1>2, <2>1 DEF Refuse
    <2>2. CASE Arm(ArmsFunction) /\ Continue(Unfold)
      <3>1. Busy(FunctionTypes) /\ work # <<>>
        BY <1>6 DEF LookupFunction, Busy
      <3>2. work' = Unfold \o Tail(work) /\ ArmsFunction \in BOOLEAN
        BY <2>2 DEF Continue, ArmsFunction
      <3> QED BY <2>2, <3>1, <3>2, UnfoldShape, ArmKeeps, ContinueStep
    <2> QED BY <1>6, <2>1, <2>2 DEF LookupFunction
  <1>7. CASE ReplacementScan \/ Collate
    <2>1. CASE UNCHANGED <<work, binders>>
      BY <1>2, <2>1
    <2>2. CASE (Continue(Owned(Entry.body, Item.owner)) \/ Continue(<<>>)) /\ UNCHANGED binders
      <3>1. work # <<>> /\ Entry.body \in Seq(ItemRecords) /\ Item.owner \in DefinitionOwners
        BY <1>7, EntryShape DEF ReplacementScan, Collate
      <3>2. PICK items \in {Owned(Entry.body, Item.owner), <<>>} : work' = items \o Tail(work)
        BY <2>2 DEF Continue
      <3>3. items \in Seq(WorkItems) /\ \A i \in DOMAIN items : Plain(items[i])
        <4>1. CASE items = <<>>
          BY <4>1
        <4>2. CASE items = Owned(Entry.body, Item.owner)
          BY <3>1, <4>2, OwnedShape DEF Plain
        <4> QED BY <4>1, <4>2
      <3> QED BY <1>3, <2>2, <3>1, <3>2, <3>3, ContinueStep
    <2> QED BY <1>7, <2>1, <2>2 DEF ReplacementScan, Collate, Refuse
  <1>8. CASE AuthorizePlan \/ UNCHANGED vars
    BY <1>2, <1>8 DEF AuthorizePlan, vars
  <1> QED BY <1>1, <1>4, <1>5, <1>6, <1>7, <1>8, OpenStep, CloseStep DEF Next

\* Whatever the catalog and the text are, the body of a host's view or table macro binds under a trusted callback, and
\* so does everything opened inside it (check.cpp, LookupCallback's copy constructor and its arming).
THEOREM BodiesBindTrusted == Spec => []BodiesTrusted
  <1>1. Init => Fixed /\ Scoped
    BY ScopedInit
  <1>2. Fixed /\ Scoped /\ [Next]_vars => Fixed' /\ Scoped'
    BY ScopedStep
  <1>3. Scoped => BodiesTrusted
    BY DEF Scoped
  <1> QED BY <1>1, <1>2, <1>3, PTL DEF Spec
-----------------------------------------------------------------------------
(***************************************************************************)
(* Stacks: the binders an item will be bound in, when its turn comes.      *)
(* Only what is known beforehand is in them: who opens a binder, and of    *)
(* those open already, that they are trusted.                              *)
(***************************************************************************)
Frames == [owner : Owners, trusted : BOOLEAN]
Inside(owner) == owner \notin {"caller", "default"}
Covers(s) == \E n \in 1 .. Len(s) : Inside(s[n].owner)
Marked(s) == \E n \in 1 .. Len(s) : s[n].trusted
Nest(owner, n) == [k \in 1 .. n |-> [owner |-> owner, trusted |-> FALSE]]
On(s, owner, n) == s \o Nest(owner, n)

\* The same binders, of which no more is known.
Below(f, g) == f.owner = g.owner /\ (f.trusted => g.trusted)
Weaker(t, s) == Len(t) = Len(s) /\ \A n \in 1 .. Len(s) : Below(t[n], s[n])

\* From one item's stack to the next.
Follows(item, s, t) ==
  /\ item.form = "open" => Len(t) = Len(s) + 1 /\ t[Len(t)].owner = item.owner /\ ~t[Len(t)].trusted
  /\ item.form = "close" => Len(s) = Len(t) + 1
  /\ item.form \notin {"open", "close"} => Len(t) = Len(s)
  /\ \A n \in 1 .. Len(s) : n <= Len(t) => Below(t[n], s[n])

\* What the text, the layers, and the default macros and readers it reached say of an item that is bound in a stack.
Context ==
  [text |-> text, layers |-> layers, expansions |-> p.caller_expansions, readers |-> p.replacement_functions]

Written(item, c) == \E use \in Uses(c.text.items) : use.form = item.form /\ use.entry = item.entry
IsReader(id) ==
  \E path \in DOMAIN Entries : Entries[path].type = "path" /\ Entries[path].body # <<>> /\ Entries[path].body[1].entry = id
Read(item, c) ==
  /\ IsReader(item.entry) /\ Entries[item.entry].type \in {"table", "table_macro"}
  /\ Entries[item.entry].name \in c.readers
  /\ \A i \in 1 .. 2 : FunctionAllowed(c.layers[i], Identity(Entries[item.entry]))

\* The caller's are named in the text, or readers allowed in the place of a path that is; what a default macro makes of it
\* was learned, unless that happens under trust; what any other definition reads from is within what it opened.
FitsUse(item, s, c) ==
  /\ item.owner = "caller" => Written(item, c) \/ Read(item, c)
  /\ item.owner = "default" /\ Entries[item.entry].type = "path" => Marked(s)
  /\ item.owner = "default" /\ Entries[item.entry].type \in FunctionTypes =>
       Entries[item.entry].name \in c.expansions \/ Marked(s)
  /\ Inside(item.owner) /\ Entries[item.entry].type \in FromTypes => Covers(s)
Fits(item, s, c) == item.form \notin Structure => FitsUse(item, s, c)

FitsAt(args, owner, s, c) ==
  \A j \in DOMAIN args : args[j].owner = owner /\ Fits(args[j], On(s, owner, Depth(args, j - 1)), c)
Passes(args, s, c) == Balanced(args) /\ \E owner \in DefinitionOwners : FitsAt(args, owner, s, c)

\* Items that fit, bound one after the other, from one stack to another.
Chain(items, s, t, c, f) ==
  /\ f \in [1 .. Len(items) + 1 -> Seq(Frames)] /\ Weaker(f[1], s) /\ f[Len(items) + 1] = t
  /\ \A k \in 1 .. Len(items) : Follows(items[k], f[k], f[k + 1]) /\ Fits(items[k], f[k], c) /\ Passes(items[k].args, f[k], c)
Region(items, s, t, c) == \E f : Chain(items, s, t, c, f)

\* What is left to bind fits the binders under way.
Certified == \E t : Region(work, binders, t, Context)

\* What is known of more binders, or better known, is known.
LEMMA WeakerIs ==
  ASSUME NEW s, NEW t, NEW u
  PROVE  /\ Weaker(s, s)
         /\ Weaker(u, t) /\ Weaker(t, s) => Weaker(u, s)
         /\ Weaker(t, s) /\ Covers(t) => Covers(s)
         /\ Weaker(t, s) /\ Marked(t) => Marked(s)
  BY DEF Weaker, Below, Covers, Marked

\* A stack within another.
LEMMA WithinStack ==
  ASSUME NEW s \in Seq(Frames), NEW t \in Seq(Frames)
  PROVE  /\ s \o t \in Seq(Frames)
         /\ Covers(s \o t) <=> Covers(s) \/ Covers(t)
         /\ Marked(s \o t) <=> Marked(s) \/ Marked(t)
  <1>1. /\ s \o t \in Seq(Frames) /\ Len(s \o t) = Len(s) + Len(t) /\ Len(s) \in Nat /\ Len(t) \in Nat
        /\ \A n \in 1 .. Len(s) : (s \o t)[n] = s[n]
        /\ \A n \in Len(s) + 1 .. Len(s) + Len(t) : (s \o t)[n] = t[n - Len(s)]
    OBVIOUS
  <1> DEFINE u == s \o t
  <1> HIDE DEF u
  <1>2. ASSUME NEW S
        PROVE  (\E n \in 1 .. Len(u) : u[n] \in S) <=> (\E n \in 1 .. Len(s) : s[n] \in S) \/ (\E n \in 1 .. Len(t) : t[n] \in S)
    <2>1. ASSUME NEW n \in 1 .. Len(u), u[n] \in S
          PROVE  (\E m \in 1 .. Len(s) : s[m] \in S) \/ (\E m \in 1 .. Len(t) : t[m] \in S)
      <3>1. CASE n \in 1 .. Len(s)
        BY <1>1, <2>1, <3>1 DEF u
      <3>2. CASE n \in Len(s) + 1 .. Len(s) + Len(t)
        <4>1. n - Len(s) \in 1 .. Len(t) /\ u[n] = t[n - Len(s)]
          BY <1>1, <3>2 DEF u
        <4> QED BY <2>1, <4>1
      <3> QED BY <1>1, <3>1, <3>2 DEF u
    <2>2. ASSUME NEW m \in 1 .. Len(s), s[m] \in S PROVE \E n \in 1 .. Len(u) : u[n] \in S
      <3>1. m \in 1 .. Len(u) /\ u[m] = s[m]
        BY <1>1 DEF u
      <3> QED BY <2>2, <3>1
    <2>3. ASSUME NEW m \in 1 .. Len(t), t[m] \in S PROVE \E n \in 1 .. Len(u) : u[n] \in S
      <3>1. m + Len(s) \in Len(s) + 1 .. Len(u) /\ u[m + Len(s)] = t[m]
        BY <1>1 DEF u
      <3>2. m + Len(s) \in 1 .. Len(u)
        BY <1>1, <3>1
      <3> QED BY <2>3, <3>1, <3>2
    <2> QED BY <2>1, <2>2, <2>3
  <1> DEFINE A == {f \in Frames : Inside(f.owner)}
             B == {f \in Frames : f.trusted}
  <1>3. ASSUME NEW v \in Seq(Frames) PROVE \A n \in 1 .. Len(v) : v[n] \in Frames
    OBVIOUS
  <1>4. ASSUME NEW v \in Seq(Frames)
        PROVE  /\ Covers(v) <=> \E n \in 1 .. Len(v) : v[n] \in A
               /\ Marked(v) <=> \E n \in 1 .. Len(v) : v[n] \in B
    BY <1>3 DEF Covers, Marked
  <1> HIDE DEF A, B
  <1>5. u \in Seq(Frames)
    BY <1>1 DEF u
  <1> QED BY <1>2, <1>4, <1>5 DEF u

\* What is learned is not forgotten.
Knows(d, c) ==
  d.text = c.text /\ d.layers = c.layers /\ c.expansions \subseteq d.expansions /\ c.readers \subseteq d.readers
Above(t, s) == (Covers(s) => Covers(t)) /\ (Marked(s) => Marked(t))

\* An item that fits does so when more is known.
LEMMA FitsMore ==
  ASSUME NEW item, NEW s, NEW t, NEW c, NEW d, Knows(d, c), Above(t, s), Fits(item, s, c)
  PROVE  Fits(item, t, d)
  <1>1. Written(item, c) => Written(item, d)
    BY DEF Knows, Written
  <1>2. Read(item, c) => Read(item, d)
    BY DEF Knows, Read
  <1> QED BY <1>1, <1>2 DEF Knows, Above, Fits, FitsUse

\* A nest of binders is a stack.
LEMMA NestShape ==
  ASSUME NEW owner \in Owners, NEW n \in Nat
  PROVE  /\ Nest(owner, n) \in Seq(Frames) /\ Len(Nest(owner, n)) = n
         /\ \A k \in 1 .. n : Nest(owner, n)[k] = [owner |-> owner, trusted |-> FALSE]
         /\ Covers(Nest(owner, n)) <=> Inside(owner) /\ n > 0
  <1>1. [owner |-> owner, trusted |-> FALSE] \in Frames
    BY DEF Frames
  <1>2. /\ Nest(owner, n) \in Seq(Frames) /\ Len(Nest(owner, n)) = n
        /\ \A k \in 1 .. n : Nest(owner, n)[k] = [owner |-> owner, trusted |-> FALSE]
    BY <1>1 DEF Nest
  <1> QED BY <1>2 DEF Covers

\* What is between 0 and the end is a depth.
LEMMA DepthOfBalanced ==
  ASSUME NEW items, Len(items) \in Nat, DOMAIN items = 1 .. Len(items), Balanced(items)
  PROVE  /\ Depth(items, 0) = 0 /\ Depth(items, Len(items)) = 0
         /\ \A n \in 0 .. Len(items) : Depth(items, n) \in Nat
         /\ \A n \in 1 .. Len(items) :
              /\ items[n].form = "open" => Depth(items, n) = Depth(items, n - 1) + 1
              /\ items[n].form = "close" => Depth(items, n) = Depth(items, n - 1) - 1
              /\ items[n].form \notin {"open", "close"} => Depth(items, n) = Depth(items, n - 1)
  <1> DEFINE Of(form, n) == {i \in 1 .. n : items[i].form = form}
  <1>1. ASSUME NEW form, NEW n \in 0 .. Len(items)
        PROVE  IsFiniteSet(Of(form, n)) /\ Cardinality(Of(form, n)) \in Nat
    <2>1. IsFiniteSet(1 .. n)
      BY <1>1, FS_Interval
    <2>2. IsFiniteSet(Of(form, n))
      BY <2>1, FS_Subset
    <2> QED BY <2>2, FS_CardinalityType
  <1>2. ASSUME NEW form
        PROVE  Cardinality(Of(form, 0)) = 0
    <2>1. Of(form, 0) = {}
      OBVIOUS
    <2> QED BY <2>1, FS_EmptySet
  <1>3. ASSUME NEW form, NEW n \in 1 .. Len(items)
        PROVE  Cardinality(Of(form, n)) = Cardinality(Of(form, n - 1)) + (IF items[n].form = form THEN 1 ELSE 0)
    <2>1. CASE items[n].form = form
      <3>1. Of(form, n) = Of(form, n - 1) \union {n} /\ n \notin Of(form, n - 1)
        BY <2>1
      <3>2. n - 1 \in 0 .. Len(items)
        OBVIOUS
      <3> HIDE DEF Of
      <3>3. IsFiniteSet(Of(form, n - 1)) /\ Cardinality(Of(form, n - 1)) \in Nat
        BY <1>1, <3>2
      <3> QED BY <2>1, <3>1, <3>3, FS_AddElement
    <2>2. CASE items[n].form # form
      <3>1. Of(form, n) = Of(form, n - 1)
        BY <2>2
      <3>2. n - 1 \in 0 .. Len(items)
        OBVIOUS
      <3> HIDE DEF Of
      <3>3. Cardinality(Of(form, n - 1)) \in Nat
        BY <1>1, <3>2
      <3> QED BY <2>2, <3>1, <3>3
    <2> QED BY <2>1, <2>2
  <1>4. \A n \in 0 .. Len(items) : Depth(items, n) = Cardinality(Of("open", n)) - Cardinality(Of("close", n))
    BY DEF Depth
  <1> HIDE DEF Of
  <1>5. \A n \in 0 .. Len(items) : Cardinality(Of("open", n)) \in Nat /\ Cardinality(Of("close", n)) \in Nat
    BY <1>1
  <1>6. Depth(items, 0) = 0
    BY <1>2, <1>4
  <1>7. ASSUME NEW n \in 0 .. Len(items)
        PROVE  Depth(items, n) \in Nat
    <2>1. Depth(items, n) \in Int
      BY <1>4, <1>5
    <2>2. n = 0 \/ n \in DOMAIN items
      OBVIOUS
    <2> QED BY <1>6, <2>1, <2>2 DEF Balanced
  <1>8. ASSUME NEW n \in 1 .. Len(items)
        PROVE  /\ items[n].form = "open" => Depth(items, n) = Depth(items, n - 1) + 1
               /\ items[n].form = "close" => Depth(items, n) = Depth(items, n - 1) - 1
               /\ items[n].form \notin {"open", "close"} => Depth(items, n) = Depth(items, n - 1)
    <2>1. n \in 0 .. Len(items) /\ n - 1 \in 0 .. Len(items)
      OBVIOUS
    <2>2. /\ Cardinality(Of("open", n)) = Cardinality(Of("open", n - 1)) + (IF items[n].form = "open" THEN 1 ELSE 0)
          /\ Cardinality(Of("close", n)) = Cardinality(Of("close", n - 1)) + (IF items[n].form = "close" THEN 1 ELSE 0)
      BY <1>3
    <2>3. /\ Depth(items, n) = Cardinality(Of("open", n)) - Cardinality(Of("close", n))
          /\ Depth(items, n - 1) = Cardinality(Of("open", n - 1)) - Cardinality(Of("close", n - 1))
          /\ Cardinality(Of("open", n - 1)) \in Nat /\ Cardinality(Of("close", n - 1)) \in Nat
      BY <1>4, <1>5, <2>1
    <2>4. CASE items[n].form = "open"
      BY <2>2, <2>3, <2>4
    <2>5. CASE items[n].form = "close"
      BY <2>2, <2>3, <2>5
    <2>6. CASE items[n].form \notin {"open", "close"}
      BY <2>2, <2>3, <2>6
    <2> QED BY <2>4, <2>5, <2>6
  <1> QED BY <1>6, <1>7, <1>8 DEF Balanced

\* Two items in a row.
LEMMA FollowsWeaker ==
  ASSUME NEW item, NEW s \in Seq(Frames), NEW t \in Seq(Frames), NEW u \in Seq(Frames), Follows(item, s, t), Weaker(u, t)
  PROVE  Follows(item, s, u)
  <1>1. Len(s) \in Nat /\ Len(t) \in Nat /\ Len(u) = Len(t)
    BY DEF Weaker
  <1>2. \A n \in 1 .. Len(t) : Below(u[n], t[n])
    BY <1>1 DEF Weaker
  <1>3. \A n \in 1 .. Len(s) : n <= Len(u) => Below(u[n], s[n])
    BY <1>1, <1>2 DEF Follows, Below
  <1>4. item.form = "open" => u[Len(u)].owner = item.owner /\ ~u[Len(u)].trusted
    BY <1>1, <1>2 DEF Follows, Below
  <1> QED BY <1>1, <1>3, <1>4 DEF Follows

\* More may be known where a region starts.
LEMMA RegionWeaker ==
  ASSUME NEW items, NEW s, NEW t, NEW u, NEW c, Region(items, s, t, c), Weaker(s, u)
  PROVE  Region(items, u, t, c)
  <1>1. PICK f : Chain(items, s, t, c, f)
    BY DEF Region
  <1>2. Weaker(f[1], u)
    BY <1>1, WeakerIs DEF Chain
  <1>3. Chain(items, u, t, c, f)
    BY <1>1, <1>2 DEF Chain
  <1> QED BY <1>3 DEF Region

\* What is passed on fits when more is known.
LEMMA PassesMore ==
  ASSUME NEW args \in Seq(PassedItems), NEW s \in Seq(Frames), NEW t \in Seq(Frames), NEW c, NEW d,
         Knows(d, c), Above(t, s), Passes(args, s, c)
  PROVE  Passes(args, t, d)
  <1>1. PICK owner \in DefinitionOwners : FitsAt(args, owner, s, c)
    BY DEF Passes
  <1>2. Balanced(args) /\ Len(args) \in Nat /\ DOMAIN args = 1 .. Len(args)
    BY DEF Passes
  <1>3. ASSUME NEW j \in DOMAIN args
        PROVE  args[j].owner = owner /\ Fits(args[j], On(t, owner, Depth(args, j - 1)), d)
    <2> DEFINE nest == Nest(owner, Depth(args, j - 1))
    <2>1. j - 1 \in 0 .. Len(args)
      BY <1>2
    <2>2. Depth(args, j - 1) \in Nat
      BY <1>2, <2>1, DepthOfBalanced
    <2>3. owner \in Owners
      BY DEF Owners
    <2>4. nest \in Seq(Frames)
      BY <2>2, <2>3, NestShape
    <2>5. args[j].owner = owner /\ Fits(args[j], s \o nest, c)
      BY <1>1 DEF FitsAt, On
    <2> HIDE DEF nest
    <2>6. Above(t \o nest, s \o nest)
      BY <2>4, WithinStack DEF Above
    <2>7. Fits(args[j], t \o nest, d)
      BY <2>5, <2>6, FitsMore
    <2> QED BY <2>5, <2>7 DEF nest, On
  <1> QED BY <1>2, <1>3 DEF Passes, FitsAt

\* A region stays one when more is known.
LEMMA RegionKnows ==
  ASSUME NEW items \in Seq(WorkItems), NEW s, NEW t, NEW c, NEW d, Region(items, s, t, c), Knows(d, c)
  PROVE  Region(items, s, t, d)
  <1>1. PICK f : Chain(items, s, t, c, f)
    BY DEF Region
  <1>2. ASSUME NEW k \in 1 .. Len(items)
        PROVE  Follows(items[k], f[k], f[k + 1]) /\ Fits(items[k], f[k], d) /\ Passes(items[k].args, f[k], d)
    <2>1. Follows(items[k], f[k], f[k + 1]) /\ Fits(items[k], f[k], c) /\ Passes(items[k].args, f[k], c)
      BY <1>1 DEF Chain
    <2>2. f[k] \in Seq(Frames)
      <3>1. k \in 1 .. Len(items) + 1 /\ f \in [1 .. Len(items) + 1 -> Seq(Frames)]
        BY <1>1 DEF Chain
      <3> QED BY <3>1
    <2>3. items[k].args \in Seq(PassedItems)
      <3>1. items[k] \in WorkItems
        OBVIOUS
      <3> QED BY <3>1 DEF WorkItems
    <2>4. Above(f[k], f[k])
      BY DEF Above
    <2> QED BY <2>1, <2>2, <2>3, <2>4, FitsMore, PassesMore
  <1>3. Chain(items, s, t, d, f)
    BY <1>1, <1>2 DEF Chain
  <1> QED BY <1>3 DEF Region

\* The first item of a region, and what is left of it.
LEMMA RegionHead ==
  ASSUME NEW items \in Seq(WorkItems), items # <<>>, NEW s, NEW t, NEW c, Region(items, s, t, c)
  PROVE  \E a, b \in Seq(Frames) :
           /\ Weaker(a, s) /\ Follows(items[1], a, b) /\ Fits(items[1], a, c) /\ Passes(items[1].args, a, c)
           /\ Region(Tail(items), b, t, c)
  <1>1. PICK f : Chain(items, s, t, c, f)
    BY DEF Region
  <1> DEFINE n == Len(items)
             rest == Tail(items)
             g == [k \in 1 .. n |-> f[k + 1]]
  <1>2. n \in Nat \ {0} /\ Len(rest) = n - 1 /\ \A k \in 1 .. n - 1 : rest[k] = items[k + 1]
    OBVIOUS
  <1>3. f \in [1 .. n + 1 -> Seq(Frames)] /\ Weaker(f[1], s) /\ f[n + 1] = t
    BY <1>1 DEF Chain
  <1>4. \A k \in 1 .. n : Follows(items[k], f[k], f[k + 1]) /\ Fits(items[k], f[k], c) /\ Passes(items[k].args, f[k], c)
    BY <1>1 DEF Chain
  <1>5. f[1] \in Seq(Frames) /\ f[2] \in Seq(Frames)
    BY <1>2, <1>3
  <1>6. g \in [1 .. (n - 1) + 1 -> Seq(Frames)] /\ g[1] = f[2] /\ g[n] = t
    BY <1>2, <1>3
  <1> HIDE DEF n, rest
  <1>7. ASSUME NEW k \in 1 .. n - 1
        PROVE  Follows(rest[k], g[k], g[k + 1]) /\ Fits(rest[k], g[k], c) /\ Passes(rest[k].args, g[k], c)
    <2>1. rest[k] = items[k + 1] /\ g[k] = f[k + 1] /\ g[k + 1] = f[k + 1 + 1] /\ k + 1 \in 1 .. n
      BY <1>2
    <2> HIDE DEF g
    <2> QED BY <1>4, <2>1
  <1> HIDE DEF g
  <1>8. Chain(rest, f[2], t, c, g)
    BY <1>2, <1>6, <1>7, WeakerIs DEF Chain
  <1>9. Region(rest, f[2], t, c)
    BY <1>8 DEF Region
  <1>10. /\ Follows(items[1], f[1], f[2]) /\ Fits(items[1], f[1], c) /\ Passes(items[1].args, f[1], c)
    BY <1>2, <1>4
  <1> QED BY <1>3, <1>5, <1>9, <1>10 DEF rest

\* One region after another.
LEMMA RegionConcat ==
  ASSUME NEW x \in Seq(WorkItems), NEW y \in Seq(WorkItems), NEW s, NEW m, NEW t, NEW c,
         Region(x, s, m, c), Region(y, m, t, c)
  PROVE  Region(x \o y, s, t, c)
  <1>1. PICK f : Chain(x, s, m, c, f)
    BY DEF Region
  <1>2. PICK g : Chain(y, m, t, c, g)
    BY DEF Region
  <1> DEFINE n == Len(x)
             l == Len(y)
             z == x \o y
             h == [k \in 1 .. n + l + 1 |-> IF k <= n THEN f[k] ELSE g[k - n]]
  <1>3. /\ n \in Nat /\ l \in Nat /\ Len(z) = n + l
        /\ \A k \in 1 .. n : z[k] = x[k]
        /\ \A k \in n + 1 .. n + l : z[k] = y[k - n]
    OBVIOUS
  <1>4. f \in [1 .. n + 1 -> Seq(Frames)] /\ Weaker(f[1], s) /\ f[n + 1] = m
    BY <1>1 DEF Chain
  <1>5. g \in [1 .. l + 1 -> Seq(Frames)] /\ Weaker(g[1], m) /\ g[l + 1] = t
    BY <1>2 DEF Chain
  <1>6. \A k \in 1 .. n : Follows(x[k], f[k], f[k + 1]) /\ Fits(x[k], f[k], c) /\ Passes(x[k].args, f[k], c)
    BY <1>1 DEF Chain
  <1>7. \A k \in 1 .. l : Follows(y[k], g[k], g[k + 1]) /\ Fits(y[k], g[k], c) /\ Passes(y[k].args, g[k], c)
    BY <1>2 DEF Chain
  <1> HIDE DEF n, l, z
  <1>8. \A k \in 1 .. n + l + 1 : (k <= n => h[k] = f[k]) /\ (k > n => h[k] = g[k - n])
    BY <1>3
  <1>9. h \in [1 .. n + l + 1 -> Seq(Frames)]
    <2>1. ASSUME NEW k \in 1 .. n + l + 1 PROVE (IF k <= n THEN f[k] ELSE g[k - n]) \in Seq(Frames)
      <3>1. CASE k <= n
        BY <1>3, <1>4, <3>1
      <3>2. CASE k > n
        <4>1. k - n \in 1 .. l + 1
          BY <1>3, <3>2
        <4> QED BY <1>3, <1>5, <3>2, <4>1
      <3> QED BY <1>3, <3>1, <3>2
    <2> QED BY <2>1
  <1> HIDE DEF h
  <1>10. h[n + l + 1] = t
    <2>1. n + l + 1 \in 1 .. n + l + 1 /\ n + l + 1 > n /\ (n + l + 1) - n = l + 1
      BY <1>3
    <2> QED BY <1>5, <1>8, <2>1
  <1>11. Weaker(h[1], s)
    <2>1. CASE n = 0
      <3>1. h[1] = g[1] /\ Weaker(f[1], s) /\ f[1] = m
        BY <1>3, <1>4, <1>8, <2>1
      <3> QED BY <1>5, <3>1, WeakerIs
    <2>2. CASE n > 0
      <3>1. h[1] = f[1]
        BY <1>3, <1>8, <2>2
      <3> QED BY <1>4, <3>1
    <2> QED BY <1>3, <2>1, <2>2
  <1>12. ASSUME NEW k \in 1 .. n + l
         PROVE  Follows(z[k], h[k], h[k + 1]) /\ Fits(z[k], h[k], c) /\ Passes(z[k].args, h[k], c)
    <2>1. CASE k < n
      <3>1. z[k] = x[k] /\ h[k] = f[k] /\ h[k + 1] = f[k + 1] /\ k \in 1 .. n
        BY <1>3, <1>8, <2>1
      <3> QED BY <1>6, <3>1
    <2>2. CASE k = n
      <3>1. z[k] = x[k] /\ h[k] = f[k] /\ h[k + 1] = g[1] /\ k \in 1 .. n /\ f[k + 1] = m
        <4>1. k + 1 \in 1 .. n + l + 1 /\ k + 1 > n /\ (k + 1) - n = 1 /\ k \in 1 .. n + l + 1 /\ k <= n
          BY <1>3, <2>2
        <4> QED BY <1>3, <1>4, <1>8, <2>2, <4>1
      <3>2. f[k] \in Seq(Frames) /\ f[k + 1] \in Seq(Frames) /\ g[1] \in Seq(Frames)
        BY <1>3, <1>4, <1>5, <3>1
      <3>3. Follows(x[k], f[k], g[1])
        BY <1>5, <1>6, <3>1, <3>2, FollowsWeaker
      <3> QED BY <1>6, <3>1, <3>3
    <2>3. CASE k > n
      <3>1. k - n \in 1 .. l /\ (k + 1) - n = (k - n) + 1 /\ k \in n + 1 .. n + l /\ k + 1 \in 1 .. n + l + 1 /\ k + 1 > n
            /\ k \in 1 .. n + l + 1
        BY <1>3, <2>3
      <3>2. z[k] = y[k - n] /\ h[k] = g[k - n] /\ h[k + 1] = g[(k - n) + 1]
        BY <1>3, <1>8, <2>3, <3>1
      <3> QED BY <1>7, <3>1, <3>2
    <2> QED BY <1>3, <2>1, <2>2, <2>3
  <1>13. Chain(z, s, t, c, h)
    BY <1>3, <1>9, <1>10, <1>11, <1>12 DEF Chain
  <1> QED BY <1>13 DEF Region, z

\* Nothing passed on fits.
LEMMA NothingPassed ==
  ASSUME NEW s, NEW c
  PROVE  Passes(<<>>, s, c)
  <1>1. DOMAIN <<>> = {} /\ Len(<<>>) = 0
    OBVIOUS
  <1>2. Depth(<<>>, 0) = 0
    <2>1. \A form : {i \in 1 .. 0 : <<>>[i].form = form} = {}
      OBVIOUS
    <2>2. Cardinality({}) = 0
      BY FS_EmptySet
    <2> QED BY <2>1, <2>2 DEF Depth
  <1>3. Balanced(<<>>)
    BY <1>1, <1>2 DEF Balanced
  <1>4. FitsAt(<<>>, "caller", s, c) /\ "caller" \in DefinitionOwners
    BY <1>1 DEF FitsAt, DefinitionOwners
  <1> QED BY <1>3, <1>4 DEF Passes

\* A region of one item.
LEMMA RegionOne ==
  ASSUME NEW item, NEW s \in Seq(Frames), NEW t \in Seq(Frames), NEW c,
         Follows(item, s, t), Fits(item, s, c), Passes(item.args, s, c)
  PROVE  Region(<<item>>, s, t, c)
  <1> DEFINE f == <<s, t>>
  <1>1. Len(<<item>>) = 1 /\ <<item>>[1] = item
    OBVIOUS
  <1>2. f \in [1 .. 1 + 1 -> Seq(Frames)] /\ f[1] = s /\ f[1 + 1] = t
    OBVIOUS
  <1> HIDE DEF f
  <1>3. Chain(<<item>>, s, t, c, f)
    BY <1>1, <1>2, WeakerIs DEF Chain
  <1> QED BY <1>3 DEF Region

\* A region of none.
LEMMA RegionNone ==
  ASSUME NEW s \in Seq(Frames), NEW c
  PROVE  Region(<<>>, s, s, c)
  <1> DEFINE f == <<s>>
  <1>1. Len(<<>>) = 0
    OBVIOUS
  <1>2. f \in [1 .. 0 + 1 -> Seq(Frames)] /\ f[1] = s /\ f[0 + 1] = s
    OBVIOUS
  <1> HIDE DEF f
  <1>3. Chain(<<>>, s, s, c, f)
    BY <1>1, <1>2, WeakerIs DEF Chain
  <1> QED BY <1>3 DEF Region

\* What a nest of binders on a stack is.
Stacked(u, s, owner, d) ==
  /\ u \in Seq(Frames) /\ Len(u) = Len(s) + d /\ Len(s) \in Nat
  /\ \A i \in 1 .. Len(s) : u[i] = s[i]
  /\ \A i \in Len(s) + 1 .. Len(s) + d : u[i] = [owner |-> owner, trusted |-> FALSE]

\* It is that, and a stack.
LEMMA NestOn ==
  ASSUME NEW owner \in Owners, NEW s \in Seq(Frames), NEW d \in Nat
  PROVE  Stacked(On(s, owner, d), s, owner, d)
  <1> DEFINE nest == Nest(owner, d)
  <1>1. nest \in Seq(Frames) /\ Len(nest) = d /\ \A i \in 1 .. d : nest[i] = [owner |-> owner, trusted |-> FALSE]
    BY NestShape
  <1> HIDE DEF nest
  <1>2. /\ s \o nest \in Seq(Frames) /\ Len(s \o nest) = Len(s) + d /\ Len(s) \in Nat
        /\ \A i \in 1 .. Len(s) : (s \o nest)[i] = s[i]
        /\ \A i \in Len(s) + 1 .. Len(s) + d : (s \o nest)[i] = nest[i - Len(s)]
    BY <1>1
  <1>3. ASSUME NEW i \in Len(s) + 1 .. Len(s) + d PROVE (s \o nest)[i] = [owner |-> owner, trusted |-> FALSE]
    <2>1. i - Len(s) \in 1 .. d
      BY <1>2
    <2> QED BY <1>1, <1>2, <2>1
  <1> QED BY <1>2, <1>3 DEF nest, On, Stacked

\* No binder on a stack is the stack.
LEMMA NestNone ==
  ASSUME NEW owner \in Owners, NEW s \in Seq(Frames)
  PROVE  On(s, owner, 0) = s
  <1> DEFINE u == On(s, owner, 0)
  <1>1. Stacked(u, s, owner, 0)
    BY NestOn
  <1> HIDE DEF u
  <1>2. u \in Seq(Frames) /\ Len(u) = Len(s) /\ \A i \in 1 .. Len(s) : u[i] = s[i]
    BY <1>1 DEF Stacked
  <1>3. u = s
    BY <1>2
  <1> QED BY <1>3 DEF u

\* Binders of one owner are opened and closed one at a time.
LEMMA NestFollows ==
  ASSUME NEW item, NEW owner \in Owners, item.owner = owner, NEW s \in Seq(Frames), NEW a \in Nat, NEW b \in Nat,
         /\ item.form = "open" => b = a + 1
         /\ item.form = "close" => b = a - 1
         /\ item.form \notin {"open", "close"} => b = a
  PROVE  Follows(item, On(s, owner, a), On(s, owner, b))
  <1> DEFINE u == On(s, owner, a)
             v == On(s, owner, b)
  <1>0. Stacked(u, s, owner, a) /\ Stacked(v, s, owner, b)
    BY NestOn
  <1> HIDE DEF u, v
  <1>1. /\ Len(u) = Len(s) + a /\ Len(v) = Len(s) + b /\ Len(s) \in Nat
        /\ \A i \in 1 .. Len(s) : u[i] = s[i] /\ v[i] = s[i]
        /\ \A i \in Len(s) + 1 .. Len(s) + a : u[i] = [owner |-> owner, trusted |-> FALSE]
        /\ \A i \in Len(s) + 1 .. Len(s) + b : v[i] = [owner |-> owner, trusted |-> FALSE]
    BY <1>0 DEF Stacked
  <1>2. \A i \in 1 .. Len(u) : i <= Len(v) => Below(v[i], u[i])
    <2> SUFFICES ASSUME NEW i \in 1 .. Len(u), i <= Len(v) PROVE Below(v[i], u[i])
      OBVIOUS
    <2>1. CASE i \in 1 .. Len(s)
      BY <1>1, <2>1 DEF Below
    <2>2. CASE i > Len(s)
      <3>1. i \in Len(s) + 1 .. Len(s) + a /\ i \in Len(s) + 1 .. Len(s) + b
        BY <1>1, <2>2
      <3> QED BY <1>1, <3>1 DEF Below
    <2> QED BY <1>1, <2>1, <2>2
  <1>3. item.form = "open" => v[Len(v)].owner = item.owner /\ ~v[Len(v)].trusted
    <2> SUFFICES ASSUME item.form = "open" PROVE v[Len(v)].owner = owner /\ ~v[Len(v)].trusted
      OBVIOUS
    <2>1. Len(v) \in Len(s) + 1 .. Len(s) + b
      BY <1>1
    <2> QED BY <1>1, <2>1
  <1>4. Follows(item, u, v)
    BY <1>1, <1>2, <1>3 DEF Follows
  <1> QED BY <1>4 DEF u, v

\* The items of one owner, each of which fits where its depth puts it.
Located(items, owner, s, c) ==
  \A k \in DOMAIN items :
    /\ items[k].owner = owner
    /\ Fits(items[k], On(s, owner, Depth(items, k - 1)), c)
    /\ Passes(items[k].args, On(s, owner, Depth(items, k - 1)), c)

\* A balanced sequence of them is a region.
LEMMA RegionOf ==
  ASSUME NEW items \in Seq(WorkItems), Balanced(items), NEW owner \in DefinitionOwners, NEW s \in Seq(Frames), NEW c,
         Located(items, owner, s, c)
  PROVE  Region(items, s, s, c)
  <1> DEFINE n == Len(items)
             At(k) == On(s, owner, Depth(items, k - 1))
             f == [k \in 1 .. n + 1 |-> At(k)]
  <1>1. n \in Nat /\ DOMAIN items = 1 .. n /\ owner \in Owners
    BY DEF Owners
  <1>2. /\ Depth(items, 0) = 0 /\ Depth(items, n) = 0
        /\ \A k \in 0 .. n : Depth(items, k) \in Nat
        /\ \A k \in 1 .. n :
              /\ items[k].form = "open" => Depth(items, k) = Depth(items, k - 1) + 1
              /\ items[k].form = "close" => Depth(items, k) = Depth(items, k - 1) - 1
              /\ items[k].form \notin {"open", "close"} => Depth(items, k) = Depth(items, k - 1)
    BY <1>1, DepthOfBalanced
  <1> HIDE DEF n
  <1>3. At(1) = s /\ At(n + 1) = s
    <2>1. (n + 1) - 1 = n /\ 1 - 1 = 0
      BY <1>1
    <2> QED BY <1>1, <1>2, <2>1, NestNone
  <1>4. ASSUME NEW k \in 1 .. n
        PROVE  Follows(items[k], At(k), At(k + 1)) /\ Fits(items[k], At(k), c) /\ Passes(items[k].args, At(k), c)
    <2>1. k - 1 \in 0 .. n /\ k \in 0 .. n /\ k \in DOMAIN items /\ (k + 1) - 1 = k
      BY <1>1
    <2>2. Depth(items, k - 1) \in Nat /\ Depth(items, k) \in Nat
      BY <1>2, <2>1
    <2>3. items[k].owner = owner /\ Fits(items[k], At(k), c) /\ Passes(items[k].args, At(k), c)
      BY <2>1 DEF Located
    <2>4. Follows(items[k], On(s, owner, Depth(items, k - 1)), On(s, owner, Depth(items, k)))
      BY <1>1, <1>2, <2>2, <2>3, NestFollows
    <2> QED BY <2>1, <2>3, <2>4
  <1>5. ASSUME NEW k \in 1 .. n + 1 PROVE At(k) \in Seq(Frames)
    <2>1. k - 1 \in 0 .. n
      BY <1>1
    <2>2. Depth(items, k - 1) \in Nat
      BY <1>2, <2>1
    <2> QED BY <1>1, <2>2, NestOn DEF Stacked
  <1> HIDE DEF At
  <1>6. f \in [1 .. n + 1 -> Seq(Frames)] /\ \A k \in 1 .. n + 1 : f[k] = At(k)
    BY <1>5
  <1> HIDE DEF f
  <1>7. f[1] = s /\ f[n + 1] = s /\ Weaker(f[1], s)
    BY <1>1, <1>3, <1>6, WeakerIs
  <1>8. ASSUME NEW k \in 1 .. n
        PROVE  Follows(items[k], f[k], f[k + 1]) /\ Fits(items[k], f[k], c) /\ Passes(items[k].args, f[k], c)
    <2>1. f[k] = At(k) /\ f[k + 1] = At(k + 1)
      BY <1>1, <1>6
    <2> QED BY <1>4, <2>1
  <1>9. Chain(items, s, s, c, f)
    BY <1>6, <1>7, <1>8 DEF Chain, n
  <1> QED BY <1>9 DEF Region

-----------------------------------------------------------------------------
(***************************************************************************)
(* The bodies of views and macros, and the arguments of calls, as regions. *)
(***************************************************************************)
Alike(x, y) == Len(x) = Len(y) /\ \A k \in 1 .. Len(y) : x[k].form = y[k].form /\ x[k].entry = y[k].entry

\* Sequences of the same forms have the same depths.
LEMMA AlikeDepth ==
  ASSUME NEW x, NEW y, Len(y) \in Nat, DOMAIN x = 1 .. Len(y), DOMAIN y = 1 .. Len(y), Alike(x, y)
  PROVE  (\A k \in 0 .. Len(y) : Depth(x, k) = Depth(y, k)) /\ (Balanced(y) => Balanced(x))
  <1>1. ASSUME NEW k \in 0 .. Len(y) PROVE Depth(x, k) = Depth(y, k)
    <2>1. ASSUME NEW form PROVE {i \in 1 .. k : x[i].form = form} = {i \in 1 .. k : y[i].form = form}
      <3>1. \A i \in 1 .. k : i \in 1 .. Len(y)
        OBVIOUS
      <3>2. \A i \in 1 .. k : x[i].form = y[i].form
        BY <3>1 DEF Alike
      <3> QED BY <3>2
    <2> QED BY <2>1 DEF Depth
  <1>2. Len(y) \in 0 .. Len(y) /\ Len(x) = Len(y) /\ \A k \in 1 .. Len(y) : k \in 0 .. Len(y)
    BY DEF Alike
  <1> QED BY <1>1, <1>2 DEF Balanced

Passed(args, owner) ==
  [j \in DOMAIN args |-> [form |-> args[j].form, entry |-> args[j].entry, detail |-> args[j].detail,
                          owner |-> owner, args |-> <<>>]]

\* Owning changes neither what items are nor what they name.
LEMMA OwnedAlike ==
  ASSUME NEW items \in Seq(ItemRecords), NEW owner \in DefinitionOwners
  PROVE  /\ Alike(Owned(items, owner), items) /\ DOMAIN Owned(items, owner) = 1 .. Len(items) /\ Len(items) \in Nat
         /\ \A k \in 1 .. Len(items) :
              /\ Owned(items, owner)[k].owner = owner
              /\ Owned(items, owner)[k].args = Passed(items[k].args, owner)
              /\ items[k].args \in Seq(Arguments)
  <1>1. Len(items) \in Nat /\ DOMAIN items = 1 .. Len(items) /\ \A k \in 1 .. Len(items) : items[k] \in ItemRecords
    OBVIOUS
  <1>2. DOMAIN Owned(items, owner) = 1 .. Len(items)
    BY <1>1 DEF Owned
  <1>3. ASSUME NEW k \in 1 .. Len(items)
        PROVE  /\ Owned(items, owner)[k].form = items[k].form /\ Owned(items, owner)[k].entry = items[k].entry
               /\ Owned(items, owner)[k].owner = owner
               /\ Owned(items, owner)[k].args = Passed(items[k].args, owner)
    BY <1>1 DEF Owned, Passed
  <1>4. Len(Owned(items, owner)) = Len(items)
    <2>1. Owned(items, owner) \in Seq(WorkItems)
      BY OwnedShape
    <2> QED BY <1>1, <1>2, <2>1
  <1>5. ASSUME NEW k \in 1 .. Len(items) PROVE items[k].args \in Seq(Arguments)
    BY <1>1 DEF ItemRecords
  <1> QED BY <1>1, <1>2, <1>3, <1>4, <1>5 DEF Alike

\* The same of the arguments.
LEMMA PassedAlike ==
  ASSUME NEW args \in Seq(Arguments), NEW owner \in DefinitionOwners
  PROVE  /\ Passed(args, owner) \in Seq(PassedItems) /\ Alike(Passed(args, owner), args)
         /\ DOMAIN Passed(args, owner) = 1 .. Len(args) /\ DOMAIN args = 1 .. Len(args) /\ Len(args) \in Nat
         /\ \A j \in 1 .. Len(args) : Passed(args, owner)[j].owner = owner
  <1>1. Len(args) \in Nat /\ DOMAIN args = 1 .. Len(args) /\ \A j \in 1 .. Len(args) : args[j] \in Arguments
    OBVIOUS
  <1>2. \A j \in 1 .. Len(args) : [form |-> args[j].form, entry |-> args[j].entry, detail |-> args[j].detail,
                                   owner |-> owner, args |-> <<>>] \in PassedItems
    BY <1>1 DEF Arguments, PassedItems, Named
  <1>3. Passed(args, owner) \in Seq(PassedItems) /\ Len(Passed(args, owner)) = Len(args)
        /\ DOMAIN Passed(args, owner) = 1 .. Len(args)
    BY <1>1, <1>2 DEF Passed
  <1>4. \A j \in 1 .. Len(args) : /\ Passed(args, owner)[j].owner = owner /\ Passed(args, owner)[j].form = args[j].form
                                  /\ Passed(args, owner)[j].entry = args[j].entry
    BY <1>1 DEF Passed
  <1> QED BY <1>1, <1>3, <1>4 DEF Alike

\* Only an item's form, entry and owner decide where it fits.
LEMMA FitsSame ==
  ASSUME NEW item, NEW other, item.form = other.form, item.entry = other.entry, item.owner = other.owner, NEW s, NEW c,
         Fits(other, s, c)
  PROVE  Fits(item, s, c)
  <1>1. Written(other, c) => Written(item, c)
    BY DEF Written
  <1>2. Read(other, c) => Read(item, c)
    BY DEF Read
  <1> QED BY <1>1, <1>2 DEF Fits, FitsUse

ByOwner(item, owner) == [form |-> item.form, entry |-> item.entry, owner |-> owner]

\* The items of a definition, and the arguments they pass, fit where its binder reaches them.
PassedAt(args, owner, s, c) ==
  \A j \in DOMAIN args : Fits(ByOwner(args[j], owner), On(s, owner, Depth(args, j - 1)), c)
Placed(items, owner, s, c) ==
  \A k \in DOMAIN items :
    /\ Fits(ByOwner(items[k], owner), On(s, owner, Depth(items, k - 1)), c)
    /\ Balanced(items[k].args) /\ PassedAt(items[k].args, owner, On(s, owner, Depth(items, k - 1)), c)

\* Arguments that fit are passed on.
LEMMA PassedFits ==
  ASSUME NEW args \in Seq(Arguments), NEW owner \in DefinitionOwners, NEW s, NEW c, Balanced(args),
         PassedAt(args, owner, s, c)
  PROVE  Passes(Passed(args, owner), s, c)
  <1> DEFINE x == Passed(args, owner)
  <1>1. /\ DOMAIN x = 1 .. Len(args) /\ DOMAIN args = 1 .. Len(args) /\ Len(args) \in Nat /\ Alike(x, args)
        /\ \A j \in 1 .. Len(args) : x[j].owner = owner
    BY PassedAlike
  <1> HIDE DEF x
  <1>2. Balanced(x) /\ \A k \in 0 .. Len(args) : Depth(x, k) = Depth(args, k)
    BY <1>1, AlikeDepth
  <1>3. ASSUME NEW j \in DOMAIN x
        PROVE  x[j].owner = owner /\ Fits(x[j], On(s, owner, Depth(x, j - 1)), c)
    <2>1. j \in 1 .. Len(args) /\ j - 1 \in 0 .. Len(args)
      BY <1>1
    <2>2. Depth(x, j - 1) = Depth(args, j - 1) /\ x[j].form = args[j].form /\ x[j].entry = args[j].entry /\ x[j].owner = owner
      BY <1>1, <1>2, <2>1 DEF Alike
    <2>3. Fits(ByOwner(args[j], owner), On(s, owner, Depth(args, j - 1)), c)
      BY <1>1, <2>1 DEF PassedAt
    <2> DEFINE other == ByOwner(args[j], owner)
    <2>4. other.form = x[j].form /\ other.entry = x[j].entry /\ other.owner = x[j].owner
      BY <2>2 DEF ByOwner
    <2> HIDE DEF other
    <2>5. Fits(x[j], On(s, owner, Depth(args, j - 1)), c)
      BY <2>3, <2>4, FitsSame DEF other
    <2> QED BY <2>2, <2>5
  <1>4. FitsAt(x, owner, s, c)
    BY <1>3 DEF FitsAt
  <1> QED BY <1>2, <1>4 DEF Passes, x

\* A definition's items, owned.
LEMMA LocatedOwned ==
  ASSUME NEW items \in Seq(ItemRecords), NEW owner \in DefinitionOwners, NEW s, NEW c, Balanced(items),
         Placed(items, owner, s, c)
  PROVE  Balanced(Owned(items, owner)) /\ Located(Owned(items, owner), owner, s, c)
  <1> DEFINE x == Owned(items, owner)
  <1>1. /\ DOMAIN x = 1 .. Len(items) /\ DOMAIN items = 1 .. Len(items) /\ Len(items) \in Nat /\ Alike(x, items)
        /\ \A k \in 1 .. Len(items) :
              x[k].owner = owner /\ x[k].args = Passed(items[k].args, owner) /\ items[k].args \in Seq(Arguments)
    BY OwnedAlike
  <1> HIDE DEF x
  <1>2. Balanced(x) /\ \A k \in 0 .. Len(items) : Depth(x, k) = Depth(items, k)
    BY <1>1, AlikeDepth
  <1>3. ASSUME NEW k \in DOMAIN x
        PROVE  /\ x[k].owner = owner /\ Fits(x[k], On(s, owner, Depth(x, k - 1)), c)
               /\ Passes(x[k].args, On(s, owner, Depth(x, k - 1)), c)
    <2>1. k \in 1 .. Len(items) /\ k - 1 \in 0 .. Len(items)
      BY <1>1
    <2>2. /\ Depth(x, k - 1) = Depth(items, k - 1) /\ x[k].form = items[k].form /\ x[k].entry = items[k].entry
          /\ x[k].owner = owner /\ x[k].args = Passed(items[k].args, owner) /\ items[k].args \in Seq(Arguments)
      BY <1>1, <1>2, <2>1 DEF Alike
    <2> DEFINE other == ByOwner(items[k], owner)
               at == On(s, owner, Depth(items, k - 1))
    <2>3. Fits(other, at, c) /\ Balanced(items[k].args) /\ PassedAt(items[k].args, owner, at, c)
      BY <1>1, <2>1 DEF Placed
    <2>4. other.form = x[k].form /\ other.entry = x[k].entry /\ other.owner = x[k].owner
      BY <2>2 DEF ByOwner
    <2>5. On(s, owner, Depth(x, k - 1)) = at
      BY <2>2
    <2> HIDE DEF other, at
    <2>6. Fits(x[k], at, c)
      BY <2>3, <2>4, FitsSame
    <2>7. Passes(x[k].args, at, c)
      BY <2>2, <2>3, PassedFits
    <2> QED BY <2>2, <2>5, <2>6, <2>7
  <1>4. Located(x, owner, s, c)
    BY <1>3 DEF Located
  <1> QED BY <1>2, <1>4 DEF x

\* A deeper stack knows no less.
LEMMA OnAbove ==
  ASSUME NEW s \in Seq(Frames), NEW owner \in Owners, NEW d \in Nat
  PROVE  Above(On(s, owner, d), s) /\ On(s, owner, d) \in Seq(Frames) /\ (Inside(owner) /\ d > 0 => Covers(On(s, owner, d)))
  <1>1. Nest(owner, d) \in Seq(Frames) /\ (Inside(owner) /\ d > 0 => Covers(Nest(owner, d)))
    BY NestShape
  <1> QED BY <1>1, WithinStack DEF Above, On

\* A body with the arguments of its call in their places.
LEMMA LocatedExpand ==
  ASSUME NEW x \in Seq(WorkItems), NEW owner \in DefinitionOwners, NEW s \in Seq(Frames), NEW c, Balanced(x),
         Located(x, owner, s, c), NEW args \in Seq(PassedItems), Passes(args, s, c)
  PROVE  Balanced(Expand(x, args)) /\ Located(Expand(x, args), owner, s, c)
  <1> DEFINE y == Expand(x, args)
  <1>1. Len(x) \in Nat /\ DOMAIN x = 1 .. Len(x) /\ DOMAIN y = 1 .. Len(x) /\ owner \in Owners
    BY DEF Expand, Owners
  <1>2. ASSUME NEW k \in 1 .. Len(x)
        PROVE  y[k].form = x[k].form /\ y[k].entry = x[k].entry /\ y[k].owner = x[k].owner /\ y[k].args \in {x[k].args, args}
    <2>1. x[k] \in WorkItems /\ y[k] = IF x[k].form = "argument" THEN [x[k] EXCEPT !.args = args] ELSE x[k]
      BY <1>1 DEF Expand
    <2> QED BY <2>1 DEF WorkItems
  <1>3. Len(y) = Len(x)
    <2>1. \A k \in DOMAIN x : x[k].owner # "body"
      BY DEF Located, DefinitionOwners
    <2>2. y \in Seq(WorkItems)
      BY <2>1, ExpandShape
    <2> QED BY <1>1, <2>2
  <1> HIDE DEF y
  <1>4. Alike(y, x)
    BY <1>2, <1>3 DEF Alike
  <1>5. Balanced(y) /\ (\A k \in 0 .. Len(x) : Depth(y, k) = Depth(x, k)) /\ \A k \in 0 .. Len(x) : Depth(x, k) \in Nat
    BY <1>1, <1>4, AlikeDepth, DepthOfBalanced
  <1>6. ASSUME NEW k \in DOMAIN y
        PROVE  /\ y[k].owner = owner /\ Fits(y[k], On(s, owner, Depth(y, k - 1)), c)
               /\ Passes(y[k].args, On(s, owner, Depth(y, k - 1)), c)
    <2> DEFINE at == On(s, owner, Depth(x, k - 1))
    <2>1. k \in 1 .. Len(x) /\ k - 1 \in 0 .. Len(x)
      BY <1>1
    <2>2. Depth(x, k - 1) \in Nat /\ On(s, owner, Depth(y, k - 1)) = at
      BY <1>5, <2>1
    <2>3. x[k].owner = owner /\ Fits(x[k], at, c) /\ Passes(x[k].args, at, c)
      BY <1>1, <2>1 DEF Located
    <2>4. Above(at, s) /\ at \in Seq(Frames)
      BY <1>1, <2>2, OnAbove
    <2> HIDE DEF at
    <2>5. Fits(y[k], at, c)
      BY <1>2, <2>1, <2>3, FitsSame
    <2>6. Knows(c, c)
      BY DEF Knows
    <2>7. Passes(args, at, c)
      BY <2>4, <2>6, PassesMore
    <2> QED BY <1>2, <2>1, <2>2, <2>3, <2>5, <2>7
  <1>7. Located(y, owner, s, c)
    BY <1>6 DEF Located
  <1> QED BY <1>5, <1>7 DEF y

\* The depths at which a definition's items, and the arguments they pass, are bound.
LEMMA Depths ==
  ASSUME NEW items, Len(items) \in Nat, DOMAIN items = 1 .. Len(items), Balanced(items), NEW k \in DOMAIN items
  PROVE  /\ Depth(items, k - 1) \in Nat
         /\ items[k].form \notin Structure => Depth(items, k - 1) = Depth(items, k)
  <1>1. k - 1 \in 0 .. Len(items) /\ k \in 1 .. Len(items)
    OBVIOUS
  <1>2. \A n \in 0 .. Len(items) : Depth(items, n) \in Nat
    BY DepthOfBalanced
  <1>3. items[k].form \notin {"open", "close"} => Depth(items, k) = Depth(items, k - 1)
    BY <1>1, DepthOfBalanced
  <1> QED BY <1>1, <1>2, <1>3 DEF Structure

\* What a definition other than the engine's scalar macros reads from is within what it opens.
LEMMA InsideFits ==
  ASSUME NEW items, Len(items) \in Nat, DOMAIN items = 1 .. Len(items), Balanced(items),
         NEW owner \in DefinitionOwners, Inside(owner), NEW s \in Seq(Frames), NEW c,
         Covers(s) \/ Expression(items), NEW k \in DOMAIN items
  PROVE  Fits(ByOwner(items[k], owner), On(s, owner, Depth(items, k - 1)), c)
  <1> DEFINE other == ByOwner(items[k], owner)
             d == Depth(items, k - 1)
  <1>1. other.form = items[k].form /\ other.entry = items[k].entry /\ other.owner = owner
    BY DEF ByOwner
  <1>2. d \in Nat /\ owner \in Owners /\ (items[k].form \notin Structure => d = Depth(items, k))
    BY Depths DEF Owners
  <1>3. Expression(items) /\ items[k].form \notin Structure /\ Entries[items[k].entry].type \in FromTypes => d > 0
    BY <1>2 DEF Expression
  <1> HIDE DEF other, d
  <1>4. Above(On(s, owner, d), s) /\ (d > 0 => Covers(On(s, owner, d)))
    BY <1>2, OnAbove
  <1>5. items[k].form \notin Structure /\ Entries[items[k].entry].type \in FromTypes => Covers(On(s, owner, d))
    BY <1>3, <1>4 DEF Above
  <1>6. owner # "caller" /\ owner # "default"
    BY DEF Inside
  <1> QED BY <1>1, <1>5, <1>6 DEF Fits, FitsUse, d, other

\* So every item of such a definition is in its place.
LEMMA PlacedInside ==
  ASSUME NEW items \in Seq(ItemRecords), Balanced(items), \A k \in DOMAIN items : Expression(items[k].args),
         NEW owner \in DefinitionOwners, Inside(owner), NEW s \in Seq(Frames), NEW c, Covers(s) \/ Expression(items)
  PROVE  Placed(items, owner, s, c)
  <1>1. Len(items) \in Nat /\ DOMAIN items = 1 .. Len(items) /\ owner \in Owners
    BY DEF Owners
  <1>2. ASSUME NEW k \in DOMAIN items
        PROVE  /\ Fits(ByOwner(items[k], owner), On(s, owner, Depth(items, k - 1)), c)
               /\ Balanced(items[k].args) /\ PassedAt(items[k].args, owner, On(s, owner, Depth(items, k - 1)), c)
    <2> DEFINE at == On(s, owner, Depth(items, k - 1))
               args == items[k].args
    <2>1. Fits(ByOwner(items[k], owner), at, c)
      BY <1>1, InsideFits
    <2>2. Depth(items, k - 1) \in Nat
      BY <1>1, Depths
    <2>3. at \in Seq(Frames)
      BY <1>1, <2>2, OnAbove
    <2>4. args \in Seq(Arguments)
      <3>1. items[k] \in ItemRecords
        OBVIOUS
      <3> QED BY <3>1 DEF ItemRecords
    <2>5. Len(args) \in Nat /\ DOMAIN args = 1 .. Len(args)
      BY <2>4
    <2>6. Expression(args) /\ Balanced(args)
      BY DEF Expression
    <2> HIDE DEF at, args
    <2>7. PassedAt(args, owner, at, c)
      BY <2>3, <2>5, <2>6, InsideFits DEF PassedAt
    <2> QED BY <2>1, <2>6, <2>7 DEF at, args
  <1> QED BY <1>2 DEF Placed

\* A use that fits a stack and whatever is opened on it.
FitsFrom(use, owner, s, c) == \A t : Above(t, s) => Fits(ByOwner(use, owner), t, c)

\* A definition all of whose uses do is in its place.
LEMMA PlacedUses ==
  ASSUME NEW items \in Seq(ItemRecords), Balanced(items), \A k \in DOMAIN items : Expression(items[k].args),
         NEW owner \in DefinitionOwners, NEW s \in Seq(Frames), NEW c,
         \A use \in Uses(items) : FitsFrom(use, owner, s, c)
  PROVE  Placed(items, owner, s, c)
  <1>1. Len(items) \in Nat /\ DOMAIN items = 1 .. Len(items) /\ owner \in Owners
    BY DEF Owners
  <1>2. ASSUME NEW use, use.form \notin Structure => use \in Uses(items), NEW t, Above(t, s)
        PROVE  Fits(ByOwner(use, owner), t, c)
    <2>1. CASE use.form \in Structure
      <3>1. ByOwner(use, owner).form = use.form
        BY DEF ByOwner
      <3> QED BY <2>1, <3>1 DEF Fits
    <2>2. CASE use.form \notin Structure
      BY <1>2, <2>2 DEF FitsFrom
    <2> QED BY <2>1, <2>2
  <1>3. ASSUME NEW k \in DOMAIN items
        PROVE  /\ Fits(ByOwner(items[k], owner), On(s, owner, Depth(items, k - 1)), c)
               /\ Balanced(items[k].args) /\ PassedAt(items[k].args, owner, On(s, owner, Depth(items, k - 1)), c)
    <2> DEFINE at == On(s, owner, Depth(items, k - 1))
               args == items[k].args
    <2>1. Depth(items, k - 1) \in Nat
      BY <1>1, Depths
    <2>2. at \in Seq(Frames) /\ Above(at, s)
      BY <1>1, <2>1, OnAbove
    <2>3. items[k].form \notin Structure => items[k] \in Uses(items)
      BY DEF Uses, Range
    <2>4. \A j \in DOMAIN args : args[j].form \notin Structure => args[j] \in Uses(items)
      BY DEF Uses, Range
    <2>5. args \in Seq(Arguments)
      <3>1. items[k] \in ItemRecords
        OBVIOUS
      <3> QED BY <3>1 DEF ItemRecords
    <2>6. Len(args) \in Nat /\ DOMAIN args = 1 .. Len(args)
      BY <2>5
    <2>7. Balanced(args)
      BY DEF Expression
    <2> HIDE DEF at, args
    <2>8. ASSUME NEW j \in DOMAIN args
          PROVE  Fits(ByOwner(args[j], owner), On(at, owner, Depth(args, j - 1)), c)
      <3>1. Depth(args, j - 1) \in Nat
        BY <2>6, <2>7, Depths
      <3>2. Above(On(at, owner, Depth(args, j - 1)), at)
        BY <1>1, <2>2, <3>1, OnAbove
      <3>3. Above(On(at, owner, Depth(args, j - 1)), s)
        BY <2>2, <3>2 DEF Above
      <3> QED BY <1>2, <2>4, <3>3
    <2>9. PassedAt(args, owner, at, c)
      BY <2>8 DEF PassedAt
    <2>10. Fits(ByOwner(items[k], owner), at, c)
      BY <1>2, <2>2, <2>3
    <2> QED BY <2>7, <2>9, <2>10 DEF at, args
  <1> QED BY <1>3 DEF Placed

\* What binds in a binder of its own is a region, if it is one on that binder.
LEMMA RegionInBinder ==
  ASSUME NEW items \in Seq(WorkItems), NEW owner \in Owners, NEW s \in Seq(Frames), NEW c,
         Region(items, On(s, owner, 1), On(s, owner, 1), c)
  PROVE  Region(InBinder(items, owner), s, s, c)
  <1> DEFINE open == BinderItem("open", owner)
             close == BinderItem("close", owner)
             on == On(s, owner, 1)
  <1>1. open \in WorkItems /\ close \in WorkItems
    BY DEF BinderItem, WorkItems, Named, Forms, Structure, Ids, Details
  <1>2. /\ open.form = "open" /\ open.owner = owner /\ open.args = <<>>
        /\ close.form = "close" /\ close.owner = owner /\ close.args = <<>>
    BY DEF BinderItem
  <1>3. InBinder(items, owner) = <<open>> \o items \o <<close>>
    BY DEF InBinder
  <1> HIDE DEF open, close
  <1>4. 0 \in Nat /\ 1 \in Nat /\ 1 = 0 + 1 /\ 0 = 1 - 1
    OBVIOUS
  <1>5. Follows(open, On(s, owner, 0), on)
    BY <1>2, <1>4, NestFollows
  <1>6. Follows(close, on, On(s, owner, 0))
    BY <1>2, <1>4, NestFollows
  <1>7. On(s, owner, 0) = s /\ on \in Seq(Frames)
    BY <1>4, NestNone, OnAbove
  <1> HIDE DEF on
  <1>8. \A t : Fits(open, t, c) /\ Fits(close, t, c) /\ Passes(open.args, t, c) /\ Passes(close.args, t, c)
    BY <1>2, NothingPassed DEF Fits, Structure
  <1>9. Region(<<open>>, s, on, c) /\ Region(<<close>>, on, s, c)
    BY <1>5, <1>6, <1>7, <1>8, RegionOne
  <1>10. <<open>> \in Seq(WorkItems) /\ <<close>> \in Seq(WorkItems)
    BY <1>1
  <1>11. Region(items, on, on, c)
    BY DEF on
  <1>12. Region(<<open>> \o items, s, on, c)
    BY <1>9, <1>10, <1>11, RegionConcat
  <1>13. <<open>> \o items \in Seq(WorkItems)
    BY <1>10
  <1>14. Region((<<open>> \o items) \o <<close>>, s, s, c)
    BY <1>9, <1>10, <1>12, <1>13, RegionConcat
  <1> QED BY <1>3, <1>14
-----------------------------------------------------------------------------
(***************************************************************************)
(* What is left to bind fits the binders under way, after every step.      *)
(***************************************************************************)
Stack == [n \in 1 .. Len(binders) |-> [owner |-> binders[n].owner, trusted |-> binders[n].trusted]]

\* What is known of the binders under way.
LEMMA StackShape ==
  ASSUME Scoped
  PROVE  /\ Stack \in Seq(Frames) /\ Len(Stack) = Len(binders)
         /\ \A t : Weaker(t, binders) <=> Weaker(t, Stack)
         /\ Marked(Stack) <=> Top.trusted
         /\ Covers(Stack) <=> \E n \in DOMAIN binders : Inside(binders[n].owner)
  <1>1. /\ Len(binders) \in Nat \ {0} /\ DOMAIN binders = 1 .. Len(binders) /\ Top = binders[Len(binders)]
        /\ \A n \in 1 .. Len(binders) : binders[n] \in BinderRecords
    BY TopShape
  <1>2. \A n \in 1 .. Len(binders) : [owner |-> binders[n].owner, trusted |-> binders[n].trusted] \in Frames
    BY <1>1 DEF BinderRecords, Frames
  <1>3. Stack \in Seq(Frames) /\ Len(Stack) = Len(binders)
    BY <1>1, <1>2 DEF Stack
  <1>4. \A n \in 1 .. Len(binders) : Stack[n].owner = binders[n].owner /\ Stack[n].trusted = binders[n].trusted
    BY DEF Stack
  <1>5. \A t : Weaker(t, binders) <=> Weaker(t, Stack)
    BY <1>3, <1>4 DEF Weaker, Below
  <1>6. Marked(Stack) <=> \E n \in 1 .. Len(binders) : binders[n].trusted
    BY <1>3, <1>4 DEF Marked
  <1>7. (\E n \in 1 .. Len(binders) : binders[n].trusted) <=> Top.trusted
    <2>1. Len(binders) \in 1 .. Len(binders)
      BY <1>1
    <2>2. \A n \in 1 .. Len(binders) : n <= Len(binders)
      BY <1>1
    <2> QED BY <1>1, <2>1, <2>2 DEF Scoped, BodiesTrusted
  <1>8. Covers(Stack) <=> \E n \in DOMAIN binders : Inside(binders[n].owner)
    BY <1>1, <1>3, <1>4 DEF Covers
  <1> QED BY <1>3, <1>5, <1>6, <1>7, <1>8

\* The item being bound fits the binders under way, and so does what it passes on.
LEMMA HeadFits ==
  ASSUME Scoped, Certified, work # <<>>
  PROVE  Fits(Item, Stack, Context) /\ Passes(Item.args, Stack, Context)
  <1>1. work \in Seq(WorkItems)
    BY DEF Scoped
  <1>2. PICK t : Region(work, binders, t, Context)
    BY DEF Certified
  <1>3. PICK a \in Seq(Frames) : Weaker(a, binders) /\ Fits(work[1], a, Context) /\ Passes(work[1].args, a, Context)
    BY <1>1, <1>2, RegionHead
  <1>4. Weaker(a, Stack) /\ Stack \in Seq(Frames)
    BY <1>3, StackShape
  <1>5. Above(Stack, a) /\ Knows(Context, Context)
    BY <1>4, WeakerIs DEF Above, Knows
  <1>6. Item.args \in Seq(PassedItems)
    BY WorkShape
  <1> QED BY <1>3, <1>4, <1>5, <1>6, FitsMore, PassesMore DEF Item

\* What takes an item's place fits the binders under way.
LEMMA ContinueCertified ==
  ASSUME Scoped, Scoped', Certified, work # <<>>, NEW items \in Seq(WorkItems), work' = items \o Tail(work),
         NEW armed \in BOOLEAN, Kept(armed), Item.form \notin {"open", "close"}, Knows(Context', Context),
         Region(items, Stack, Stack, Context')
  PROVE  Certified'
  <1>1. work \in Seq(WorkItems) /\ Tail(work) \in Seq(WorkItems)
    BY WorkShape DEF Scoped
  <1>2. PICK t : Region(work, binders, t, Context)
    BY DEF Certified
  <1>3. PICK a \in Seq(Frames), b \in Seq(Frames) :
          Weaker(a, binders) /\ Follows(work[1], a, b) /\ Region(Tail(work), b, t, Context)
    BY <1>1, <1>2, RegionHead
  <1>4. Weaker(b, a)
    BY <1>3 DEF Follows, Weaker, Item
  <1>5. Weaker(b, Stack)
    BY <1>3, <1>4, StackShape, WeakerIs
  <1>6. Region(Tail(work), b, t, Context')
    BY <1>1, <1>3, RegionKnows
  <1>7. Region(Tail(work), Stack, t, Context')
    BY <1>5, <1>6, RegionWeaker
  <1>8. Region(work', Stack, t, Context')
    BY <1>1, <1>7, RegionConcat
  <1>9. Weaker(Stack, binders')
    <2>1. /\ Len(Stack) = Len(binders) /\ Len(binders') = Len(binders)
          /\ \A n \in 1 .. Len(binders) : binders'[n].trusted = binders[n].trusted /\ binders'[n].owner = binders[n].owner
      BY StackShape DEF Kept
    <2>2. \A n \in 1 .. Len(binders) : Stack[n].owner = binders[n].owner /\ Stack[n].trusted = binders[n].trusted
      BY DEF Stack
    <2> QED BY <2>1, <2>2 DEF Weaker, Below
  <1>10. Region(work', binders', t, Context')
    BY <1>8, <1>9, RegionWeaker
  <1> QED BY <1>10 DEF Certified

\* A child binder opens where its stack said it would.
LEMMA OpenCertified ==
  ASSUME Scoped, Certified, Open
  PROVE  Certified'
  <1> DEFINE n == Len(binders)
  <1>1. /\ work # <<>> /\ Item.form = "open" /\ work' = Tail(work)
        /\ binders' = Append([binders EXCEPT ![n].armed = FALSE],
                             [trusted |-> Top.trusted \/ Top.armed, armed |-> FALSE, owner |-> Item.owner])
    BY DEF Open
  <1>2. Context' = Context
    BY DEF Open, Context
  <1>3. work \in Seq(WorkItems) /\ binders \in Seq(BinderRecords) /\ n \in Nat \ {0} /\ binders[n] \in BinderRecords
    BY TopShape DEF Scoped
  <1>4. PICK t : Region(work, binders, t, Context)
    BY DEF Certified
  <1>5. PICK a \in Seq(Frames), b \in Seq(Frames) :
          Weaker(a, binders) /\ Follows(work[1], a, b) /\ Region(Tail(work), b, t, Context)
    BY <1>1, <1>3, <1>4, RegionHead
  <1> DEFINE kept == [binders EXCEPT ![n] = [binders[n] EXCEPT !.armed = FALSE]]
             child == [trusted |-> Top.trusted \/ Top.armed, armed |-> FALSE, owner |-> Item.owner]
             parent == [binders[n] EXCEPT !.armed = FALSE]
  <1>6. parent \in BinderRecords /\ parent.trusted = binders[n].trusted /\ parent.owner = binders[n].owner
    BY <1>3 DEF BinderRecords
  <1>7. child.owner = Item.owner
    OBVIOUS
  <1>8. binders' = Append(kept, child) /\ kept = [binders EXCEPT ![n] = parent] /\ n \in 1 .. Len(binders)
    BY <1>1, <1>3
  <1> HIDE DEF parent, child, kept
  <1>9. kept \in Seq(BinderRecords) /\ Len(kept) = n /\ kept[n] = parent /\ \A j \in 1 .. n : j # n => kept[j] = binders[j]
    BY <1>3, <1>6, <1>8, ReplaceOne
  <1>10. binders' = Append(kept, child)
    BY <1>8
  <1> HIDE DEF n
  <1>11. Len(binders') = n + 1 /\ binders'[n + 1] = child /\ \A j \in 1 .. n : binders'[j] = kept[j]
    BY <1>3, <1>9, <1>10
  <1>12. \A j \in 1 .. n : binders'[j].trusted = binders[j].trusted /\ binders'[j].owner = binders[j].owner
    BY <1>6, <1>9, <1>11
  <1>13. /\ Len(a) = n /\ Len(b) = n + 1 /\ b[n + 1].owner = Item.owner /\ ~b[n + 1].trusted
         /\ \A j \in 1 .. n : Below(b[j], a[j]) /\ Below(a[j], binders[j])
    BY <1>1, <1>3, <1>5 DEF Follows, Weaker, Item, n
  <1>14. \A j \in 1 .. n : Below(b[j], binders'[j])
    BY <1>12, <1>13 DEF Below
  <1>15. Below(b[n + 1], binders'[n + 1])
    BY <1>7, <1>11, <1>13 DEF Below
  <1>16. Weaker(b, binders')
    BY <1>3, <1>11, <1>13, <1>14, <1>15 DEF Weaker
  <1>17. Region(work', binders', t, Context')
    BY <1>1, <1>2, <1>5, <1>16, RegionWeaker
  <1> QED BY <1>17 DEF Certified

\* A child binder closes where its stack said it would.
LEMMA CloseCertified ==
  ASSUME Scoped, Certified, Close
  PROVE  Certified'
  <1> DEFINE n == Len(binders)
  <1>1. work # <<>> /\ Item.form = "close" /\ work' = Tail(work) /\ n > 1 /\ binders' = SubSeq(binders, 1, n - 1)
    BY DEF Close, Front
  <1>2. Context' = Context
    BY DEF Close, Context
  <1>3. work \in Seq(WorkItems) /\ binders \in Seq(BinderRecords) /\ n \in Nat \ {0}
    BY TopShape DEF Scoped
  <1>4. PICK t : Region(work, binders, t, Context)
    BY DEF Certified
  <1>5. PICK a \in Seq(Frames), b \in Seq(Frames) :
          Weaker(a, binders) /\ Follows(work[1], a, b) /\ Region(Tail(work), b, t, Context)
    BY <1>1, <1>3, <1>4, RegionHead
  <1>6. Len(binders') = n - 1 /\ \A j \in 1 .. n - 1 : binders'[j] = binders[j]
    BY <1>1, <1>3
  <1>7. Len(a) = n /\ Len(a) = Len(b) + 1 /\ Len(b) \in Nat
    BY <1>1, <1>5 DEF Follows, Weaker, Item
  <1>8. ASSUME NEW j \in 1 .. n - 1 PROVE Below(b[j], binders'[j])
    <2>1. j \in 1 .. Len(a) /\ j <= Len(b) /\ j \in 1 .. Len(binders)
      BY <1>3, <1>7
    <2>2. Below(b[j], a[j]) /\ Below(a[j], binders[j])
      BY <1>5, <2>1 DEF Follows, Weaker
    <2> QED BY <1>6, <2>2 DEF Below
  <1>9. Weaker(b, binders')
    BY <1>3, <1>6, <1>7, <1>8 DEF Weaker
  <1>10. Region(work', binders', t, Context')
    BY <1>1, <1>2, <1>5, <1>9, RegionWeaker
  <1> QED BY <1>10 DEF Certified

\* What is passed on is a region where it is bound.
LEMMA PassedRegion ==
  ASSUME NEW args \in Seq(PassedItems), NEW s \in Seq(Frames), NEW c, Passes(args, s, c)
  PROVE  Region(args, s, s, c)
  <1>1. PICK owner \in DefinitionOwners : FitsAt(args, owner, s, c)
    BY DEF Passes
  <1>2. ASSUME NEW item \in PassedItems PROVE item \in WorkItems /\ item.args = <<>>
    <2>1. <<>> \in Seq(PassedItems)
      OBVIOUS
    <2> QED BY <2>1 DEF PassedItems, WorkItems, Owners
  <1>3. \A j \in DOMAIN args : args[j] \in PassedItems
    OBVIOUS
  <1>4. args \in Seq(WorkItems)
    BY <1>2, <1>3
  <1>5. \A j \in DOMAIN args : Passes(args[j].args, On(s, owner, Depth(args, j - 1)), c)
    BY <1>2, <1>3, NothingPassed
  <1>6. Located(args, owner, s, c)
    BY <1>1, <1>5 DEF FitsAt, Located
  <1> QED BY <1>4, <1>6, RegionOf DEF Passes

\* A macro's argument binds in the binder that reaches it.
LEMMA ArgumentCertified ==
  ASSUME Scoped, Scoped', Certified, Argument
  PROVE  Certified'
  <1>1. work # <<>> /\ Item.form = "argument" /\ work' = Item.args \o Tail(work) /\ UNCHANGED binders
    BY DEF Argument
  <1>2. Context' = Context
    BY DEF Argument, Context
  <1>3. Item.args \in Seq(PassedItems)
    BY <1>1, WorkShape
  <1>4. Item.args \in Seq(WorkItems)
    <2>1. ASSUME NEW item \in PassedItems PROVE item \in WorkItems
      <3>1. <<>> \in Seq(PassedItems)
        OBVIOUS
      <3> QED BY <3>1 DEF PassedItems, WorkItems, Owners
    <2> QED BY <1>3, <2>1
  <1>5. Region(Item.args, Stack, Stack, Context)
    BY <1>1, <1>3, HeadFits, StackShape, PassedRegion
  <1>6. Kept(FALSE)
    BY <1>1, TopShape DEF Scoped, Kept, BinderRecords
  <1>7. Knows(Context', Context) /\ Region(Item.args, Stack, Stack, Context')
    BY <1>2, <1>5 DEF Knows
  <1>8. Item.form \notin {"open", "close"}
    BY <1>1
  <1> QED BY <1>1, <1>4, <1>6, <1>7, <1>8, ContinueCertified
-----------------------------------------------------------------------------
(***************************************************************************)
(* What the bind has learned.                                              *)
(***************************************************************************)
Fields ==
  {"function_entries", "collation_functions", "caller_implementations", "trusted_implementations", "caller_objects",
   "trusted_objects", "trusted_tables", "trusted_names", "caller_expansions", "expansion_targets", "caller_lookups",
   "replacement_functions", "authorized_dispatchers"}
Recorded == {"function_entries", "caller_implementations", "trusted_implementations"}

\* Recording a function touches the evidence sets only.
LEMMA RecordKeeps ==
  ASSUME NEW q, DOMAIN q = Fields, NEW sources, NEW caller \in BOOLEAN, NEW m
  PROVE  /\ DOMAIN RecordFunction(q, sources, caller, m) = Fields
         /\ \A f \in Fields \ Recorded : RecordFunction(q, sources, caller, m)[f] = q[f]
  BY DEF RecordFunction, Fields, Recorded

\* What an admitted lookup adds to the names the bind goes by.
LEMMA LearnedKeeps ==
  ASSUME DOMAIN p = Fields
  PROVE  /\ DOMAIN Learned = Fields
         /\ Learned.trusted_names = p.trusted_names \union (IF HostMacro THEN MacroBodyNames(Entry.body) ELSE {})
         /\ Learned.trusted_tables = p.trusted_tables \union (IF HostMacro THEN TableNames(Entry.body) ELSE {})
         /\ Learned.caller_expansions = p.caller_expansions \union (IF DefaultMacro THEN MacroBodyNames(Entry.body) ELSE {})
         /\ Learned.replacement_functions = p.replacement_functions
  <1> DEFINE attributed == FunctionAttributable
             targets == (IF Dispatching THEN DispatchTargets ELSE {}) \union (IF DefaultMacro THEN ExpansionTargets ELSE {})
             looked == IF attributed /\ Entry.type = "aggregate" /\ SystemIdentity(Identity(Entry)) THEN {Entry.name} ELSE {}
             first == RecordFunction(p, {Identity(Entry)}, attributed, major)
             chosen == {SystemAggregate(name) : name \in targets}
             yes == TRUE
             second == RecordFunction(first, chosen, yes, major)
             names == IF HostMacro THEN MacroBodyNames(Entry.body) ELSE {}
             tables == IF HostMacro THEN TableNames(Entry.body) ELSE {}
             expansions == IF DefaultMacro THEN MacroBodyNames(Entry.body) ELSE {}
             learned == IF DefaultMacro THEN ExpansionTargets ELSE {}
             entries == DependencyEntries(targets \union looked)
             dispatchers == IF Dispatching THEN {Entry.name} ELSE {}
             lookups == IF attributed THEN {Entry.name} ELSE {}
  <1>1. Learned = [second EXCEPT
                     !.function_entries = @ \union entries, !.authorized_dispatchers = @ \union dispatchers,
                     !.caller_lookups = @ \union lookups, !.trusted_names = @ \union names,
                     !.trusted_tables = @ \union tables, !.caller_expansions = @ \union expansions,
                     !.expansion_targets = @ \union learned]
    BY DEF Learned
  <1>2. attributed \in BOOLEAN /\ yes \in BOOLEAN
    BY DEF FunctionAttributable
  <1> HIDE DEF attributed, targets, chosen, yes, names, tables, expansions, learned, entries, dispatchers, lookups
  <1>3. DOMAIN first = Fields /\ \A f \in Fields \ Recorded : first[f] = p[f]
    BY <1>2, RecordKeeps
  <1> HIDE DEF first
  <1>4. DOMAIN second = Fields /\ \A f \in Fields \ Recorded : second[f] = first[f]
    BY <1>2, <1>3, RecordKeeps
  <1> HIDE DEF second
  <1>5. /\ second.trusted_names = p.trusted_names /\ second.trusted_tables = p.trusted_tables
        /\ second.caller_expansions = p.caller_expansions /\ second.replacement_functions = p.replacement_functions
    BY <1>3, <1>4 DEF Fields, Recorded
  <1>6. /\ DOMAIN Learned = Fields /\ Learned.trusted_names = second.trusted_names \union names
        /\ Learned.trusted_tables = second.trusted_tables \union tables
        /\ Learned.caller_expansions = second.caller_expansions \union expansions
        /\ Learned.replacement_functions = second.replacement_functions
    BY <1>1, <1>4 DEF Fields
  <1> QED BY <1>5, <1>6 DEF names, tables, expansions

\* The names so far, and perhaps more.
Grown ==
  /\ DOMAIN p' = Fields /\ p.trusted_names \subseteq p'.trusted_names /\ p.trusted_tables \subseteq p'.trusted_tables
  /\ p.caller_expansions \subseteq p'.caller_expansions /\ p.replacement_functions \subseteq p'.replacement_functions

\* No step forgets.
LEMMA NamesGrow ==
  ASSUME DOMAIN p = Fields, [Next]_vars
  PROVE  Grown
  <1>1. CASE UNCHANGED p
    BY <1>1 DEF Grown
  <1>2. CASE LookupObject
    <2>1. CASE Refuse(Entry)
      BY <1>1, <2>1 DEF Refuse
    <2>2. CASE p' = IF ObjectAttributable THEN [p EXCEPT !.caller_objects = @ \union {Item.entry}]
                    ELSE [p EXCEPT !.trusted_objects = @ \union {Item.entry}]
      BY <2>2 DEF Grown, Fields
    <2> QED BY <1>2, <2>1, <2>2 DEF LookupObject
  <1>3. CASE LookupFunction
    <2>1. CASE Refuse(Entry)
      BY <1>1, <2>1 DEF Refuse
    <2>2. CASE p' = Learned
      BY <2>2, LearnedKeeps DEF Grown
    <2> QED BY <1>3, <2>1, <2>2 DEF LookupFunction
  <1>4. CASE ReplacementScan
    <2> DEFINE recorded == RecordFunction(p, {Identity(Reader)}, CallerWritten, major)
    <2>1. CASE p' = IF CallerWritten THEN [recorded EXCEPT !.replacement_functions = @ \union {Reader.name}] ELSE recorded
      <3>1. CallerWritten \in BOOLEAN
        BY DEF CallerWritten
      <3>2. DOMAIN recorded = Fields /\ \A f \in Fields \ Recorded : recorded[f] = p[f]
        BY <3>1, RecordKeeps
      <3> HIDE DEF recorded
      <3>3. /\ recorded.trusted_names = p.trusted_names /\ recorded.trusted_tables = p.trusted_tables
            /\ recorded.caller_expansions = p.caller_expansions
            /\ recorded.replacement_functions = p.replacement_functions
        BY <3>2 DEF Fields, Recorded
      <3>4. /\ DOMAIN p' = Fields /\ p'.trusted_names = recorded.trusted_names /\ p'.trusted_tables = recorded.trusted_tables
            /\ p'.caller_expansions = recorded.caller_expansions
            /\ recorded.replacement_functions \subseteq p'.replacement_functions
        BY <2>1, <3>2 DEF Fields
      <3> QED BY <3>3, <3>4 DEF Grown
    <2>2. CASE UNCHANGED p
      BY <1>1, <2>2
    <2> QED BY <1>4, <2>1, <2>2 DEF ReplacementScan, Refuse
  <1>5. CASE Open \/ Close \/ Argument \/ Collate \/ AuthorizePlan \/ UNCHANGED vars
    BY <1>1, <1>5 DEF Open, Close, Argument, Collate, AuthorizePlan, vars
  <1> QED BY <1>2, <1>3, <1>4, <1>5 DEF Next
-----------------------------------------------------------------------------
(***************************************************************************)
(* Lookups.                                                                *)
(***************************************************************************)
\* What the text names is in the names recorded when it was walked.
LEMMA WrittenNames ==
  ASSUME Fixed, Scoped, NEW types, Busy(types), Written(Item, Context)
  PROVE  /\ Entry.type \in FunctionTypes => Entry.name \in binding.functions \union binding.synthesized \union binding.literals
         /\ Entry.type \in {"relation", "view"} => NamesObject(binding.tables, Entry)
         /\ Entry.type = "path" => CallerWritten
  <1>1. work # <<>> /\ Item.form \notin Structure
    BY DEF Busy
  <1>2. Item.form \in {"written", "qualified", "implied", "literal"}
    <2>1. Item \in WorkItems
      BY <1>1, WorkShape
    <2> QED BY <1>1, <2>1 DEF WorkItems, Forms
  <1>3. PICK use \in Uses(text.items) : use.form = Item.form /\ use.entry = Item.entry
    BY DEF Written, Context
  <1>4. Entry = Entries[use.entry]
    BY <1>3 DEF Fixed, Entry
  <1>5. ASSUME NEW ts, Entry.type \in ts, NEW forms, use.form \in forms PROVE use \in UsesOf(text.items, ts, forms)
    BY <1>4, <1>5 DEF UsesOf
  <1>6. ASSUME Entry.type \in FunctionTypes
        PROVE  Entry.name \in binding.functions \union binding.synthesized \union binding.literals
    <2>1. ASSUME NEW forms, use.form \in forms PROVE Entry.name \in NamesOf(text.items, FunctionTypes, forms)
      BY <1>4, <1>5, <1>6, <2>1 DEF NamesOf
    <2>2. /\ binding.functions = NamesOf(text.items, FunctionTypes, {"written", "qualified"})
          /\ binding.synthesized = NamesOf(text.items, FunctionTypes, {"implied"})
          /\ binding.literals = NamesOf(text.items, FunctionTypes, {"literal"})
      BY DEF Fixed, Binding
    <2> QED BY <1>2, <1>3, <2>1, <2>2
  <1>7. binding.tables = TableNames(text.items)
    BY DEF Fixed, Binding
  <1>8. ASSUME Entry.type \in {"relation", "view", "path"}
        PROVE  (IF use.form = "qualified" THEN <<Entry.ns, Entry.name>> ELSE <<Entry.name>>) \in binding.tables
    <2>1. use \in UsesOf(text.items, {"relation", "view", "path"}, Forms)
      BY <1>2, <1>3, <1>5, <1>8 DEF Forms
    <2> QED BY <1>4, <1>7, <2>1 DEF TableNames
  <1>9. ASSUME Entry.type = "path" PROVE use.form = "written"
    <2>1. use.form \notin Forms \ {"written"}
      BY <1>5, <1>9, PathAssumption DEF Fixed
    <2> QED BY <1>2, <1>3, <2>1 DEF Forms
  <1> QED BY <1>6, <1>8, <1>9 DEF NamesObject, CallerWritten

\* Names the screen admits.
Eligible == \A name \in binding.functions, i \in 1 .. 2 : FunctionEligible(layers[i], name)

\* A function the text names, and one read in the place of a path it names, is one a policy may admit.
LEMMA CallersBindable ==
  ASSUME Fixed, Scoped, Eligible, Certified, Busy(FunctionTypes), ~FunctionLookupRefused, Item.owner = "caller"
  PROVE  Entry.name \notin NeverBindNames
  <1>1. work # <<>> /\ Item.form \notin Structure /\ Entry.type \in FunctionTypes
    BY DEF Busy
  <1>2. Written(Item, Context) \/ Read(Item, Context)
    BY <1>1, HeadFits DEF Fits, FitsUse
  <1>3. Identity(Entry).name = Entry.name /\ 1 \in 1 .. 2
    BY DEF Identity
  <1>4. CASE Written(Item, Context)
    <2>1. CASE Entry.name \in binding.functions
      BY <1>3, <2>1 DEF Eligible, FunctionEligible
    <2>2. CASE Entry.name \in binding.synthesized \union binding.literals
      <3>1. FunctionAllowed(layers[1], Identity(Entry))
        BY <1>3, <2>2, FunctionHeld
      <3> QED BY <1>3, <3>1 DEF FunctionAllowed, FunctionDenied
    <2> QED BY <1>1, <1>4, <2>1, <2>2, WrittenNames
  <1>5. CASE Read(Item, Context)
    <2>1. FunctionAllowed(layers[1], Identity(Entry))
      BY <1>3, <1>5 DEF Read, Context, Fixed, Entry
    <2> QED BY <1>3, <2>1 DEF FunctionAllowed, FunctionDenied
  <1> QED BY <1>2, <1>4, <1>5

\* What an untrusted binder retrieves for an engine's macro, the macro was known to name.
LEMMA DefaultsKnown ==
  ASSUME Scoped, Fixed, Certified, Busy(FunctionTypes), Item.owner = "default", ~Top.trusted
  PROVE  Entry.name \in p.caller_expansions /\ FunctionAttributable
  <1>1. work # <<>> /\ Item.form \notin Structure /\ Entry.type \in FunctionTypes /\ Entry = Entries[Item.entry]
    BY DEF Busy, Fixed, Entry
  <1>2. Entries[Item.entry].name \in Context.expansions \/ Marked(Stack)
    BY <1>1, HeadFits DEF Fits, FitsUse
  <1>3. ~Marked(Stack)
    BY StackShape
  <1>4. Entry.name \in p.caller_expansions
    BY <1>1, <1>2, <1>3 DEF Context
  <1> QED BY <1>4 DEF FunctionAttributable, CallerCanName

\* What an admitted lookup that the callback attributes was held to.
LEMMA AttributedHeld ==
  ASSUME Fixed, Busy(FunctionTypes), ~FunctionLookupRefused, FunctionAttributable, NEW i \in 1 .. 2
  PROVE  /\ ~FunctionDenied(layers[i], Identity(Entry))
         /\ SystemIdentity(Identity(Entry)) \/ FunctionAllowed(layers[i], Identity(Entry))
         /\ Entry.name \in p.caller_expansions => SystemIdentity(Identity(Entry))
         /\ Entry.name \in p.caller_expansions /\ ~layers[i].defaults => FunctionAllowed(layers[i], Identity(Entry))
  <1> DEFINE special == Entry.name \in p.caller_expansions \union p.replacement_functions
             system == IF special THEN p.caller_expansions ELSE {}
             b == IF Entry.name \in p.replacement_functions
                  THEN [binding EXCEPT !.functions = @ \union {Entry.name}] ELSE binding
             identity == Identity(Entry)
  <1>1. identity.name = Entry.name
    BY DEF Identity
  <1>2. ~FunctionEntryRefused(layers[i], b, system, identity, FunctionAttributable)
    BY DEF FunctionLookupRefused, LookupRefused
  <1>3. Entry.name \in p.caller_expansions => Entry.name \in system
    OBVIOUS
  <1> HIDE DEF b, system, identity
  <1>4. /\ ~FunctionDenied(layers[i], identity)
        /\ SystemIdentity(identity) \/ FunctionAllowed(layers[i], identity)
        /\ identity.name \in system => SystemIdentity(identity)
        /\ identity.name \in system /\ ~layers[i].defaults => FunctionAllowed(layers[i], identity)
    BY <1>2 DEF FunctionEntryRefused, FunctionRefused
  <1> QED BY <1>1, <1>3, <1>4 DEF identity

\* What the grammar gives of the body of an entry.
LEMMA BodyGrammar ==
  ASSUME Fixed, Scoped, NEW types, Busy(types)
  PROVE  /\ Entry.body \in Seq(ItemRecords) /\ Balanced(Entry.body)
         /\ \A n \in DOMAIN Entry.body : Expression(Entry.body[n].args)
         /\ Entry.type = "macro" => Expression(Entry.body)
  <1>1. Item.entry \in DOMAIN Entries /\ Entry = Entries[Item.entry]
    BY WorkShape DEF Busy, Fixed, Entry
  <1>2. Entry.body \in Seq(ItemRecords)
    BY EntryShape
  <1> QED BY <1>1, <1>2, GrammarAssumption

\* A body that binds in a binder its definition opens.
LEMMA BinderRegion ==
  ASSUME NEW body \in Seq(ItemRecords), Balanced(body), NEW owner \in DefinitionOwners, NEW opener \in Owners,
         NEW s \in Seq(Frames), NEW c, Placed(body, owner, On(s, opener, 1), c)
  PROVE  /\ Region(InBinder(Owned(body, owner), opener), s, s, c)
         /\ \A args \in Seq(PassedItems) :
              Passes(args, s, c) => Region(InBinder(Expand(Owned(body, owner), args), opener), s, s, c)
  <1> DEFINE on == On(s, opener, 1)
             x == Owned(body, owner)
  <1>1. on \in Seq(Frames) /\ Above(on, s)
    BY OnAbove
  <1>2. x \in Seq(WorkItems) /\ \A i \in DOMAIN x : x[i].owner # "body"
    BY OwnedShape
  <1>3. Balanced(x) /\ Located(x, owner, on, c)
    BY LocatedOwned
  <1> HIDE DEF on, x
  <1>4. Region(x, on, on, c)
    BY <1>1, <1>2, <1>3, RegionOf
  <1>5. Region(InBinder(x, opener), s, s, c)
    BY <1>2, <1>4, RegionInBinder DEF on
  <1>6. ASSUME NEW args \in Seq(PassedItems), Passes(args, s, c) PROVE Region(InBinder(Expand(x, args), opener), s, s, c)
    <2>1. Knows(c, c)
      BY DEF Knows
    <2>2. Passes(args, on, c)
      BY <1>1, <1>6, <2>1, PassesMore
    <2>3. Balanced(Expand(x, args)) /\ Located(Expand(x, args), owner, on, c)
      BY <1>1, <1>2, <1>3, <2>2, LocatedExpand
    <2>4. Expand(x, args) \in Seq(WorkItems)
      BY <1>2, ExpandShape
    <2>5. Region(Expand(x, args), on, on, c)
      BY <1>1, <2>3, <2>4, RegionOf
    <2> QED BY <2>4, <2>5, RegionInBinder DEF on
  <1> QED BY <1>5, <1>6 DEF x

\* The body of a view or a table macro.
LEMMA InsideRegion ==
  ASSUME NEW body \in Seq(ItemRecords), Balanced(body), \A n \in DOMAIN body : Expression(body[n].args),
         NEW owner \in DefinitionOwners, Inside(owner), NEW opener \in Owners, Inside(opener), NEW s \in Seq(Frames), NEW c
  PROVE  /\ Region(InBinder(Owned(body, owner), opener), s, s, c)
         /\ \A args \in Seq(PassedItems) :
              Passes(args, s, c) => Region(InBinder(Expand(Owned(body, owner), args), opener), s, s, c)
  <1>1. On(s, opener, 1) \in Seq(Frames) /\ Covers(On(s, opener, 1))
    <2>1. 1 \in Nat /\ 1 > 0
      OBVIOUS
    <2> QED BY <2>1, OnAbove
  <1>2. Placed(body, owner, On(s, opener, 1), c)
    BY <1>1, PlacedInside
  <1> QED BY <1>2, BinderRegion

\* The body of a scalar macro, which binds where the macro is called.
LEMMA MacroRegion ==
  ASSUME NEW body \in Seq(ItemRecords), Balanced(body), NEW owner \in DefinitionOwners,
         NEW s \in Seq(Frames), NEW c, Placed(body, owner, s, c), NEW args \in Seq(PassedItems), Passes(args, s, c)
  PROVE  Region(Expand(Owned(body, owner), args), s, s, c)
  <1> DEFINE x == Owned(body, owner)
  <1>1. x \in Seq(WorkItems) /\ \A i \in DOMAIN x : x[i].owner # "body"
    BY OwnedShape
  <1>2. Balanced(x) /\ Located(x, owner, s, c)
    BY LocatedOwned
  <1> HIDE DEF x
  <1>3. Balanced(Expand(x, args)) /\ Located(Expand(x, args), owner, s, c)
    BY <1>1, <1>2, LocatedExpand
  <1>4. Expand(x, args) \in Seq(WorkItems)
    BY <1>1, ExpandShape
  <1>5. Region(Expand(x, args), s, s, c)
    BY <1>3, <1>4, RegionOf
  <1> QED BY <1>5 DEF x

\* Where nothing changes, nothing has to be shown.
LEMMA SameCertified ==
  ASSUME Certified, UNCHANGED <<work, binders, text, layers, p>>
  PROVE  Certified'
  <1>1. Context' = Context
    BY DEF Context
  <1>2. PICK t : Region(work, binders, t, Context)
    BY DEF Certified
  <1>3. Region(work', binders', t, Context')
    BY <1>1, <1>2
  <1> QED BY <1>3 DEF Certified

\* A table or view is retrieved.
LEMMA ObjectCertified ==
  ASSUME Fixed, Scoped, Scoped', Certified, Grown, LookupObject
  PROVE  Certified'
  <1>1. CASE Refuse(Entry)
    BY <1>1, SameCertified DEF Refuse
  <1> DEFINE owner == IF ~Entry.internal \/ Item.owner = "host" THEN "host" ELSE "metadata"
             body == Owned(Entry.body, owner)
             items == IF Entry.type = "view" THEN InBinder(body, Opener(owner)) ELSE <<>>
             armed == ~Top.trusted /\ Entry.type = "view" /\ (~Entry.internal \/ ~ObjectAttributable)
  <1>2. CASE Arm(armed) /\ Continue(items)
    <2>1. work # <<>> /\ Item.form \notin Structure /\ Busy({"relation", "view"})
      BY DEF LookupObject, Busy
    <2>2. /\ Entry.body \in Seq(ItemRecords) /\ Balanced(Entry.body)
          /\ \A n \in DOMAIN Entry.body : Expression(Entry.body[n].args)
      BY <2>1, BodyGrammar
    <2>3. owner \in DefinitionOwners /\ Inside(owner) /\ Opener(owner) \in Owners /\ Inside(Opener(owner))
      BY DEF Opener, Owners, DefinitionOwners, Inside
    <2>4. Context'.text = text /\ Context'.layers = layers /\ Knows(Context', Context)
      BY <1>2 DEF Continue, Context, Knows, Grown
    <2>5. Stack \in Seq(Frames)
      BY StackShape
    <2>6. Region(InBinder(body, Opener(owner)), Stack, Stack, Context')
      BY <2>2, <2>3, <2>5, InsideRegion
    <2>7. body \in Seq(WorkItems) /\ \A i \in DOMAIN body : body[i].owner # "body"
      BY <2>2, <2>3, OwnedShape
    <2> HIDE DEF body, owner
    <2>8. InBinder(body, Opener(owner)) \in Seq(WorkItems)
      BY <2>3, <2>7, InBinderShape
    <2>9. items \in Seq(WorkItems) /\ Region(items, Stack, Stack, Context')
      BY <2>5, <2>6, <2>8, RegionNone
    <2>10. work' = items \o Tail(work) /\ armed \in BOOLEAN /\ Item.form \notin {"open", "close"}
      BY <1>2, <2>1 DEF Continue, Structure
    <2> HIDE DEF items, armed
    <2>11. Kept(armed)
      BY <1>2, <2>10, ArmKeeps
    <2> QED BY <2>1, <2>4, <2>9, <2>10, <2>11, ContinueCertified
  <1> QED BY <1>1, <1>2 DEF LookupObject

\* The body of an engine's scalar macro is placed where it is called: what it names is learned, or the binder is trusted.
LEMMA DefaultPlaced ==
  ASSUME Fixed, Scoped, Certified, DOMAIN p = Fields, Busy({"macro"}), BodyOwner = "default", p' = Learned
  PROVE  Placed(Entry.body, "default", Stack, Context')
  <1>1. /\ work # <<>> /\ Item.form \notin Structure /\ Entry.type = "macro" /\ Busy(FunctionTypes)
        /\ Item.entry \in DOMAIN Entries /\ Entry = Entries[Item.entry]
    BY WorkShape DEF Busy, FunctionTypes, Fixed, Entry
  <1>2. /\ Entry.body \in Seq(ItemRecords) /\ Balanced(Entry.body)
        /\ \A n \in DOMAIN Entry.body : Expression(Entry.body[n].args)
    BY <1>1, BodyGrammar
  <1>3. Entry.internal /\ Item.owner \in {"caller", "default"}
    <2>1. Item.owner \in DefinitionOwners /\ Entry.internal \in BOOLEAN
      BY <1>1, EntryShape
    <2> QED BY <2>1 DEF BodyOwner, DefinitionOwners
  <1>4. Stack \in Seq(Frames) /\ (Marked(Stack) <=> Top.trusted)
    BY StackShape
  <1>5. ~Top.trusted => FunctionAttributable
    <2>1. CASE Item.owner = "default"
      BY <1>1, <2>1, DefaultsKnown
    <2>2. CASE Item.owner = "caller"
      <3>1. Written(Item, Context) \/ Read(Item, Context)
        BY <1>1, <2>2, HeadFits DEF Fits, FitsUse
      <3>2. ~Read(Item, Context)
        BY <1>1 DEF Read
      <3>3. Entry.name \in binding.functions \union binding.synthesized \union binding.literals
        BY <1>1, <3>1, <3>2, WrittenNames DEF FunctionTypes
      <3> QED BY <3>3 DEF FunctionAttributable, CallerCanName
    <2> QED BY <1>3, <2>1, <2>2
  <1>6. ~Top.trusted => MacroBodyNames(Entry.body) \subseteq Context'.expansions
    <2>1. ~Top.trusted => DefaultMacro
      BY <1>1, <1>3, <1>5 DEF DefaultMacro
    <2>2. Context'.expansions = Learned.caller_expansions
      BY DEF Context
    <2> QED BY <2>1, <2>2, LearnedKeeps
  <1>7. UsesOf(Entry.body, {"path"}, Forms) = {}
    BY <1>1, <1>3, PathAssumption
  <1>8. ASSUME NEW use \in Uses(Entry.body) PROVE FitsFrom(use, "default", Stack, Context')
    <2>1. use.form \in {"written", "qualified", "implied", "literal"} /\ use.form \in Forms
      <3>1. use.form \in Forms /\ use.form \notin Structure
        <4>1. use.form \notin Structure /\ use \in Range(Entry.body) \union UNION {Range(Entry.body[i].args) : i \in DOMAIN Entry.body}
          BY DEF Uses
        <4>2. CASE use \in Range(Entry.body)
          <5>1. use \in ItemRecords
            BY <1>2, <4>2 DEF Range
          <5> QED BY <4>1, <5>1 DEF ItemRecords
        <4>3. ASSUME NEW i \in DOMAIN Entry.body, use \in Range(Entry.body[i].args) PROVE use.form \in Forms
          <5>1. Entry.body[i] \in ItemRecords
            BY <1>2
          <5>2. Entry.body[i].args \in Seq(Arguments)
            BY <5>1 DEF ItemRecords
          <5>3. use \in Arguments
            BY <4>3, <5>2 DEF Range
          <5> QED BY <5>3 DEF Arguments
        <4> QED BY <4>1, <4>2, <4>3
      <3> QED BY <3>1 DEF Forms
    <2>2. Entries[use.entry].type # "path"
      BY <1>7, <2>1 DEF UsesOf
    <2>3. Entries[use.entry].type \in FunctionTypes => Entries[use.entry].name \in MacroBodyNames(Entry.body)
      BY <2>1 DEF MacroBodyNames, NamesOf, UsesOf
    <2>4. ASSUME NEW t, Above(t, Stack) PROVE Fits(ByOwner(use, "default"), t, Context')
      <3> DEFINE other == ByOwner(use, "default")
      <3>1. other.owner = "default" /\ other.entry = use.entry
        BY DEF ByOwner
      <3>2. Top.trusted => Marked(t)
        BY <1>4, <2>4 DEF Above
      <3> HIDE DEF other
      <3>3. Entries[other.entry].type \in FunctionTypes => Entries[other.entry].name \in Context'.expansions \/ Marked(t)
        BY <1>6, <2>3, <3>1, <3>2
      <3>4. FitsUse(other, t, Context')
        BY <2>2, <3>1, <3>3 DEF FitsUse, Inside
      <3> QED BY <3>4 DEF Fits, other
    <2> QED BY <2>4 DEF FitsFrom
  <1>9. "default" \in DefinitionOwners
    BY DEF DefinitionOwners
  <1> QED BY <1>2, <1>4, <1>8, <1>9, PlacedUses

\* Under a trusted binder an engine's macro may go on to anything.
LEMMA TrustedPlaced ==
  ASSUME NEW items \in Seq(ItemRecords), Balanced(items), \A k \in DOMAIN items : Expression(items[k].args),
         NEW s \in Seq(Frames), NEW c, Marked(s)
  PROVE  Placed(items, "default", s, c)
  <1>1. ASSUME NEW use \in Uses(items), NEW t, Above(t, s) PROVE Fits(ByOwner(use, "default"), t, c)
    <2> DEFINE other == ByOwner(use, "default")
    <2>1. other.owner = "default"
      BY DEF ByOwner
    <2>2. Marked(t)
      BY <1>1 DEF Above
    <2> HIDE DEF other
    <2>3. Fits(other, t, c)
      BY <2>1, <2>2 DEF Fits, FitsUse, Inside
    <2> QED BY <2>3 DEF other
  <1>2. "default" \in DefinitionOwners /\ \A use \in Uses(items) : FitsFrom(use, "default", s, c)
    BY <1>1 DEF FitsFrom, DefinitionOwners
  <1> QED BY <1>2, PlacedUses

\* What the engine binds for a function fits the binder that retrieved it.
LEMMA UnfoldRegion ==
  ASSUME Fixed, Scoped, Eligible, Certified, DOMAIN p = Fields, Busy(FunctionTypes), ~FunctionLookupRefused, p' = Learned,
         Knows(Context', Context)
  PROVE  Region(Unfold, Stack, Stack, Context')
  <1>1. /\ work # <<>> /\ Item.form \notin Structure /\ Entry.type \in FunctionTypes
        /\ Item.entry \in DOMAIN Entries /\ Entry = Entries[Item.entry]
    BY WorkShape DEF Busy, Fixed, Entry
  <1>2. /\ Entry.body \in Seq(ItemRecords) /\ Balanced(Entry.body)
        /\ \A n \in DOMAIN Entry.body : Expression(Entry.body[n].args)
        /\ Entry.type = "macro" => Expression(Entry.body)
    BY BodyGrammar
  <1>3. Item.owner \in DefinitionOwners /\ Entry.internal \in BOOLEAN /\ Item.args \in Seq(PassedItems)
    BY EntryShape
  <1>4. Stack \in Seq(Frames) /\ (Marked(Stack) <=> Top.trusted)
    BY StackShape
  <1>5. Passes(Item.args, Stack, Context')
    <2>1. Passes(Item.args, Stack, Context) /\ Above(Stack, Stack)
      BY <1>1, HeadFits DEF Above
    <2> QED BY <1>3, <1>4, <2>1, PassesMore
  <1>6. /\ BodyOwner \in DefinitionOwners /\ (BodyOwner = "default" => Entry.type = "macro")
        /\ BodyOwner # "default" => Inside(BodyOwner)
    BY <1>3 DEF BodyOwner, DefinitionOwners, Inside
  <1>7. CASE Entry.type = "macro"
    <2>1. Placed(Entry.body, BodyOwner, Stack, Context')
      <3>1. CASE BodyOwner = "default"
        <4>1. Busy({"macro"})
          BY <1>7 DEF Busy
        <4> QED BY <3>1, <4>1, DefaultPlaced
      <3>2. CASE BodyOwner # "default"
        BY <1>2, <1>4, <1>6, <1>7, <3>2, PlacedInside
      <3> QED BY <3>1, <3>2
    <2>2. Unfold = Expand(Owned(Entry.body, BodyOwner), Item.args)
      BY <1>7 DEF Unfold
    <2> QED BY <1>2, <1>3, <1>4, <1>5, <1>6, <2>1, <2>2, MacroRegion
  <1>8. CASE Entry.type = "table_macro"
    <2>1. Unfold = InBinder(Expand(Owned(Entry.body, BodyOwner), Item.args), Opener(BodyOwner))
      BY <1>8 DEF Unfold
    <2>2. BodyOwner # "default" /\ Inside(BodyOwner)
      BY <1>6, <1>8
    <2>3. Opener(BodyOwner) \in Owners /\ Inside(Opener(BodyOwner))
      BY <1>6, <2>2 DEF Opener, Owners, Inside
    <2> QED BY <1>2, <1>3, <1>4, <1>5, <1>6, <2>1, <2>2, <2>3, InsideRegion
  <1>9. CASE Entry.type = "table" /\ Entry.body # <<>>
    <2>1. Unfold = InBinder(Owned(Entry.body, Item.owner), Item.owner) /\ Item.owner \in Owners
      BY <1>3, <1>9 DEF Unfold, Owners
    <2>2. Entry.name \in NeverBindNames
      BY <1>1, <1>9, ReplacedAssumption
    <2>3. Item.owner # "caller"
      BY <2>2, CallersBindable
    <2>4. CASE Item.owner = "default"
      <3>1. Top.trusted
        <4> SUFFICES ASSUME ~Top.trusted PROVE FALSE
          OBVIOUS
        <4>1. FunctionAttributable /\ 1 \in 1 .. 2
          BY <2>4, DefaultsKnown
        <4>2. ~FunctionDenied(layers[1], Identity(Entry))
          BY <4>1, AttributedHeld
        <4> QED BY <2>2, <4>2 DEF FunctionDenied, Identity
      <3>2. Marked(On(Stack, "default", 1)) /\ On(Stack, "default", 1) \in Seq(Frames)
        <4>1. "default" \in Owners /\ 1 \in Nat
          BY DEF Owners, DefinitionOwners
        <4> QED BY <1>4, <3>1, <4>1, OnAbove DEF Above
      <3>3. Placed(Entry.body, Item.owner, On(Stack, Item.owner, 1), Context')
        BY <1>2, <2>4, <3>2, TrustedPlaced
      <3> QED BY <1>2, <1>3, <1>4, <2>1, <3>3, BinderRegion
    <2>5. CASE Item.owner # "default"
      BY <1>2, <1>3, <1>4, <2>1, <2>3, <2>5, InsideRegion DEF Inside
    <2> QED BY <2>4, <2>5
  <1>10. CASE Entry.type \notin {"macro", "table_macro"} /\ ~(Entry.type = "table" /\ Entry.body # <<>>)
    <2>1. Unfold = <<>>
      BY <1>10 DEF Unfold
    <2> QED BY <1>4, <2>1, RegionNone
  <1> QED BY <1>7, <1>8, <1>9, <1>10

\* A function is retrieved.
LEMMA FunctionCertified ==
  ASSUME Fixed, Scoped, Scoped', Eligible, Certified, DOMAIN p = Fields, Grown, LookupFunction
  PROVE  Certified'
  <1>1. CASE Refuse(Entry)
    BY <1>1, SameCertified DEF Refuse
  <1>2. CASE ~FunctionLookupRefused /\ p' = Learned /\ Arm(ArmsFunction) /\ Continue(Unfold)
    <2>1. Busy(FunctionTypes) /\ work # <<>> /\ Item.form \notin {"open", "close"}
      BY DEF LookupFunction, Busy, Structure
    <2>2. Knows(Context', Context)
      BY <1>2 DEF Continue, Context, Knows, Grown
    <2>3. Unfold \in Seq(WorkItems)
      BY <2>1, UnfoldShape
    <2>4. Region(Unfold, Stack, Stack, Context')
      BY <1>2, <2>1, <2>2, UnfoldRegion
    <2>5. work' = Unfold \o Tail(work) /\ ArmsFunction \in BOOLEAN
      BY <1>2 DEF Continue, ArmsFunction
    <2>6. Kept(ArmsFunction)
      BY <1>2, <2>5, ArmKeeps
    <2> QED BY <2>1, <2>2, <2>3, <2>4, <2>5, <2>6, ContinueCertified
  <1> QED BY <1>1, <1>2 DEF LookupFunction

\* The reader of a path the text names was allowed, and that of a path a definition names is where the path was.
LEMMA ReaderPlaced ==
  ASSUME Fixed, Scoped, Certified, Busy({"path"}), Entry.body # <<>>, ~ReaderRefused, Knows(Context', Context),
         CallerWritten => Reader.name \in p'.replacement_functions
  PROVE  Placed(Entry.body, Item.owner, Stack, Context')
  <1>1. /\ work # <<>> /\ Item.form \notin Structure /\ Entry.type = "path"
        /\ Item.entry \in DOMAIN Entries /\ Entry = Entries[Item.entry]
    BY WorkShape DEF Busy, Fixed, Entry
  <1>2. /\ Entry.body \in Seq(ItemRecords) /\ Balanced(Entry.body)
        /\ \A n \in DOMAIN Entry.body : Expression(Entry.body[n].args)
    BY BodyGrammar
  <1>3. Item.owner \in DefinitionOwners
    BY EntryShape
  <1>4. Stack \in Seq(Frames) /\ FitsUse(Item, Stack, Context)
    BY <1>1, StackShape, HeadFits DEF Fits
  <1>5. PICK reader \in DOMAIN Entries :
          /\ Entries[reader].type \in {"table", "table_macro"}
          /\ Entry.body = <<[form |-> "written", entry |-> reader, detail |-> None, args |-> <<>>]>>
    BY <1>1, PathAssumption
  <1>6. CASE Item.owner = "caller"
    <2>1. Written(Item, Context)
      BY <1>1, <1>4, <1>6 DEF FitsUse, Read
    <2>2. CallerWritten
      BY <1>1, <2>1, WrittenNames
    <2>3. Entry.body[1].entry = reader /\ Reader = Entries[reader]
      BY <1>5 DEF Reader, Fixed
    <2>4. ASSUME NEW i \in 1 .. 2 PROVE FunctionAllowed(layers[i], Identity(Reader))
      <3> DEFINE b == [binding EXCEPT !.functions = @ \union {Reader.name}]
                 identity == Identity(Reader)
      <3>1. ~FunctionEntryRefused(layers[i], b, {}, identity, CallerWritten)
        BY DEF ReaderRefused
      <3>2. identity.name \in b.functions
        BY DEF Fixed, Binding, Identity
      <3> HIDE DEF b, identity
      <3>3. FunctionAllowed(layers[i], identity)
        BY <2>2, <3>1, <3>2 DEF FunctionEntryRefused, FunctionRefused
      <3> QED BY <3>3 DEF identity
    <2>5. \A item : item.entry = reader => Read(item, Context')
      <3>1. IsReader(reader)
        BY <1>1, <2>3 DEF IsReader
      <3>2. Context'.layers = layers /\ Reader.name \in Context'.readers
        BY <2>2 DEF Knows, Context
      <3> QED BY <1>5, <2>3, <2>4, <3>1, <3>2 DEF Read
    <2>6. ASSUME NEW use \in Uses(Entry.body) PROVE use.entry = reader
      <3>1. DOMAIN Entry.body = {1} /\ Entry.body[1].args = <<>> /\ Range(<<>>) = {}
        BY <1>5 DEF Range
      <3>2. use \in Range(Entry.body)
        BY <3>1 DEF Uses
      <3> QED BY <2>3, <3>1, <3>2 DEF Range
    <2>7. ASSUME NEW use \in Uses(Entry.body), NEW t PROVE Fits(ByOwner(use, "caller"), t, Context')
      <3> DEFINE other == ByOwner(use, "caller")
      <3>1. other.owner = "caller" /\ other.entry = reader
        BY <2>6 DEF ByOwner
      <3> HIDE DEF other
      <3>2. Fits(other, t, Context')
        BY <2>5, <3>1 DEF Fits, FitsUse, Inside
      <3> QED BY <3>2 DEF other
    <2>8. \A use \in Uses(Entry.body) : FitsFrom(use, Item.owner, Stack, Context')
      BY <1>6, <2>7 DEF FitsFrom
    <2> QED BY <1>2, <1>3, <1>4, <2>8, PlacedUses
  <1>7. CASE Item.owner = "default"
    <2>1. Marked(Stack)
      BY <1>1, <1>4, <1>7 DEF FitsUse
    <2> QED BY <1>2, <1>4, <1>7, <2>1, TrustedPlaced
  <1>8. CASE Item.owner \notin {"caller", "default"}
    <2>1. Inside(Item.owner)
      BY <1>8 DEF Inside
    <2>2. Covers(Stack)
      BY <1>1, <1>4, <2>1 DEF FitsUse, FromTypes
    <2> QED BY <1>2, <1>3, <1>4, <2>1, <2>2, PlacedInside
  <1> QED BY <1>6, <1>7, <1>8

\* A path is resolved to a reader, or a collation is bound.
LEMMA ReplacementCertified ==
  ASSUME Fixed, Scoped, Scoped', Certified, DOMAIN p = Fields, Grown, ReplacementScan \/ Collate
  PROVE  Certified'
  <1>1. CASE UNCHANGED <<work, binders, text, layers, p>>
    BY <1>1, SameCertified
  <1>2. work # <<>> /\ Item.form \notin {"open", "close"}
    BY DEF ReplacementScan, Collate, Busy, Structure
  <1>3. UNCHANGED binders => Kept(FALSE)
    BY TopShape DEF Scoped, Kept, BinderRecords
  <1>4. Stack \in Seq(Frames)
    BY StackShape
  <1> DEFINE recorded == RecordFunction(p, {Identity(Reader)}, CallerWritten, major)
  <1>5. CASE /\ Busy({"path"}) /\ Entry.body # <<>> /\ ~ReaderRefused
             /\ p' = IF CallerWritten THEN [recorded EXCEPT !.replacement_functions = @ \union {Reader.name}] ELSE recorded
             /\ Continue(Owned(Entry.body, Item.owner)) /\ UNCHANGED binders
    <2>1. Knows(Context', Context)
      BY <1>5 DEF Continue, Context, Knows, Grown
    <2>2. Entry.body \in Seq(ItemRecords) /\ Balanced(Entry.body) /\ Item.owner \in DefinitionOwners
      BY <1>5, BodyGrammar, EntryShape
    <2>3. Placed(Entry.body, Item.owner, Stack, Context')
      <3>1. CallerWritten \in BOOLEAN
        BY DEF CallerWritten
      <3>2. DOMAIN recorded = Fields
        BY <3>1, RecordKeeps
      <3> HIDE DEF recorded
      <3>3. CallerWritten => Reader.name \in p'.replacement_functions
        BY <1>5, <3>2 DEF Fields
      <3> QED BY <1>5, <2>1, <3>3, ReaderPlaced
    <2> DEFINE x == Owned(Entry.body, Item.owner)
    <2>4. x \in Seq(WorkItems) /\ Balanced(x) /\ Located(x, Item.owner, Stack, Context')
      BY <2>2, <2>3, OwnedShape, LocatedOwned
    <2>5. work' = x \o Tail(work)
      BY <1>5 DEF Continue
    <2> HIDE DEF x
    <2>6. Region(x, Stack, Stack, Context')
      BY <1>4, <2>2, <2>4, RegionOf
    <2> QED BY <1>2, <1>3, <1>5, <2>1, <2>4, <2>5, <2>6, ContinueCertified
  <1>6. CASE Collate
    <2>1. Continue(<<>>) /\ UNCHANGED <<binders, p>>
      BY <1>6 DEF Collate
    <2>2. Knows(Context', Context)
      BY <2>1 DEF Continue, Context, Knows
    <2>3. <<>> \in Seq(WorkItems) /\ Region(<<>>, Stack, Stack, Context') /\ work' = <<>> \o Tail(work)
      BY <1>4, <2>1, RegionNone DEF Continue
    <2> QED BY <1>2, <1>3, <2>1, <2>2, <2>3, ContinueCertified
  <1> QED BY <1>1, <1>5, <1>6 DEF ReplacementScan, Refuse
-----------------------------------------------------------------------------
(***************************************************************************)
(* The whole invariant.                                                    *)
(***************************************************************************)
Whole == Fixed /\ Scoped /\ Eligible /\ DOMAIN p = Fields /\ Certified

\* A text fits the binder it starts in.
LEMMA WholeInit ==
  ASSUME Init
  PROVE  Whole
  <1>1. Fixed /\ Scoped
    BY ScopedInit
  <1>2. Eligible /\ DOMAIN p = Fields
    BY DEF Init, Eligible, NewProvenance, Fields
  <1>3. work = Owned(text.items, "caller") /\ text \in Texts
    BY DEF Init
  <1>4. /\ text.items \in Seq(ItemRecords) /\ Balanced(text.items)
        /\ \A n \in DOMAIN text.items : Expression(text.items[n].args)
    BY <1>3, TextAssumption, GrammarAssumption
  <1>5. Stack \in Seq(Frames) /\ "caller" \in DefinitionOwners
    BY <1>1, StackShape DEF DefinitionOwners
  <1>6. ASSUME NEW use \in Uses(text.items), NEW t PROVE Fits(ByOwner(use, "caller"), t, Context)
    <2> DEFINE other == ByOwner(use, "caller")
    <2>1. other.owner = "caller" /\ other.entry = use.entry /\ other.form = use.form
      BY DEF ByOwner
    <2> HIDE DEF other
    <2>2. Written(other, Context)
      BY <2>1 DEF Written, Context
    <2>3. Fits(other, t, Context)
      BY <2>1, <2>2 DEF Fits, FitsUse, Inside
    <2> QED BY <2>3 DEF other
  <1>7. \A use \in Uses(text.items) : FitsFrom(use, "caller", Stack, Context)
    BY <1>6 DEF FitsFrom
  <1>8. Placed(text.items, "caller", Stack, Context)
    BY <1>4, <1>5, <1>7, PlacedUses
  <1>9. Balanced(work) /\ Located(work, "caller", Stack, Context)
    BY <1>3, <1>4, <1>5, <1>8, LocatedOwned
  <1>10. Region(work, Stack, Stack, Context)
    BY <1>1, <1>5, <1>9, RegionOf DEF Scoped
  <1>11. Weaker(Stack, binders)
    BY <1>1, StackShape, WeakerIs
  <1>12. Region(work, binders, Stack, Context)
    BY <1>10, <1>11, RegionWeaker
  <1> QED BY <1>1, <1>2, <1>12 DEF Whole, Certified

\* Every step keeps it.
LEMMA WholeStep ==
  ASSUME Whole, [Next]_vars
  PROVE  Whole' /\ Grown
  <1>1. Fixed /\ Scoped /\ Eligible /\ DOMAIN p = Fields /\ Certified
    BY DEF Whole
  <1>2. Fixed' /\ Scoped' /\ Grown
    BY <1>1, ScopedStep, NamesGrow
  <1>3. UNCHANGED <<binding, layers, text>>
    BY DEF Next, vars, Open, Close, Argument, LookupObject, LookupFunction, ReplacementScan, Collate, AuthorizePlan,
           Refuse, Continue
  <1>4. Eligible' /\ DOMAIN p' = Fields
    BY <1>1, <1>2, <1>3 DEF Eligible, Grown
  <1>5. Certified'
    <2>1. CASE AuthorizePlan \/ UNCHANGED vars
      BY <1>1, <2>1, SameCertified DEF AuthorizePlan, vars
    <2>2. CASE Open
      BY <1>1, <2>2, OpenCertified
    <2>3. CASE Close
      BY <1>1, <2>3, CloseCertified
    <2>4. CASE Argument
      BY <1>1, <1>2, <2>4, ArgumentCertified
    <2>5. CASE LookupObject
      BY <1>1, <1>2, <2>5, ObjectCertified
    <2>6. CASE LookupFunction
      BY <1>1, <1>2, <2>6, FunctionCertified
    <2>7. CASE ReplacementScan \/ Collate
      BY <1>1, <1>2, <2>7, ReplacementCertified
    <2> QED BY <2>1, <2>2, <2>3, <2>4, <2>5, <2>6, <2>7 DEF Next
  <1> QED BY <1>2, <1>4, <1>5 DEF Whole

\* What CallersHeld says of one retrieval, when q is what the bind has learned.
HeldFor(r, layer, q) ==
  LET e == Entries[r.entry]
      known == e.name \in q.trusted_names \/ NamesObject(q.trusted_tables, e)
  IN  /\ e.type \in {"relation", "view"} /\ (r.owner = "caller" \/ (r.owner # "host" /\ ~known /\ ~r.trusted)) =>
           TableAllowed(layer, e.name)
      /\ e.type \in FunctionTypes /\ ~r.trusted =>
           /\ r.owner = "caller" => FunctionAllowed(layer, Identity(e))
           /\ r.owner = "default" \/ (r.owner = "metadata" /\ ~known) =>
                /\ ~FunctionDenied(layer, Identity(e))
                /\ SystemIdentity(Identity(e)) \/ (r.owner = "metadata" /\ FunctionAllowed(layer, Identity(e)))
           /\ r.owner = "default" /\ ~layer.defaults => FunctionAllowed(layer, Identity(e))

\* It stays so when more names are known to be a host's.
LEMMA HeldMore ==
  ASSUME NEW r, NEW layer, NEW q, NEW w, q.trusted_names \subseteq w.trusted_names, q.trusted_tables \subseteq w.trusted_tables,
         HeldFor(r, layer, q)
  PROVE  HeldFor(r, layer, w)
  <1> DEFINE e == Entries[r.entry]
  <1>1. NamesObject(q.trusted_tables, e) => NamesObject(w.trusted_tables, e)
    BY DEF NamesObject
  <1>2. e.name \in q.trusted_names => e.name \in w.trusted_names
    OBVIOUS
  <1> HIDE DEF e
  <1> QED BY <1>1, <1>2 DEF HeldFor, e

Retrieval == [entry |-> Item.entry, owner |-> Item.owner, trusted |-> Top.trusted]

\* An object was held for whom it was retrieved.
LEMMA ObjectHeld ==
  ASSUME Whole, Busy({"relation", "view"}), ~\E i \in 1 .. 2 : ObjectRefused(layers[i], major, Entry, ObjectAttributable),
         NEW i \in 1 .. 2
  PROVE  HeldFor(Retrieval, layers[i], p)
  <1>1. Fixed /\ Scoped /\ Certified
    BY DEF Whole
  <1>2. work # <<>> /\ Item.form \notin Structure /\ Entry.type \in {"relation", "view"} /\ Entry = Entries[Item.entry]
    BY <1>1 DEF Busy, Fixed, Entry
  <1>3. ObjectAttributable => TableAllowed(layers[i], Entry.name)
    BY DEF ObjectRefused
  <1>4. Item.owner = "caller" => ObjectAttributable
    <2>1. ASSUME Item.owner = "caller" PROVE Written(Item, Context)
      BY <1>1, <1>2, <2>1, HeadFits DEF Fits, FitsUse, Read
    <2>2. ASSUME Item.owner = "caller" PROVE NamesObject(binding.tables, Entry)
      BY <1>1, <1>2, <2>1, <2>2, WrittenNames
    <2> QED BY <2>2 DEF ObjectAttributable
  <1>5. ~Top.trusted /\ ~NamesObject(p.trusted_tables, Entry) => ObjectAttributable
    BY DEF ObjectAttributable
  <1> QED BY <1>2, <1>3, <1>4, <1>5 DEF HeldFor, Retrieval, FunctionTypes

\* A function was held for whom it was retrieved.
LEMMA FunctionHeldFor ==
  ASSUME Whole, Busy(FunctionTypes), ~FunctionLookupRefused, NEW i \in 1 .. 2
  PROVE  HeldFor(Retrieval, layers[i], p)
  <1>1. Fixed /\ Scoped /\ Certified
    BY DEF Whole
  <1>2. work # <<>> /\ Item.form \notin Structure /\ Entry.type \in FunctionTypes /\ Entry = Entries[Item.entry]
    BY <1>1 DEF Busy, Fixed, Entry
  <1>3. ASSUME Item.owner = "caller", ~Top.trusted PROVE FunctionAllowed(layers[i], Identity(Entry))
    <2>1. Written(Item, Context) \/ Read(Item, Context)
      BY <1>1, <1>2, <1>3, HeadFits DEF Fits, FitsUse
    <2>2. CASE Written(Item, Context)
      BY <1>1, <1>2, <1>3, <2>2, WrittenNames, FunctionHeld
    <2>3. CASE Read(Item, Context)
      BY <1>2, <2>3 DEF Read, Context
    <2> QED BY <2>1, <2>2, <2>3
  <1>4. ASSUME Item.owner = "default", ~Top.trusted
        PROVE  /\ ~FunctionDenied(layers[i], Identity(Entry)) /\ SystemIdentity(Identity(Entry))
               /\ ~layers[i].defaults => FunctionAllowed(layers[i], Identity(Entry))
    BY <1>1, <1>4, DefaultsKnown, AttributedHeld
  <1>5. ASSUME Entry.name \notin p.trusted_names, ~Top.trusted
        PROVE  /\ ~FunctionDenied(layers[i], Identity(Entry))
               /\ SystemIdentity(Identity(Entry)) \/ FunctionAllowed(layers[i], Identity(Entry))
    <2>1. FunctionAttributable
      BY <1>5 DEF FunctionAttributable
    <2> QED BY <1>1, <2>1, AttributedHeld
  <1>6. Entry.type \notin {"relation", "view"}
    BY <1>2 DEF FunctionTypes
  <1> QED BY <1>2, <1>3, <1>4, <1>5, <1>6 DEF HeldFor, Retrieval

\* Whatever the catalog, the text and the policies are, what was retrieved for the caller was allowed by both layers: its
\* objects in whatever binder, its functions in every untrusted one, and what the engine's own macros and metadata
\* views make of them (check.cpp, LookupCallback; authorization.cpp, AuthorizeObjectAgainst).
THEOREM CallersAreHeld == Spec => []CallersHeld
  <1> DEFINE All == \A r \in retrieved, i \in 1 .. 2 : HeldFor(r, layers[i], p)
  <1>1. Fixed => (CallersHeld <=> All)
    BY DEF Fixed, CallersHeld, HeldFor
  <1>2. Init => Whole /\ All
    BY WholeInit DEF Init
  <1>3. Whole /\ All /\ [Next]_vars => Whole' /\ All'
    <2> SUFFICES ASSUME Whole, All, [Next]_vars PROVE Whole' /\ All'
      OBVIOUS
    <2>1. Whole' /\ Grown
      BY WholeStep
    <2>2. UNCHANGED layers
      BY DEF Next, vars, Open, Close, Argument, LookupObject, LookupFunction, ReplacementScan, Collate, AuthorizePlan,
             Refuse, Continue
    <2>3. UNCHANGED retrieved \/ (retrieved' = retrieved \union {Retrieval} /\ \A i \in 1 .. 2 : HeldFor(Retrieval, layers[i], p))
      <3>1. CASE Open \/ Close \/ Argument \/ AuthorizePlan \/ UNCHANGED vars
        BY <3>1 DEF Open, Close, Argument, AuthorizePlan, vars
      <3>2. CASE LookupObject
        <4>1. CASE Refuse(Entry)
          BY <4>1 DEF Refuse
        <4>2. CASE /\ ~\E i \in 1 .. 2 : ObjectRefused(layers[i], major, Entry, ObjectAttributable)
                   /\ \E items : Continue(items)
          BY <3>2, <4>2, ObjectHeld DEF LookupObject, Continue, Retrieval
        <4> QED BY <3>2, <4>1, <4>2 DEF LookupObject
      <3>3. CASE LookupFunction
        <4>1. CASE Refuse(Entry)
          BY <4>1 DEF Refuse
        <4>2. CASE ~FunctionLookupRefused /\ Continue(Unfold)
          BY <3>3, <4>2, FunctionHeldFor DEF LookupFunction, Continue, Retrieval
        <4> QED BY <3>3, <4>1, <4>2 DEF LookupFunction
      <3>4. CASE ReplacementScan \/ Collate
        <4>1. UNCHANGED retrieved \/ retrieved' = retrieved \union {Retrieval}
          BY <3>4 DEF ReplacementScan, Collate, Refuse, Continue, Retrieval
        <4>2. Entries[Item.entry].type \in {"path", "collation"}
          BY <3>4 DEF ReplacementScan, Collate, Busy, Entry, Whole, Fixed
        <4>3. \A i \in 1 .. 2 : HeldFor(Retrieval, layers[i], p)
          BY <4>2 DEF HeldFor, Retrieval, FunctionTypes
        <4> QED BY <4>1, <4>3
      <3> QED BY <3>1, <3>2, <3>3, <3>4 DEF Next
    <2>4. \A r \in retrieved', i \in 1 .. 2 : HeldFor(r, layers[i], p)
      BY <2>3
    <2>5. \A r \in retrieved', i \in 1 .. 2 : HeldFor(r, layers[i], p')
      BY <2>1, <2>4, HeldMore DEF Grown
    <2> QED BY <2>1, <2>2, <2>5
  <1>4. Whole => Fixed
    BY DEF Whole
  <1> HIDE DEF All
  <1> QED BY <1>1, <1>2, <1>3, <1>4, PTL DEF Spec
-----------------------------------------------------------------------------
(***************************************************************************)
(* Scope: what arms a callback.                                            *)
(***************************************************************************)
Within(b, n) == \E j \in 1 .. n : Inside(b[j].owner)
OpensNext == work # <<>> /\ Item.form = "open" /\ Inside(Item.owner)

\* A trusted binder is within a definition; an armed one is too, or what it opens next will be.
InScope ==
  \A n \in DOMAIN binders :
    (binders[n].trusted => Within(binders, n)) /\ (binders[n].armed => Within(binders, n) \/ (n = Len(binders) /\ OpensNext))

\* A host's scalar macro names the reader of a path the text names.
Shared == p.replacement_functions \intersect p.trusted_names # {}

\* The binder goes on, armed if it is within a definition or what comes next is.
LEMMA ContinueInScope ==
  ASSUME Scoped, InScope, Item.form # "open", NEW armed \in BOOLEAN, Kept(armed),
         armed => Within(binders, Len(binders)) \/ OpensNext'
  PROVE  InScope'
  <1> DEFINE n == Len(binders)
  <1>1. n \in Nat \ {0} /\ DOMAIN binders = 1 .. n
    BY TopShape
  <1>2. /\ Len(binders') = n /\ DOMAIN binders' = 1 .. n
        /\ \A i \in 1 .. n : binders'[i].trusted = binders[i].trusted /\ binders'[i].owner = binders[i].owner
        /\ binders'[n].armed = (binders[n].armed \/ armed)
        /\ \A i \in 1 .. n : i # n => binders'[i] = binders[i]
    BY <1>1 DEF Kept
  <1> HIDE DEF n
  <1>3. ASSUME NEW i \in 1 .. n PROVE Within(binders, i) => Within(binders', i)
    <2>1. \A j \in 1 .. i : binders'[j].owner = binders[j].owner
      BY <1>1, <1>2
    <2> QED BY <2>1 DEF Within
  <1>4. ~OpensNext
    BY DEF OpensNext
  <1>5. \A i \in 1 .. n : (binders[i].trusted => Within(binders, i)) /\ (binders[i].armed => Within(binders, i))
    BY <1>1, <1>4 DEF InScope
  <1>6. ASSUME NEW i \in 1 .. n
        PROVE  (binders'[i].trusted => Within(binders', i)) /\ (binders'[i].armed => Within(binders', i) \/ (i = n /\ OpensNext'))
    <2>1. CASE i = n
      BY <1>2, <1>3, <1>5, <2>1 DEF n
    <2>2. CASE i # n
      BY <1>2, <1>3, <1>5, <2>2
    <2> QED BY <2>1, <2>2
  <1> QED BY <1>2, <1>6 DEF InScope

\* A child binder is trusted within a definition.
LEMMA OpenInScope ==
  ASSUME Scoped, InScope, Open
  PROVE  InScope'
  <1>0. PICK n \in Nat \ {0} : n = Len(binders)
    BY TopShape
  <1> DEFINE parent == [binders[n] EXCEPT !.armed = FALSE]
             child == [trusted |-> Top.trusted \/ Top.armed, armed |-> FALSE, owner |-> Item.owner]
             kept == [binders EXCEPT ![n] = parent]
  <1>1. work # <<>> /\ Item.form = "open"
    BY DEF Open
  <1>2. /\ n \in 1 .. Len(binders) /\ n \in Nat \ {0} /\ Top = binders[n] /\ Top \in BinderRecords
        /\ binders \in Seq(BinderRecords) /\ DOMAIN binders = 1 .. n
    BY <1>0, TopShape DEF Scoped
  <1>3. parent \in BinderRecords /\ parent.trusted = Top.trusted /\ parent.owner = Top.owner /\ ~parent.armed
    BY <1>2 DEF BinderRecords
  <1>4. child \in BinderRecords /\ child.trusted = (Top.trusted \/ Top.armed) /\ child.owner = Item.owner /\ ~child.armed
    BY <1>1, <1>2, WorkShape DEF BinderRecords
  <1>5. binders' = Append(kept, child)
    BY <1>0, <1>2 DEF Open
  <1> HIDE DEF parent, child
  <1>6. kept \in Seq(BinderRecords) /\ Len(kept) = n /\ kept[n] = parent /\ \A j \in 1 .. n : j # n => kept[j] = binders[j]
    BY <1>2, <1>3, ReplaceOne
  <1> HIDE DEF kept
  <1>7. /\ Len(binders') = n + 1 /\ DOMAIN binders' = 1 .. n + 1
        /\ binders'[n + 1] = child /\ \A j \in 1 .. n : binders'[j] = kept[j]
    BY <1>2, <1>4, <1>5, <1>6
  <1>8. /\ \A j \in 1 .. n : binders'[j].trusted = binders[j].trusted /\ binders'[j].owner = binders[j].owner
        /\ \A j \in 1 .. n : binders'[j].armed => j # n /\ binders[j].armed
    BY <1>2, <1>3, <1>6, <1>7
  <1>9. ASSUME NEW i \in 1 .. n PROVE Within(binders, i) => Within(binders', i)
    <2>1. \A j \in 1 .. i : binders'[j].owner = binders[j].owner
      BY <1>2, <1>8
    <2> QED BY <2>1 DEF Within
  <1>10. Within(binders', n) => Within(binders', n + 1)
    <2>1. \A j \in 1 .. n : j \in 1 .. n + 1
      BY <1>2
    <2> QED BY <2>1 DEF Within
  <1>11. Inside(Item.owner) => Within(binders', n + 1)
    <2>1. n + 1 \in 1 .. n + 1 /\ binders'[n + 1].owner = Item.owner
      BY <1>2, <1>4, <1>7
    <2> QED BY <2>1 DEF Within
  <1>12. Top.trusted \/ Top.armed => Within(binders, n) \/ Inside(Item.owner)
    BY <1>0, <1>2 DEF InScope, OpensNext
  <1>13. child.trusted => Within(binders', n + 1)
    <2>1. n \in 1 .. n
      BY <1>2
    <2>2. Within(binders, n) => Within(binders', n)
      BY <1>9, <2>1
    <2> QED BY <1>4, <1>10, <1>11, <1>12, <2>2, Zenon
  <1>14. ASSUME NEW i \in 1 .. n + 1
         PROVE  (binders'[i].trusted => Within(binders', i)) /\ (binders'[i].armed => Within(binders', i))
    <2>1. CASE i \in 1 .. n
      <3>1. binders[i].trusted => Within(binders, i)
        BY <1>2, <2>1 DEF InScope
      <3>2. binders[i].armed /\ i # n => Within(binders, i)
        BY <1>0, <1>2, <2>1 DEF InScope
      <3> QED BY <1>8, <1>9, <2>1, <3>1, <3>2
    <2>2. CASE i = n + 1
      BY <1>4, <1>7, <1>13, <2>2
    <2> QED BY <1>2, <2>1, <2>2
  <1> QED BY <1>7, <1>14 DEF InScope

\* When a child binder is done, none above it was counting on it.
LEMMA CloseInScope ==
  ASSUME Scoped, InScope, Close
  PROVE  InScope'
  <1>0. PICK n \in Nat \ {0} : n = Len(binders)
    BY TopShape
  <1>1. Item.form = "close" /\ n > 1 /\ binders' = SubSeq(binders, 1, n - 1)
    BY <1>0 DEF Close, Front
  <1>2. n \in Nat \ {0} /\ DOMAIN binders = 1 .. n /\ binders \in Seq(BinderRecords)
    BY <1>0, TopShape DEF Scoped
  <1>3. DOMAIN binders' = 1 .. n - 1 /\ \A j \in 1 .. n - 1 : binders'[j] = binders[j] /\ j \in 1 .. n /\ j # n
    BY <1>1, <1>2
  <1>4. ASSUME NEW i \in 1 .. n - 1 PROVE Within(binders, i) => Within(binders', i)
    <2>1. \A j \in 1 .. i : binders'[j] = binders[j]
      BY <1>2, <1>3
    <2> QED BY <2>1 DEF Within
  <1>5. \A i \in 1 .. n - 1 : (binders[i].trusted => Within(binders, i)) /\ (binders[i].armed => Within(binders, i))
    BY <1>0, <1>2, <1>3 DEF InScope
  <1>6. \A i \in 1 .. n - 1 : (binders'[i].trusted => Within(binders', i)) /\ (binders'[i].armed => Within(binders', i))
    BY <1>3, <1>4, <1>5
  <1> QED BY <1>3, <1>6 DEF InScope

\* What a binder of its own is opened for comes next.
LEMMA InBinderNext ==
  ASSUME NEW items \in Seq(WorkItems), NEW owner \in Owners, Inside(owner), NEW rest \in Seq(WorkItems),
         work' = InBinder(items, owner) \o rest
  PROVE  OpensNext'
  <1> DEFINE open == BinderItem("open", owner)
             close == BinderItem("close", owner)
  <1>1. open \in WorkItems /\ close \in WorkItems
    BY DEF BinderItem, WorkItems, Named, Forms, Structure, Ids, Details
  <1>2. open.form = "open" /\ open.owner = owner
    BY DEF BinderItem
  <1>3. work' = <<open>> \o items \o <<close>> \o rest
    BY DEF InBinder
  <1> HIDE DEF open, close
  <1>4. work' \in Seq(WorkItems) /\ Len(work') >= 1 /\ work'[1] = open
    BY <1>1, <1>3
  <1>5. work' # <<>>
    BY <1>4
  <1> QED BY <1>2, <1>4, <1>5 DEF OpensNext, Item

\* A retrieval arms its callback for a body that is opened next, or within a definition.
LEMMA FunctionInScope ==
  ASSUME Whole, ~Shared, Busy(FunctionTypes), ArmsFunction, work' = Unfold \o Tail(work)
  PROVE  Within(binders, Len(binders)) \/ OpensNext'
  <1>1. Fixed /\ Scoped /\ Certified
    BY DEF Whole
  <1>2. /\ work # <<>> /\ Item.form \notin Structure /\ Entry.type \in FunctionTypes /\ ~Top.trusted
        /\ Item.entry \in DOMAIN Entries /\ Entry = Entries[Item.entry] /\ Tail(work) \in Seq(WorkItems)
    BY <1>1, WorkShape DEF Busy, Fixed, Entry, ArmsFunction
  <1>3. /\ Entry.internal \in BOOLEAN /\ Entry.body \in Seq(ItemRecords)
        /\ Item.args \in Seq(PassedItems) /\ Item.owner \in DefinitionOwners
    BY <1>1, EntryShape
  <1>4. CASE Entry.type = "table_macro"
    <2>1. BodyOwner \in DefinitionOwners /\ Inside(BodyOwner)
      BY <1>3, <1>4 DEF BodyOwner, DefinitionOwners, Inside
    <2>2. Opener(BodyOwner) \in Owners /\ Inside(Opener(BodyOwner))
      BY <2>1 DEF Opener, Owners, Inside
    <2> DEFINE body == Owned(Entry.body, BodyOwner)
    <2>3. body \in Seq(WorkItems) /\ \A i \in DOMAIN body : body[i].owner # "body"
      BY <1>3, <2>1, OwnedShape
    <2>4. Unfold = InBinder(Expand(body, Item.args), Opener(BodyOwner))
      BY <1>4 DEF Unfold
    <2> HIDE DEF body
    <2>5. Expand(body, Item.args) \in Seq(WorkItems)
      BY <1>3, <2>3, ExpandShape
    <2> QED BY <1>2, <2>2, <2>4, <2>5, InBinderNext
  <1>5. CASE Entry.type = "table"
    <2>1. Entry.name \in p.trusted_names /\ ~CallerCanName(binding, p, Entry.name) /\ ~FunctionAttributable
      BY <1>2, <1>5 DEF ArmsFunction, FunctionAttributable
    <2>2. FitsUse(Item, Stack, Context)
      BY <1>1, <1>2, HeadFits DEF Fits
    <2>3. Item.owner # "default"
      BY <1>1, <1>2, <2>1, DefaultsKnown
    <2>4. Item.owner # "caller"
      <3> SUFFICES ASSUME Item.owner = "caller" PROVE FALSE
        OBVIOUS
      <3>1. CASE Written(Item, Context)
        <4>1. Entry.name \in binding.functions \union binding.synthesized \union binding.literals
          BY <1>1, <1>2, <3>1, WrittenNames
        <4> QED BY <2>1, <4>1 DEF CallerCanName
      <3>2. CASE Read(Item, Context)
        <4>1. Entry.name \in p.replacement_functions
          BY <1>2, <3>2 DEF Read, Context
        <4> QED BY <2>1, <4>1 DEF Shared
      <3> QED BY <2>2, <3>1, <3>2 DEF FitsUse
    <2>5. Covers(Stack)
      BY <1>2, <1>5, <2>2, <2>3, <2>4 DEF FitsUse, Inside, FromTypes
    <2>6. Within(binders, Len(binders))
      BY <1>1, <2>5, StackShape, TopShape DEF Within
    <2> QED BY <2>6
  <1> QED BY <1>4, <1>5 DEF ArmsFunction

\* Whatever the catalog, the text and the policies are, a trusted binder lies within the body of a view or table macro,
\* or in a subquery of a macro's, until one bind has met a path of the text's and a host's scalar macro that names its
\* reader (check.cpp, LookupCallback: what arms a callback, and the copy constructor).
THEOREM TrustLeavesByReadersOnly == Spec => []TrustIsScopeButReaders
  <1>1. Init => Whole /\ (Shared \/ InScope)
    <2> SUFFICES ASSUME Init PROVE Whole /\ InScope
      OBVIOUS
    <2>1. binders = <<[trusted |-> FALSE, armed |-> FALSE, owner |-> "caller"]>>
      BY DEF Init
    <2>2. InScope
      BY <2>1 DEF InScope
    <2> QED BY <2>2, WholeInit
  <1>2. Whole /\ (Shared \/ InScope) /\ [Next]_vars => Whole' /\ (Shared \/ InScope)'
    <2> SUFFICES ASSUME Whole, Shared \/ InScope, [Next]_vars PROVE Whole' /\ (Shared' \/ InScope')
      OBVIOUS
    <2>1. Whole' /\ Grown
      BY WholeStep
    <2>2. Fixed /\ Scoped
      BY DEF Whole
    <2>3. Shared => Shared'
      BY <2>1 DEF Shared, Grown
    <2> SUFFICES ASSUME ~Shared, InScope PROVE InScope'
      BY <2>1, <2>3
    <2>4. UNCHANGED <<work, binders>> => InScope'
      BY DEF InScope, OpensNext, Item, Within
    <2>5. UNCHANGED binders => Kept(FALSE)
      BY <2>2, TopShape DEF Scoped, Kept, BinderRecords
    <2>6. UNCHANGED binders /\ Item.form # "open" => InScope'
      BY <2>2, <2>5, ContinueInScope
    <2>7. CASE LookupObject
      <3>1. CASE Refuse(Entry)
        BY <2>4, <3>1 DEF Refuse
      <3> DEFINE owner == IF ~Entry.internal \/ Item.owner = "host" THEN "host" ELSE "metadata"
                 body == Owned(Entry.body, owner)
                 items == IF Entry.type = "view" THEN InBinder(body, Opener(owner)) ELSE <<>>
                 armed == ~Top.trusted /\ Entry.type = "view" /\ (~Entry.internal \/ ~ObjectAttributable)
      <3>2. CASE Arm(armed) /\ Continue(items)
        <4>1. Busy({"relation", "view"}) /\ work # <<>> /\ Item.form # "open" /\ Tail(work) \in Seq(WorkItems)
          BY <2>2, <2>7, WorkShape DEF LookupObject, Busy, Structure
        <4>2. Entry.body \in Seq(ItemRecords)
          BY <2>2, <4>1, EntryShape
        <4>3. owner \in DefinitionOwners /\ Opener(owner) \in Owners /\ Inside(Opener(owner))
          BY DEF Opener, Owners, DefinitionOwners, Inside
        <4>4. body \in Seq(WorkItems)
          BY <4>2, <4>3, OwnedShape
        <4>5. work' = items \o Tail(work) /\ armed \in BOOLEAN /\ (armed => Entry.type = "view")
          BY <3>2 DEF Continue
        <4> HIDE DEF body, owner
        <4>6. armed => OpensNext'
          BY <4>1, <4>3, <4>4, <4>5, InBinderNext
        <4> HIDE DEF items, armed
        <4>7. Kept(armed)
          BY <2>2, <3>2, <4>5, ArmKeeps
        <4> QED BY <2>2, <4>1, <4>5, <4>6, <4>7, ContinueInScope
      <3> QED BY <2>7, <3>1, <3>2 DEF LookupObject
    <2>8. CASE LookupFunction
      <3>1. CASE Refuse(Entry)
        BY <2>4, <3>1 DEF Refuse
      <3>2. CASE Arm(ArmsFunction) /\ Continue(Unfold)
        <4>1. Busy(FunctionTypes) /\ Item.form # "open" /\ work' = Unfold \o Tail(work) /\ ArmsFunction \in BOOLEAN
          BY <2>8, <3>2 DEF LookupFunction, Busy, Structure, Continue, ArmsFunction
        <4>2. ArmsFunction => Within(binders, Len(binders)) \/ OpensNext'
          BY <4>1, FunctionInScope
        <4>3. Kept(ArmsFunction)
          BY <2>2, <3>2, <4>1, ArmKeeps
        <4> QED BY <2>2, <4>1, <4>2, <4>3, ContinueInScope
      <3> QED BY <2>8, <3>1, <3>2 DEF LookupFunction
    <2>9. CASE Argument \/ ReplacementScan \/ Collate
      <3>1. UNCHANGED binders /\ Item.form # "open"
        BY <2>9 DEF Argument, ReplacementScan, Collate, Refuse, Busy, Structure
      <3> QED BY <2>6, <3>1
    <2>10. CASE AuthorizePlan \/ UNCHANGED vars
      BY <2>4, <2>10 DEF AuthorizePlan, vars
    <2> QED BY <2>2, <2>7, <2>8, <2>9, <2>10, OpenInScope, CloseInScope DEF Next
  <1>3. Shared \/ InScope => TrustIsScopeButReaders
    BY DEF Shared, InScope, TrustIsScope, TrustIsScopeButReaders, Within, Inside
  <1> QED BY <1>1, <1>2, <1>3, PTL DEF Spec

=============================================================================
