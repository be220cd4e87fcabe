------------------------- MODULE ConfigLoad_proofs -------------------------
(***************************************************************************)
(* Theorems about the loading of a Bachfile, for every source: its files   *)
(* and imports, its values and its blocks, whatever their number.          *)
(***************************************************************************)
EXTENDS ConfigLoad, FiniteSetTheorems, SequenceTheorems, WellFoundedInduction, TLAPS

-----------------------------------------------------------------------------
(* Lists, and the blocks of some kinds *)

\* A set of numbers with 0 and with the successors of its members has them all.
LEMMA AllNumbers ==
  ASSUME NEW S, 0 \in S, \A n \in Nat : n \in S => n + 1 \in S
  PROVE  Nat \subseteq S
  <1> SUFFICES ASSUME NEW k \in Nat, k \notin S PROVE FALSE
    OBVIOUS
  <1> DEFINE T == Nat \ S
  <1>1. PICK x \in T : \A y \in T : ~ (<<y, x>> \in OpToRel(<, Nat))
    <2>1. T \subseteq Nat /\ T # {}
      OBVIOUS
    <2> HIDE DEF T
    <2> QED BY <2>1, WFMin, NatLessThanWellFounded, Zenon
  <1>2. x # 0 /\ x - 1 \in Nat /\ (x - 1) + 1 = x
    OBVIOUS
  <1>3. x - 1 \in T
    BY <1>2
  <1>4. ~ (<<x - 1, x>> \in OpToRel(<, Nat))
    BY <1>1, <1>3
  <1>5. x - 1 < x
    OBVIOUS
  <1> QED BY <1>2, <1>4, <1>5, Zenon DEF OpToRel

\* One more member.
LEMMA AppendedTo ==
  ASSUME NEW S, NEW list \in Seq(S), NEW x
  PROVE  ToSet(Append(list, x)) = ToSet(list) \cup {x}
  <1> DEFINE L == Len(list)
             more == Append(list, x)
  <1>1. /\ L \in Nat /\ DOMAIN list = 1 .. L /\ DOMAIN more = 1 .. L + 1
        /\ more[L + 1] = x /\ \A i \in 1 .. L : more[i] = list[i]
    OBVIOUS
  <1> HIDE DEF more, L
  <1>2. 1 .. L + 1 = (1 .. L) \cup {L + 1}
    BY <1>1
  <1>3. {more[i] : i \in 1 .. L + 1} = {list[i] : i \in 1 .. L} \cup {x}
    BY <1>1, <1>2
  <1> QED BY <1>1, <1>3 DEF ToSet, more

\* What a list of blocks becomes when block n is looked at.
Picked(list, kinds, n, chosen) ==
  IF list[n].kind \in kinds THEN Append(chosen, list[n]) ELSE chosen
PickedTo(u, n, list, kinds) ==
  u = [i \in 0 .. n |-> IF i = 0 THEN <<>> ELSE Picked(list, kinds, i, u[i - 1])]

\* One can look at as many blocks as one likes.
LEMMA PicksExist ==
  ASSUME NEW list, NEW kinds
  PROVE  \A n \in Nat : \E u : PickedTo(u, n, list, kinds)
  <1> DEFINE S == {n \in Nat : \E u : PickedTo(u, n, list, kinds)}
  <1>1. 0 \in S
    <2> DEFINE u == [i \in 0 .. 0 |-> <<>>]
               ui(i) == <<>>
               wi(i) == IF i = 0 THEN <<>> ELSE Picked(list, kinds, i, u[i - 1])
    <2>1. \A i \in 0 .. 0 : ui(i) = wi(i)
      OBVIOUS
    <2>2. [i \in 0 .. 0 |-> ui(i)] = [i \in 0 .. 0 |-> wi(i)]
      <3> HIDE DEF ui, wi
      <3> QED BY <2>1
    <2>3. PickedTo(u, 0, list, kinds)
      BY <2>2, Zenon DEF PickedTo
    <2> QED BY <2>3
  <1>2. ASSUME NEW n \in Nat, n \in S PROVE n + 1 \in S
    <2>1. PICK u : PickedTo(u, n, list, kinds)
      BY <1>2
    <2> DEFINE next == Picked(list, kinds, n + 1, u[n])
               v == [i \in 0 .. n + 1 |-> IF i = n + 1 THEN next ELSE u[i]]
               w == [i \in 0 .. n + 1 |->
                       IF i = 0 THEN <<>> ELSE Picked(list, kinds, i, v[i - 1])]
    <2>2. ASSUME NEW i \in 0 .. n + 1 PROVE v[i] = w[i]
      <3>1. CASE i = n + 1
        <4>1. v[i] = next /\ v[i - 1] = u[n] /\ i # 0
          BY <3>1
        <4>2. w[i] = Picked(list, kinds, i, v[i - 1])
          BY <4>1
        <4> QED BY <3>1, <4>1, <4>2
      <3>2. CASE i = 0
        <4>1. v[i] = u[i]
          BY <3>2
        <4>2. u[i] = <<>>
          BY <2>1, <3>2 DEF PickedTo
        <4> QED BY <3>2, <4>1, <4>2
      <3>3. CASE i # n + 1 /\ i # 0
        <4>1. i \in 0 .. n /\ i - 1 \in 0 .. n + 1 /\ i - 1 # n + 1
          BY <3>3
        <4>2. v[i] = u[i] /\ v[i - 1] = u[i - 1]
          BY <3>3, <4>1
        <4>3. u[i] = Picked(list, kinds, i, u[i - 1])
          BY <2>1, <3>3, <4>1, Zenon DEF PickedTo
        <4>4. w[i] = Picked(list, kinds, i, v[i - 1])
          BY <3>3
        <4> QED BY <4>2, <4>3, <4>4
      <3> QED BY <3>1, <3>2, <3>3
    <2>3. v = w
      <3> HIDE DEF next
      <3>1. \A i \in 0 .. n + 1 : v[i] = w[i]
        BY <2>2
      <3> DEFINE vi(i) == IF i = n + 1 THEN next ELSE u[i]
                 wi(i) == IF i = 0 THEN <<>> ELSE Picked(list, kinds, i, v[i - 1])
      <3>2. \A i \in 0 .. n + 1 : vi(i) = wi(i)
        BY <3>1
      <3> HIDE DEF vi, wi
      <3>3. [i \in 0 .. n + 1 |-> vi(i)] = [i \in 0 .. n + 1 |-> wi(i)]
        BY <3>2
      <3> QED BY <3>3 DEF vi, wi
    <2>4. PickedTo(v, n + 1, list, kinds)
      BY <2>3 DEF PickedTo
    <2> QED BY <2>4
  <1> HIDE DEF S
  <1>3. Nat \subseteq S
    BY <1>1, <1>2, AllNumbers
  <1> QED BY <1>3 DEF S

\* The blocks of some kinds are a list of the blocks that are of those kinds.
LEMMA KindsInIs ==
  ASSUME NEW list, IsList(list), NEW kinds
  PROVE  /\ KindsIn(list, kinds) \in Seq(ToSet(list))
         /\ ToSet(KindsIn(list, kinds)) = {b \in ToSet(list) : b.kind \in kinds}
  <1> DEFINE L == Len(list)
             chosen == CHOOSE u : PickedTo(u, L, list, kinds)
  <1>1. L \in Nat /\ DOMAIN list = 1 .. L
    BY DEF IsList
  <1>2. PickedTo(chosen, L, list, kinds)
    <2> HIDE DEF L
    <2>1. \E u : PickedTo(u, L, list, kinds)
      BY <1>1, PicksExist
    <2> QED BY <2>1, Zenon
  <1>3. KindsIn(list, kinds) = chosen[L]
    BY DEF KindsIn, PickedTo, Picked
  <1> HIDE DEF chosen, L
  <1>a. ToSet(list) = {list[i] : i \in 1 .. L}
    BY <1>1 DEF ToSet
  <1> DEFINE Good(n) == /\ chosen[n] \in Seq(ToSet(list))
                        /\ ToSet(chosen[n]) = {b \in {list[i] : i \in 1 .. n} : b.kind \in kinds}
             S == {n \in Nat : n <= L => Good(n)}
  <1>4. 0 \in S
    <2>1. chosen[0] = <<>>
      BY <1>1, <1>2 DEF PickedTo
    <2>2. ToSet(<<>>) = {}
      BY DEF ToSet
    <2>3. Good(0)
      BY <2>1, <2>2
    <2> QED BY <2>3
  <1>5. ASSUME NEW n \in Nat, n \in S PROVE n + 1 \in S
    <2> SUFFICES ASSUME n + 1 <= L PROVE Good(n + 1)
      OBVIOUS
    <2>1. Good(n)
      BY <1>1, <1>5
    <2>2. chosen[n + 1] = Picked(list, kinds, n + 1, chosen[n])
      <3>1. n + 1 \in 0 .. L /\ n + 1 # 0 /\ (n + 1) - 1 = n
        BY <1>1
      <3> QED BY <1>2, <3>1, Zenon DEF PickedTo
    <2>3. list[n + 1] \in ToSet(list)
      BY <1>1, <1>a
    <2>4. {list[i] : i \in 1 .. n + 1} = {list[i] : i \in 1 .. n} \cup {list[n + 1]}
      OBVIOUS
    <2>5. CASE list[n + 1].kind \in kinds
      <3>1. chosen[n + 1] = Append(chosen[n], list[n + 1])
        BY <2>2, <2>5 DEF Picked
      <3>2. chosen[n + 1] \in Seq(ToSet(list))
        BY <2>1, <2>3, <3>1
      <3>3. ToSet(Append(chosen[n], list[n + 1])) = ToSet(chosen[n]) \cup {list[n + 1]}
        BY <2>1, AppendedTo
      <3> QED BY <2>1, <2>4, <2>5, <3>1, <3>2, <3>3
    <2>6. CASE list[n + 1].kind \notin kinds
      <3>1. chosen[n + 1] = chosen[n]
        BY <2>2, <2>6 DEF Picked
      <3> QED BY <2>1, <2>4, <2>6, <3>1
    <2> QED BY <2>5, <2>6
  <1>6. L \in S
    <2> HIDE DEF S
    <2>1. Nat \subseteq S
      BY <1>4, <1>5, AllNumbers
    <2> QED BY <1>1, <2>1
  <1>7. Good(L)
    BY <1>1, <1>6
  <1> QED BY <1>3, <1>7, <1>a


-----------------------------------------------------------------------------
(* The type of a load *)

LoadPhases ==
  {"imports", "values", "decode", "targets", "attach", "rest", "plugins", "wire", "loaded",
   "refused"}
Frames == [file : DOMAIN source.files, next : Nat]
Written == UNION {ToSet(source.files[f]) : f \in DOMAIN source.files}
LayerFields == {"name", "refs", "base", "done"}

\* A file is read up to some item.
FrameFits(files, read, frame) ==
  frame.file \in read /\ frame.next \in 1 .. Len(files[frame.file]) + 1

LoadTypeOK ==
  /\ WellFormed(source) /\ phase \in LoadPhases
  /\ stack \in Seq(Frames) /\ seen \subseteq DOMAIN source.files
  /\ \A k \in DOMAIN stack : FrameFits(source.files, seen, stack[k])
  /\ blocks \in Seq(Written) /\ IsList(layers)
  /\ layer # None => DOMAIN layer = LayerFields
  /\ phase \notin {"values", "refused"} => layer = None
  /\ phase \notin {"imports", "refused"} => stack = <<>>

\* A list is one over any set that has its members.
LEMMA ListIs ==
  ASSUME NEW S, NEW list \in Seq(S)
  PROVE  IsList(list) /\ ToSet(list) \subseteq S
  <1>1. /\ Len(list) \in Nat /\ DOMAIN list = 1 .. Len(list)
        /\ \A i \in 1 .. Len(list) : list[i] \in S
    OBVIOUS
  <1>2. ToSet(list) \subseteq S /\ \A i \in 1 .. Len(list) : list[i] \in ToSet(list)
    BY <1>1 DEF ToSet
  <1>3. list \in [1 .. Len(list) -> ToSet(list)]
    BY <1>1, <1>2
  <1>4. list \in Seq(ToSet(list))
    BY <1>1, <1>3
  <1> QED BY <1>2, <1>4 DEF IsList

\* The files are lists of blocks.
LEMMA FilesAreLists ==
  ASSUME WellFormed(source), NEW f \in DOMAIN source.files
  PROVE  /\ Len(source.files[f]) \in Nat /\ DOMAIN source.files[f] = 1 .. Len(source.files[f])
         /\ IsList(source.files[f]) /\ ToSet(source.files[f]) \subseteq Written
         /\ \A i \in DOMAIN source.files[f] :
              source.files[f][i] \in ToSet(source.files[f]) /\ source.files[f][i] \in Written
  <1>1. IsList(source.files[f])
    BY DEF WellFormed
  <1>2. Len(source.files[f]) \in Nat /\ DOMAIN source.files[f] = 1 .. Len(source.files[f])
    BY <1>1 DEF IsList
  <1>3. ToSet(source.files[f]) \subseteq Written
    BY DEF Written
  <1>4. \A i \in DOMAIN source.files[f] : source.files[f][i] \in ToSet(source.files[f])
    BY DEF ToSet
  <1> QED BY <1>1, <1>2, <1>3, <1>4

\* The file on top, and its next item.
LEMMA TopIs ==
  ASSUME LoadTypeOK, Reading
  PROVE  /\ Len(stack) \in Nat /\ Len(stack) # 0 /\ DOMAIN stack = 1 .. Len(stack)
         /\ Last(stack) = stack[Len(stack)] /\ Len(stack) \in DOMAIN stack
         /\ Last(stack).file \in seen /\ Last(stack).file \in DOMAIN source.files
         /\ Last(stack).next \in 1 .. Len(source.files[Last(stack).file]) + 1
         /\ ~AtEnd => /\ Last(stack).next \in DOMAIN source.files[Last(stack).file]
                      /\ Item \in Written /\ Item \in ToSet(source.files[Last(stack).file])
  <1> DEFINE file == Last(stack).file
  <1>1. /\ Len(stack) \in Nat /\ Len(stack) # 0 /\ DOMAIN stack = 1 .. Len(stack)
        /\ Len(stack) \in DOMAIN stack
    BY DEF LoadTypeOK, Reading
  <1>2. Last(stack) = stack[Len(stack)]
    BY <1>1 DEF Last
  <1>3. /\ file \in seen /\ file \in DOMAIN source.files
        /\ Last(stack).next \in 1 .. Len(source.files[file]) + 1
    BY <1>1, <1>2 DEF LoadTypeOK, FrameFits
  <1>4. /\ Len(source.files[file]) \in Nat /\ DOMAIN source.files[file] = 1 .. Len(source.files[file])
        /\ \A i \in DOMAIN source.files[file] :
             source.files[file][i] \in ToSet(source.files[file]) /\ source.files[file][i] \in Written
    <2>1. WellFormed(source) /\ file \in DOMAIN source.files
      BY <1>3 DEF LoadTypeOK
    <2> HIDE DEF file
    <2> QED BY <2>1, FilesAreLists
  <1>5. ASSUME ~AtEnd
        PROVE  /\ Last(stack).next \in DOMAIN source.files[file]
               /\ Item \in Written /\ Item \in ToSet(source.files[file])
    <2>1. Last(stack).next \in DOMAIN source.files[file]
      BY <1>3, <1>4, <1>5 DEF AtEnd
    <2> QED BY <1>4, <2>1 DEF Item
  <1> QED BY <1>1, <1>2, <1>3, <1>5

\* Where the item that was looked at is behind.
LEMMA AdvancedIs ==
  ASSUME LoadTypeOK, Reading, ~AtEnd
  PROVE  /\ Advanced \in Seq(Frames) /\ Len(Advanced) = Len(stack)
         /\ DOMAIN Advanced = 1 .. Len(stack)
         /\ \A k \in 1 .. Len(stack) : Advanced[k].file = stack[k].file
         /\ \A k \in 1 .. Len(stack) : k # Len(stack) => Advanced[k].next = stack[k].next
         /\ Advanced[Len(stack)].next = stack[Len(stack)].next + 1
  <1>1. /\ Len(stack) \in Nat /\ Len(stack) # 0 /\ DOMAIN stack = 1 .. Len(stack)
        /\ stack \in Seq(Frames)
    BY TopIs DEF LoadTypeOK
  <1>2. \A k \in 1 .. Len(stack) : stack[k] \in Frames
    BY <1>1
  <1> QED BY <1>1, <1>2 DEF Advanced, Frames

\* A load that is refused keeps everything but its phase.
LEMMA RefusedTypes == ASSUME LoadTypeOK, Refuse PROVE LoadTypeOK'
  BY DEF LoadTypeOK, Refuse, LoadPhases, Frames, Written

\* What comes after the last item.
LEMMA FrameMoves ==
  ASSUME NEW files, NEW read, NEW a, FrameFits(files, read, a), NEW b, b.file = a.file,
         b.next = a.next + 1, a.next \in 1 .. Len(files[a.file]), Len(files[a.file]) \in Nat
  PROVE  FrameFits(files, read, b)
  BY DEF FrameFits

LEMMA FrameStays ==
  ASSUME NEW files, NEW read, NEW more, NEW a, FrameFits(files, read, a),
         NEW b, b.file = a.file, b.next = a.next
  PROVE  FrameFits(files, read \cup more, b)
  BY DEF FrameFits

\* One list more.
LEMMA AppendIs ==
  ASSUME NEW S, NEW list \in Seq(S), NEW x \in S
  PROVE  /\ Append(list, x) \in Seq(S) /\ Len(Append(list, x)) = Len(list) + 1
         /\ DOMAIN Append(list, x) = 1 .. Len(list) + 1
         /\ Append(list, x)[Len(list) + 1] = x
         /\ \A k \in 1 .. Len(list) : Append(list, x)[k] = list[k]
  OBVIOUS

\* Also where the next item of the file on top is behind, each file is read up to some
\* item.
LEMMA AdvancedFits ==
  ASSUME LoadTypeOK, Reading, ~AtEnd
  PROVE  \A k \in 1 .. Len(stack) : FrameFits(source.files, seen, Advanced[k])
  <1>1. /\ Advanced \in Seq(Frames) /\ Len(Advanced) = Len(stack)
        /\ DOMAIN Advanced = 1 .. Len(stack)
        /\ \A k \in 1 .. Len(stack) : Advanced[k].file = stack[k].file
        /\ \A k \in 1 .. Len(stack) : k # Len(stack) => Advanced[k].next = stack[k].next
        /\ Advanced[Len(stack)].next = stack[Len(stack)].next + 1
    BY AdvancedIs, Zenon
  <1>2. /\ DOMAIN stack = 1 .. Len(stack) /\ Last(stack) = stack[Len(stack)]
        /\ Len(stack) \in DOMAIN stack /\ Last(stack).file \in DOMAIN source.files
        /\ Last(stack).next \in DOMAIN source.files[Last(stack).file]
    BY TopIs, Zenon
  <1>3. /\ Len(source.files[Last(stack).file]) \in Nat
        /\ DOMAIN source.files[Last(stack).file] = 1 .. Len(source.files[Last(stack).file])
    BY <1>2, FilesAreLists DEF LoadTypeOK
  <1> HIDE DEF Advanced
  <1> SUFFICES ASSUME NEW k \in 1 .. Len(stack)
               PROVE  FrameFits(source.files, seen, Advanced[k])
    OBVIOUS
  <1>4. FrameFits(source.files, seen, stack[k])
    BY <1>2 DEF LoadTypeOK
  <1>5. CASE k # Len(stack)
    <2>1. Advanced[k].file = stack[k].file /\ Advanced[k].next = stack[k].next
      BY <1>1, <1>5, Zenon
    <2>2. FrameFits(source.files, seen \cup {}, Advanced[k])
      BY <1>4, <2>1, FrameStays, Zenon
    <2>3. seen \cup {} = seen
      OBVIOUS
    <2> QED BY <2>2, <2>3, Zenon
  <1>6. CASE k = Len(stack)
    <2>1. Advanced[k].file = stack[k].file /\ Advanced[k].next = stack[k].next + 1
      BY <1>1, <1>6, Zenon
    <2>2. stack[k].next \in 1 .. Len(source.files[stack[k].file])
      BY <1>2, <1>3, <1>6, Zenon
    <2>3. Len(source.files[stack[k].file]) \in Nat
      BY <1>2, <1>3, <1>6, Zenon
    <2> QED BY <1>4, <2>1, <2>2, <2>3, FrameMoves, Zenon
  <1> QED BY <1>5, <1>6

\* The next item of the file on top is behind.
LEMMA AdvancedTypes ==
  ASSUME LoadTypeOK, Reading, ~AtEnd, stack' = Advanced,
         blocks' \in Seq(Written), UNCHANGED <<source, phase, seen, layers, layer>>
  PROVE  LoadTypeOK'
  <1>1. Advanced \in Seq(Frames) /\ DOMAIN Advanced = 1 .. Len(stack)
    BY AdvancedIs, Zenon
  <1>2. \A k \in DOMAIN Advanced : FrameFits(source.files, seen, Advanced[k])
    BY <1>1, AdvancedFits, Zenon
  <1> HIDE DEF Advanced
  <1>5. phase = "imports"
    BY DEF Reading
  <1> QED BY <1>1, <1>2, <1>5 DEF LoadTypeOK, LoadPhases, Frames, Written

\* Reading a file, or a block of it, keeps the load well formed (importLoader.load,
\* mergeImportBlocks).
LEMMA ReadingTypes ==
  ASSUME LoadTypeOK, ImportRefused \/ ImportAgain \/ ImportFile \/ TakeBlock \/ EndFile
  PROVE  LoadTypeOK'
  <1>1. CASE ImportRefused
    BY <1>1, RefusedTypes DEF ImportRefused
  <1>2. CASE ImportAgain
    BY <1>2, AdvancedTypes DEF ImportAgain, LoadTypeOK
  <1>3. CASE ImportFile
    <2> DEFINE frame == [file |-> Item.file, next |-> 1]
    <2>1. /\ Reading /\ ~AtEnd /\ Item.file \in DOMAIN source.files
          /\ stack' = Append(Advanced, frame) /\ seen' = seen \cup {Item.file}
          /\ UNCHANGED <<source, phase, blocks, layers, layer, values, config>>
      BY <1>3 DEF ImportFile
    <2>2. /\ Advanced \in Seq(Frames) /\ Len(Advanced) = Len(stack)
          /\ \A k \in 1 .. Len(stack) : FrameFits(source.files, seen, Advanced[k])
      BY <2>1, AdvancedIs, AdvancedFits, Zenon
    <2>3. Len(stack) \in Nat
      BY <2>1, TopIs, Zenon
    <2>4. Len(source.files[Item.file]) \in Nat
      BY <2>1, FilesAreLists DEF LoadTypeOK
    <2>5. frame \in Frames /\ frame.file = Item.file /\ frame.next = 1
      BY <2>1 DEF Frames
    <2> HIDE DEF Advanced, frame
    <2>6. /\ stack' \in Seq(Frames) /\ DOMAIN stack' = 1 .. Len(stack) + 1
          /\ stack'[Len(stack) + 1] = frame
          /\ \A k \in 1 .. Len(stack) : stack'[k] = Advanced[k]
      <3>1. /\ Append(Advanced, frame) \in Seq(Frames)
            /\ DOMAIN Append(Advanced, frame) = 1 .. Len(Advanced) + 1
            /\ Append(Advanced, frame)[Len(Advanced) + 1] = frame
            /\ \A k \in 1 .. Len(Advanced) : Append(Advanced, frame)[k] = Advanced[k]
        <4>1. Advanced \in Seq(Frames) /\ frame \in Frames
          BY <2>2, <2>5
        <4> QED BY <4>1, AppendIs
      <3> QED BY <2>1, <2>2, <3>1, Zenon
    <2>7. ASSUME NEW k \in DOMAIN stack'
          PROVE  FrameFits(source.files, seen', stack'[k])
      <3>1. CASE k = Len(stack) + 1
        <4>1. FrameFits(source.files, seen', frame)
          BY <2>1, <2>4, <2>5 DEF FrameFits
        <4> QED BY <2>6, <3>1, <4>1, Zenon
      <3>2. CASE k # Len(stack) + 1
        <4>1. k \in 1 .. Len(stack)
          BY <2>3, <2>6, <3>2
        <4>2. FrameFits(source.files, seen, Advanced[k])
          BY <2>2, <4>1, Zenon
        <4>3. FrameFits(source.files, seen \cup {Item.file}, Advanced[k])
          BY <4>2, FrameStays, Zenon
        <4> QED BY <2>1, <2>6, <4>1, <4>3, Zenon
      <3> QED BY <3>1, <3>2
    <2>8. phase = "imports"
      BY <2>1 DEF Reading
    <2>9. seen' \subseteq DOMAIN source.files
      BY <2>1 DEF LoadTypeOK
    <2> QED BY <2>1, <2>6, <2>7, <2>8, <2>9 DEF LoadTypeOK, LoadPhases, Frames, Written
  <1>4. CASE TakeBlock
    <2>1. /\ Reading /\ ~AtEnd /\ stack' = Advanced /\ blocks' = Append(blocks, Item)
          /\ UNCHANGED <<source, phase, seen, layers, layer>>
      BY <1>4 DEF TakeBlock
    <2>2. Item \in Written
      BY <2>1, TopIs
    <2>3. blocks' \in Seq(Written)
      BY <2>1, <2>2 DEF LoadTypeOK
    <2> QED BY <2>1, <2>3, AdvancedTypes
  <1>5. CASE EndFile
    <2>1. /\ Reading /\ stack' = Front(stack)
          /\ UNCHANGED <<source, seen, blocks, layer, values, config>>
      BY <1>5 DEF EndFile
    <2>2. /\ Len(stack) \in Nat /\ Len(stack) # 0 /\ DOMAIN stack = 1 .. Len(stack)
          /\ stack \in Seq(Frames) /\ phase = "imports"
      BY <2>1, TopIs DEF LoadTypeOK, Reading
    <2>3. /\ stack' \in Seq(Frames) /\ Len(stack') = Len(stack) - 1
          /\ \A k \in 1 .. Len(stack) - 1 : stack'[k] = stack[k]
      BY <2>1, <2>2 DEF Front
    <2>4. \A k \in DOMAIN stack' : FrameFits(source.files, seen, stack'[k])
      BY <2>2, <2>3 DEF LoadTypeOK
    <2>5. CASE Len(stack) = 1
      <3>1. phase' = "values" /\ layers' = <<<<"variables">>, <<"project">>>> \o
                                   [i \in DOMAIN source.profiles |->
                                      <<"profile", source.profiles[i]>>]
        BY <1>5, <2>5 DEF EndFile
      <3>2. Len(source.profiles) \in Nat /\ DOMAIN source.profiles = 1 .. Len(source.profiles)
        BY DEF LoadTypeOK, WellFormed, IsList
      <3> DEFINE S == {<<"variables">>, <<"project">>} \cup
                      {<<"profile", source.profiles[i]>> : i \in DOMAIN source.profiles}
                 profiles == [i \in DOMAIN source.profiles |-> <<"profile", source.profiles[i]>>]
      <3>3. profiles \in Seq(S)
        <4>1. profiles \in [1 .. Len(source.profiles) -> S]
          BY <3>2
        <4> QED BY <3>2, <4>1
      <3>4. <<<<"variables">>, <<"project">>>> \in Seq(S)
        OBVIOUS
      <3>5. layers' \in Seq(S)
        <4> HIDE DEF S, profiles
        <4>1. <<<<"variables">>, <<"project">>>> \o profiles \in Seq(S)
          BY <3>3, <3>4
        <4> QED BY <3>1, <4>1 DEF profiles
      <3>6. IsList(layers')
        BY <3>5, ListIs
      <3>7. stack' = <<>>
        BY <2>3, <2>5
      <3> QED BY <2>1, <2>2, <2>3, <2>4, <3>1, <3>6, <3>7
           DEF LoadTypeOK, LoadPhases, Frames, Written, IsList
    <2>6. CASE Len(stack) # 1
      <3>1. UNCHANGED <<phase, layers>>
        BY <1>5, <2>6 DEF EndFile
      <3> QED BY <2>1, <2>2, <2>3, <2>4, <3>1 DEF LoadTypeOK, LoadPhases, Frames, Written, IsList
    <2> QED BY <2>5, <2>6
  <1> QED BY <1>1, <1>2, <1>3, <1>4, <1>5

\* Opening, resolving and closing a layer keep the load well formed (resolveEnvBlocks,
\* resolveVariables).
LEMMA ValueTypes ==
  ASSUME LoadTypeOK, OpenLayer \/ ResolveName \/ CloseLayer
  PROVE  LoadTypeOK'
  <1> USE DEF LoadPhases, Frames, Written
  <1>1. CASE OpenLayer
    <2>1. CASE Fits(Head(layers))
      <3> DEFINE l == [name |-> Head(layers),
                       refs |-> Declared(Entries(Head(layers)), Kind(Head(layers))),
                       base |-> Base(Head(layers)), done |-> <<>>]
      <3>1. /\ phase = "values" /\ layers # <<>> /\ layer' = l /\ layers' = Tail(layers)
            /\ UNCHANGED <<source, phase, stack, seen, blocks, values, config>>
        BY <1>1, <2>1 DEF OpenLayer
      <3>2. DOMAIN l = LayerFields
        BY DEF LayerFields
      <3> HIDE DEF l
      <3>3. IsList(layers')
        <4>1. layers \in Seq(ToSet(layers))
          BY DEF LoadTypeOK, IsList
        <4>2. layers' \in Seq(ToSet(layers))
          BY <3>1, <4>1
        <4> QED BY <4>2, ListIs
      <3> QED BY <3>1, <3>2, <3>3 DEF LoadTypeOK
    <2>2. CASE ~Fits(Head(layers))
      BY <1>1, <2>2, RefusedTypes DEF OpenLayer
    <2> QED BY <2>1, <2>2
  <1>2. CASE ResolveName
    <2>1. /\ phase = "values" /\ layer # None
          /\ UNCHANGED <<source, phase, stack, seen, blocks, layers, values, config>>
          /\ \E done : layer' = [layer EXCEPT !.done = done]
      BY <1>2 DEF ResolveName
    <2>2. DOMAIN layer' = LayerFields
      BY <2>1 DEF LoadTypeOK
    <2> QED BY <2>1, <2>2 DEF LoadTypeOK, IsList
  <1>3. CASE CloseLayer
    <2>1. CASE Unresolved = {}
      <3>1. /\ phase = "values" /\ layer' = None
            /\ phase' \in {"values", "attach", "decode"}
            /\ UNCHANGED <<source, stack, seen, blocks, layers, config>>
        BY <1>3, <2>1 DEF CloseLayer
      <3> QED BY <3>1 DEF LoadTypeOK, IsList
    <2>2. CASE Unresolved # {}
      BY <1>3, <2>2, RefusedTypes DEF CloseLayer
    <2> QED BY <2>1, <2>2
  <1> QED BY <1>1, <1>2, <1>3

\* Registering keeps the load well formed (loadWithOptions).
LEMMA RegisterTypes ==
  ASSUME LoadTypeOK,
         \/ RegisterPrimitives \/ RegisterTargets \/ AttachAgents \/ RegisterRest
         \/ RunPlugins \/ WireProducedInputs
  PROVE  LoadTypeOK'
  <1> USE DEF LoadPhases, Frames, Written
  <1>1. ASSUME NEW from \in {"decode", "attach", "rest", "plugins", "wire"}, NEW fits,
               NEW to \in {"targets", "rest", "plugins", "wire", "loaded"}, NEW project,
               Register(from, fits, to, project)
        PROVE  LoadTypeOK'
    <2>1. CASE fits
      <3>1. /\ phase = from /\ phase' = to
            /\ UNCHANGED <<source, stack, seen, blocks, layers, layer, values>>
        BY <1>1, <2>1 DEF Register
      <3> QED BY <3>1 DEF LoadTypeOK, IsList
    <2>2. CASE ~fits
      BY <1>1, <2>2, RefusedTypes DEF Register
    <2> QED BY <2>1, <2>2
  <1>2. CASE RegisterTargets
    <2>1. CASE Refuse
      BY <2>1, RefusedTypes
    <2>2. CASE ~Refuse
      <3>1. /\ phase = "targets" /\ phase' \in {"attach", "values"}
            /\ layers' = [i \in DOMAIN WithEnv |-> <<"target", WithEnv[i].name>>]
            /\ UNCHANGED <<source, stack, seen, blocks, layer, values>>
        BY <1>2, <2>2 DEF RegisterTargets
      <3>2. Len(WithEnv) \in Nat /\ DOMAIN WithEnv = 1 .. Len(WithEnv)
        <4>1. IsList(blocks)
          BY ListIs DEF LoadTypeOK
        <4>2. WithEnv \in Seq(ToSet(blocks))
          BY <4>1, KindsInIs DEF WithEnv, OfKinds
        <4> QED BY <4>2
      <3> DEFINE S == {<<"target", WithEnv[i].name>> : i \in DOMAIN WithEnv}
      <3>3. layers' \in Seq(S)
        <4>1. layers' \in [1 .. Len(WithEnv) -> S]
          BY <3>1, <3>2
        <4> QED BY <3>2, <4>1
      <3>4. IsList(layers')
        BY <3>3, ListIs
      <3> QED BY <3>1, <3>4 DEF LoadTypeOK
    <2> QED BY <2>1, <2>2
  <1>3. CASE RegisterPrimitives
    BY <1>1, <1>3 DEF RegisterPrimitives
  <1>4. CASE AttachAgents
    BY <1>1, <1>4 DEF AttachAgents
  <1>5. CASE RegisterRest
    BY <1>1, <1>5 DEF RegisterRest
  <1>6. CASE RunPlugins
    BY <1>1, <1>6 DEF RunPlugins
  <1>7. CASE WireProducedInputs
    BY <1>1, <1>7 DEF WireProducedInputs
  <1> QED BY <1>2, <1>3, <1>4, <1>5, <1>6, <1>7

\* A load starts well formed.
LEMMA StartTypes == ASSUME LoadInit, WellFormed(source) PROVE LoadTypeOK
  <1>1. Root \in DOMAIN source.files
    BY DEF WellFormed
  <1> DEFINE frame == [file |-> Root, next |-> 1]
  <1>2. Len(source.files[Root]) \in Nat
    BY <1>1, FilesAreLists
  <1>3. frame \in Frames /\ FrameFits(source.files, {Root}, frame)
    BY <1>1, <1>2 DEF Frames, FrameFits
  <1> HIDE DEF frame
  <1>4. stack = <<frame>> /\ seen = {Root}
    BY DEF LoadInit, frame
  <1>5. stack \in Seq(Frames) /\ \A k \in DOMAIN stack : stack[k] = frame
    BY <1>3, <1>4
  <1>6. blocks \in Seq(Written) /\ IsList(layers)
    <2>1. blocks = <<>> /\ layers = <<>> /\ <<>> \in Seq(Written)
      BY DEF LoadInit
    <2>2. IsList(<<>>)
      BY <2>1, ListIs
    <2> QED BY <2>1, <2>2
  <1> QED BY <1>1, <1>3, <1>4, <1>5, <1>6 DEF LoadInit, LoadTypeOK, LoadPhases

\* A load stays well formed: what it reads, resolves and registers, whatever the source
\* (loadWithOptions).
THEOREM LoadTypes == LoadSpec => []LoadTypeOK
  <1>1. LoadInit /\ WellFormed(source) => LoadTypeOK
    BY StartTypes
  <1>2. LoadTypeOK /\ [LoadNext]_loadVars => LoadTypeOK'
    <2> SUFFICES ASSUME LoadTypeOK, [LoadNext]_loadVars PROVE LoadTypeOK'
      OBVIOUS
    <2>1. CASE UNCHANGED loadVars
      BY <2>1 DEF LoadTypeOK, loadVars, LoadPhases, Frames, Written, IsList
    <2>2. CASE LoadNext
      BY <2>2, ReadingTypes, ValueTypes, RegisterTypes DEF LoadNext
    <2> QED BY <2>1, <2>2
  <1> QED BY <1>1, <1>2, PTL DEF LoadSpec

-----------------------------------------------------------------------------
(* A loaded project is closed *)

\* The blocks that declare targets have what a target is made of.
LEMMA TargetBlocks ==
  ASSUME LoadTypeOK
  PROVE  /\ \A b \in ToSet(OfKinds(TargetKinds)) :
              b.kind \in TargetKinds /\ TargetFields \subseteq DOMAIN b
         /\ \A kind : \A b \in ToSet(OfKind(kind)) : b.kind = kind /\ b \in Written
  <1>1. IsList(blocks) /\ ToSet(blocks) \subseteq Written
    BY ListIs DEF LoadTypeOK
  <1>2. \A kinds : ToSet(KindsIn(blocks, kinds)) = {b \in ToSet(blocks) : b.kind \in kinds}
    BY <1>1, KindsInIs
  <1>3. \A b \in Written : b.kind \in TargetKinds => TargetFields \subseteq DOMAIN b
    BY DEF LoadTypeOK, WellFormed, Written
  <1> QED BY <1>1, <1>2, <1>3 DEF OfKinds, OfKind

\* A block of a list by its name.
LEMMA ByNameIs ==
  ASSUME NEW list, NEW n \in NamesOf(list)
  PROVE  ByName(list)[n] \in ToSet(list) /\ ByName(list)[n].name = n
  <1>1. \E i \in DOMAIN list : list[i].name = n
    BY DEF NamesOf, ToSet
  <1> DEFINE i == CHOOSE i \in DOMAIN list : list[i].name = n
  <1>2. i \in DOMAIN list /\ list[i].name = n
    BY <1>1, Zenon
  <1>3. ByName(list)[n] = list[i]
    BY DEF ByName
  <1> HIDE DEF i
  <1> QED BY <1>2, <1>3 DEF ToSet

\* What the policies, the aliases and the factories say.
PolicyWritten(policy) ==
  ~policy.literal => ToSet(policy.required) \subseteq NamesOf(OfKinds(TargetKinds))
PrimitivesRead ==
  /\ DOMAIN config = DOMAIN EmptyProject
  /\ \A k \in DOMAIN config.policies : PolicyWritten(config.policies[k])
  /\ \A f \in DOMAIN config.factories : config.factories[f] \in ToSet(OfKind("factory"))

\* The targets are those of the blocks.
TargetsRead ==
  /\ DOMAIN Targets = NamesOf(OfKinds(TargetKinds))
  /\ \A n \in DOMAIN Targets : TargetFields \subseteq DOMAIN Targets[n]

\* A layer of a target is there, or its turn.
AtTargets ==
  \/ \E i \in DOMAIN layers : layers[i][1] = "target"
  \/ layer # None /\ layer.name[1] = "target"

AgentsAttached ==
  /\ \A a \in Agents : Targets[a].policy # None =>
       LET policy == config.policies[<<Targets[a].policy>>] IN
       /\ \A r \in ToSet(policy.reviewers) : r \in Agents /\ Targets[r].mode = "review"
       /\ ~policy.literal => ToSet(policy.required) \subseteq DOMAIN Targets
  /\ \A a \in Agents : Targets[a].mode = "merge" =>
       /\ Targets[a].subject \in Agents
       /\ Targets[Targets[a].subject].policy # None

RestRegistered ==
  /\ \A n \in DOMAIN config.aliases : config.aliases[n].target \in DOMAIN Targets
  /\ \A f \in DOMAIN config.factories : \A w \in ToSet(config.factories[f].workflows) :
       \A p \in ToSet(w.deploy \o w.verify) : p.target \in DOMAIN Targets

Wires == \A n \in DOMAIN Targets : References(n) \subseteq DOMAIN Targets

\* What the load has read and checked, by how far it has come.
LoadInv ==
  /\ phase \in {"targets", "attach", "rest", "plugins", "wire", "loaded"} => PrimitivesRead
  /\ phase = "values" /\ AtTargets => PrimitivesRead /\ TargetsRead /\ config.aliases = <<>>
  /\ phase = "targets" => config.aliases = <<>>
  /\ phase \in {"attach", "rest", "plugins", "wire", "loaded"} => TargetsRead
  /\ phase \in {"attach", "rest"} => config.aliases = <<>>
  /\ phase \in {"rest", "plugins", "wire", "loaded"} => AgentsAttached
  /\ phase \in {"plugins", "wire", "loaded"} => RestRegistered
  /\ phase = "loaded" => Wires

\* That is what the property asks for.
LEMMA LoadedByInv == LoadInv => LoadedIsClosed
  BY DEF LoadInv, LoadedIsClosed, Loaded, AgentsAttached, RestRegistered, Wires

\* What was read stays as it is while the values are resolved.
LEMMA InvIsKept ==
  ASSUME LoadInv, UNCHANGED <<blocks, config>>, phase = "values", phase' \in {"values", "attach", "decode"},
         phase' # "decode" /\ (phase' = "values" => AtTargets') => AtTargets
  PROVE  LoadInv'
  BY DEF LoadInv, PrimitivesRead, PolicyWritten, TargetsRead, Targets, OfKinds, OfKind

\* A load that is refused, or that still reads, promises nothing.
LEMMA NothingYet ==
  ASSUME phase' \in {"imports", "refused", "decode"} PROVE LoadInv'
  BY DEF LoadInv

\* Files are read before anything is registered (loadBachfile).
LEMMA ReadingInv ==
  ASSUME LoadTypeOK, ImportRefused \/ ImportAgain \/ ImportFile \/ TakeBlock \/ EndFile
  PROVE  LoadInv'
  <1>1. phase = "imports" /\ layer = None
    BY DEF ImportRefused, ImportAgain, ImportFile, TakeBlock, EndFile, Reading, LoadTypeOK
  <1>2. CASE ImportRefused
    BY <1>2, NothingYet DEF ImportRefused, Refuse
  <1>3. CASE ImportAgain \/ ImportFile \/ TakeBlock
    BY <1>1, <1>3, NothingYet DEF ImportAgain, ImportFile, TakeBlock
  <1>4. CASE EndFile
    <2>1. CASE Len(stack) = 1
      <3>1. phase' = "values" /\ layers' = <<<<"variables">>, <<"project">>>> \o
                                   [i \in DOMAIN source.profiles |->
                                      <<"profile", source.profiles[i]>>]
            /\ layer' = None
        BY <1>1, <1>4, <2>1 DEF EndFile
      <3>2. Len(source.profiles) \in Nat /\ DOMAIN source.profiles = 1 .. Len(source.profiles)
        BY DEF LoadTypeOK, WellFormed, IsList
      <3> DEFINE first == <<<<"variables">>, <<"project">>>>
                 profiles == [i \in DOMAIN source.profiles |-> <<"profile", source.profiles[i]>>]
      <3>3. profiles \in Seq({<<"profile", source.profiles[i]>> : i \in DOMAIN source.profiles})
        BY <3>2
      <3>4. \A i \in DOMAIN first : first[i][1] # "target"
        OBVIOUS
      <3>5. \A i \in DOMAIN profiles : profiles[i][1] # "target"
        OBVIOUS
      <3>6. first \in Seq({<<"variables">>, <<"project">>})
        OBVIOUS
      <3> HIDE DEF first, profiles
      <3>7. \A i \in DOMAIN (first \o profiles) :
              \/ \E j \in DOMAIN first : (first \o profiles)[i] = first[j]
              \/ \E j \in DOMAIN profiles : (first \o profiles)[i] = profiles[j]
        BY <3>3, <3>6
      <3>8. \A i \in DOMAIN (first \o profiles) : (first \o profiles)[i][1] # "target"
        BY <3>4, <3>5, <3>7
      <3>9. ~AtTargets'
        BY <3>1, <3>8 DEF AtTargets, first, profiles
      <3> QED BY <3>1, <3>9 DEF LoadInv
    <2>2. CASE Len(stack) # 1
      BY <1>1, <1>4, <2>2, NothingYet DEF EndFile
    <2> QED BY <2>1, <2>2
  <1> QED BY <1>2, <1>3, <1>4

\* Resolving values changes nothing that was registered (resolveTargetEnv).
LEMMA ValuesInv ==
  ASSUME LoadTypeOK, LoadInv, OpenLayer \/ ResolveName \/ CloseLayer
  PROVE  LoadInv'
  <1>1. CASE OpenLayer
    <2>1. CASE Fits(Head(layers))
      <3>1. /\ phase = "values" /\ layers # <<>> /\ phase' = phase /\ layers' = Tail(layers)
            /\ UNCHANGED <<blocks, config>> /\ layer'.name = Head(layers)
        BY <1>1, <2>1 DEF OpenLayer
      <3>2. layers \in Seq(ToSet(layers))
        BY DEF LoadTypeOK, IsList
      <3>3. AtTargets' => AtTargets
        <4>1. /\ 1 \in DOMAIN layers /\ Head(layers) = layers[1]
              /\ \A i \in DOMAIN layers' : i + 1 \in DOMAIN layers /\ layers'[i] = layers[i + 1]
          BY <3>1, <3>2
        <4> QED BY <3>1, <4>1 DEF AtTargets
      <3> QED BY <3>1, <3>3, InvIsKept
    <2>2. CASE ~Fits(Head(layers))
      BY <1>1, <2>2, NothingYet DEF OpenLayer, Refuse
    <2> QED BY <2>1, <2>2
  <1>2. CASE ResolveName
    <2>1. /\ phase = "values" /\ phase' = phase /\ layer # None /\ UNCHANGED <<blocks, config, layers>>
          /\ \E done : layer' = [layer EXCEPT !.done = done]
      BY <1>2 DEF ResolveName
    <2>2. layer'.name = layer.name
      BY <2>1 DEF LoadTypeOK, LayerFields
    <2>3. AtTargets' => AtTargets
      BY <2>1, <2>2 DEF AtTargets
    <2> QED BY <2>1, <2>3, InvIsKept
  <1>3. CASE CloseLayer
    <2>1. CASE Unresolved = {}
      <3>1. /\ phase = "values" /\ layer # None /\ layer' = None
            /\ phase' = IF layers # <<>> THEN "values"
                        ELSE IF layer.name[1] = "target" THEN "attach" ELSE "decode"
            /\ UNCHANGED <<blocks, layers, config>>
        BY <1>3, <2>1 DEF CloseLayer
      <3>2. CASE phase' = "decode"
        BY <3>2, NothingYet
      <3>3. CASE phase' # "decode"
        <4>1. phase' \in {"values", "attach"} /\ (phase' = "attach" => AtTargets)
          BY <3>1, <3>3 DEF AtTargets
        <4>2. phase' = "values" /\ AtTargets' => AtTargets
          BY <3>1 DEF AtTargets
        <4> QED BY <3>1, <4>1, <4>2, InvIsKept
      <3> QED BY <3>2, <3>3
    <2>2. CASE Unresolved # {}
      BY <1>3, <2>2, NothingYet DEF CloseLayer, Refuse
    <2> QED BY <2>1, <2>2
  <1> QED BY <1>1, <1>2, <1>3

\* What a policy of a project says is what some block says.
LEMMA PoliciesAreRead ==
  ASSUME NEW k \in DOMAIN ReadPrimitives.policies
  PROVE  ReadPrimitives.policies[k] \in ToSet(OfKind("policy"))
  <1> DEFINE list == OfKind("policy")
  <1>1. ReadPrimitives.policies = [k_1 \in {PolicyKey(p) : p \in ToSet(list)} |->
                                     CHOOSE p \in ToSet(list) : PolicyKey(p) = k_1]
    BY DEF ReadPrimitives, EmptyProject
  <1> HIDE DEF list
  <1>2. k \in {PolicyKey(p) : p \in ToSet(list)}
    BY <1>1
  <1>3. \E p \in ToSet(list) : PolicyKey(p) = k
    BY <1>2
  <1>4. (CHOOSE p \in ToSet(list) : PolicyKey(p) = k) \in ToSet(list)
    BY <1>3, Zenon
  <1> QED BY <1>1, <1>2, <1>4 DEF list

\* The rest of what is read first.
LEMMA PrimitivesAre ==
  /\ DOMAIN ReadPrimitives = DOMAIN EmptyProject /\ ReadPrimitives.aliases = <<>>
  /\ ReadPrimitives.factories = ByName(OfKind("factory"))
  BY DEF ReadPrimitives, EmptyProject

\* The primitives are read from blocks that fit (registerPolicies, registerFactories).
LEMMA PrimitivesInv ==
  ASSUME LoadTypeOK, LoadInv, RegisterPrimitives
  PROVE  LoadInv'
  <1>1. CASE Refuse
    BY <1>1, NothingYet DEF Refuse
  <1>2. CASE ~Refuse
    <2>1. /\ phase' = "targets" /\ config' = ReadPrimitives /\ UNCHANGED <<source, blocks>>
          /\ \A p \in ToSet(OfKind("policy")) : Decoded(p, p.required \o p.reviewers)
      BY <1>2, Zenon DEF RegisterPrimitives, Register
    <2>2. ASSUME NEW p \in ToSet(OfKind("policy")) PROVE PolicyWritten(p)
      <3>1. p.kind = "policy" /\ p \in Written
        BY TargetBlocks
      <3>2. IsList(p.required) /\ IsList(p.reviewers)
        BY <3>1 DEF LoadTypeOK, WellFormed, Written
      <3>3. Decoded(p, p.required \o p.reviewers)
        BY <2>1
      <3>4. ToSet(p.required) \subseteq ToSet(p.required \o p.reviewers)
        <4> DEFINE a == p.required
                   b == p.reviewers
        <4>1. a \in Seq(ToSet(a)) /\ b \in Seq(ToSet(b))
          BY <3>2 DEF IsList
        <4> HIDE DEF a, b
        <4>2. \A i \in DOMAIN a : i \in DOMAIN (a \o b) /\ (a \o b)[i] = a[i]
          BY <4>1
        <4>3. ToSet(a) \subseteq ToSet(a \o b)
          BY <4>2 DEF ToSet
        <4> QED BY <4>3 DEF a, b
      <3> QED BY <3>3, <3>4 DEF Decoded, PolicyWritten
    <2>3. \A k \in DOMAIN ReadPrimitives.policies : PolicyWritten(ReadPrimitives.policies[k])
      BY <2>2, PoliciesAreRead
    <2>4. \A f \in DOMAIN ReadPrimitives.factories :
            ReadPrimitives.factories[f] \in ToSet(OfKind("factory"))
      <3>1. DOMAIN ByName(OfKind("factory")) = NamesOf(OfKind("factory"))
        BY DEF ByName
      <3> QED BY <3>1, PrimitivesAre, ByNameIs
    <2>5. PrimitivesRead'
      BY <2>1, <2>3, <2>4, PrimitivesAre DEF PrimitivesRead, PolicyWritten, OfKind, OfKinds
    <2>6. config'.aliases = <<>>
      BY <2>1, PrimitivesAre
    <2> QED BY <2>1, <2>5, <2>6 DEF LoadInv
  <1> QED BY <1>1, <1>2

\* What a target has, whatever its template gives it.
LEMMA ResolvedFields ==
  ASSUME NEW b, TargetFields \subseteq DOMAIN b
  PROVE  TargetFields \subseteq DOMAIN Resolved(b)
  <1>1. DOMAIN Applied(b) = DOMAIN b
    BY DEF Applied
  <1>2. DOMAIN Settled(Applied(b)) = DOMAIN Applied(b)
    BY DEF Settled
  <1> QED BY <1>1, <1>2 DEF Resolved

\* The targets are those of the blocks (registerTargets).
LEMMA TargetsInv ==
  ASSUME LoadTypeOK, LoadInv, RegisterTargets
  PROVE  LoadInv'
  <1>1. CASE Refuse
    BY <1>1, NothingYet DEF Refuse
  <1>2. CASE ~Refuse
    <2> DEFINE list == OfKinds(TargetKinds)
               targets == [n \in NamesOf(list) |-> Resolved(ByName(list)[n])]
    <2>1. /\ phase = "targets" /\ phase' \in {"attach", "values"} /\ UNCHANGED <<source, blocks>>
          /\ config' = [config EXCEPT !.targets = targets]
      BY <1>2 DEF RegisterTargets
    <2>2. \A n \in NamesOf(list) : TargetFields \subseteq DOMAIN targets[n]
      <3> SUFFICES ASSUME NEW n \in NamesOf(list) PROVE TargetFields \subseteq DOMAIN targets[n]
        OBVIOUS
      <3>1. TargetFields \subseteq DOMAIN ByName(list)[n]
        BY ByNameIs, TargetBlocks
      <3>2. targets[n] = Resolved(ByName(list)[n])
        OBVIOUS
      <3> HIDE DEF targets
      <3> QED BY <3>1, <3>2, ResolvedFields
    <2>3. DOMAIN targets = NamesOf(list)
      OBVIOUS
    <2> HIDE DEF targets
    <2>4. PrimitivesRead /\ config.aliases = <<>>
      BY <2>1 DEF LoadInv
    <2>5. DOMAIN config = DOMAIN EmptyProject
      BY <2>4 DEF PrimitivesRead
    <2>6. /\ config'.targets = targets /\ config'.policies = config.policies
          /\ config'.factories = config.factories /\ config'.aliases = config.aliases
          /\ DOMAIN config' = DOMAIN config
      BY <2>1, <2>5 DEF EmptyProject
    <2>7. PrimitivesRead' /\ config'.aliases = <<>>
      BY <2>1, <2>4, <2>6 DEF PrimitivesRead, PolicyWritten, OfKind, OfKinds
    <2>8. TargetsRead'
      BY <2>1, <2>2, <2>3, <2>6 DEF TargetsRead, Targets, OfKinds
    <2> QED BY <2>1, <2>7, <2>8 DEF LoadInv
  <1> QED BY <1>1, <1>2

\* The agents have what they are attached to (attachAgentPolicies,
\* attachMergeSubjects).
LEMMA AttachInv ==
  ASSUME LoadTypeOK, LoadInv, AttachAgents
  PROVE  LoadInv'
  <1>1. CASE Refuse
    BY <1>1, NothingYet DEF Refuse
  <1>2. CASE ~Refuse
    <2>1. /\ phase = "attach" /\ phase' = "rest" /\ config' = config /\ UNCHANGED <<source, blocks>>
          /\ \A a \in Agents : Targets[a].policy # None =>
               /\ <<Targets[a].policy>> \in DOMAIN config.policies
               /\ ReviewedByReviewers(config.policies[<<Targets[a].policy>>])
          /\ \A a \in Agents : Targets[a].mode = "merge" =>
               /\ Targets[a].subject \in DOMAIN Targets
               /\ ModeOf(Targets[a].subject) = "implement"
               /\ Targets[Targets[a].subject].policy # None
      BY <1>2, Zenon DEF AttachAgents, Register
    <2>2. PrimitivesRead /\ TargetsRead /\ config.aliases = <<>>
      BY <2>1 DEF LoadInv
    <2>3. \A n \in DOMAIN Targets : ModeOf(n) \in Modes => n \in Agents /\ Targets[n].mode = ModeOf(n)
      BY ConfigAssumption DEF ModeOf, Agents
    <2>4. "review" \in Modes /\ "implement" \in Modes
      BY DEF Modes
    <2>5. ASSUME NEW a \in Agents, Targets[a].policy # None
          PROVE  LET policy == config.policies[<<Targets[a].policy>>] IN
                 /\ \A r \in ToSet(policy.reviewers) : r \in Agents /\ Targets[r].mode = "review"
                 /\ ~policy.literal => ToSet(policy.required) \subseteq DOMAIN Targets
      <3> DEFINE policy == config.policies[<<Targets[a].policy>>]
      <3>1. <<Targets[a].policy>> \in DOMAIN config.policies /\ ReviewedByReviewers(policy)
        BY <2>1, <2>5
      <3>2. PolicyWritten(policy)
        BY <2>2, <3>1 DEF PrimitivesRead
      <3> HIDE DEF policy
      <3>3. \A r \in ToSet(policy.reviewers) : r \in Agents /\ Targets[r].mode = "review"
        BY <2>3, <2>4, <3>1 DEF ReviewedByReviewers
      <3>4. ~policy.literal => ToSet(policy.required) \subseteq DOMAIN Targets
        BY <2>2, <3>2 DEF PolicyWritten, TargetsRead
      <3> QED BY <3>3, <3>4 DEF policy
    <2>6. ASSUME NEW a \in Agents, Targets[a].mode = "merge"
          PROVE  /\ Targets[a].subject \in Agents
                 /\ Targets[Targets[a].subject].policy # None
      BY <2>1, <2>3, <2>4, <2>6
    <2>7. AgentsAttached
      BY <2>5, <2>6 DEF AgentsAttached
    <2>8. PrimitivesRead' /\ TargetsRead' /\ AgentsAttached' /\ config'.aliases = <<>>
      BY <2>1, <2>2, <2>7
         DEF PrimitivesRead, PolicyWritten, OfKind, OfKinds, TargetsRead, Targets, AgentsAttached, Agents
    <2> QED BY <2>1, <2>8 DEF LoadInv
  <1> QED BY <1>1, <1>2

\* The aliases and the workflows lead to targets (registerAliases,
\* validateFactoryWorkflowReferences).
LEMMA RestInv ==
  ASSUME LoadTypeOK, LoadInv, RegisterRest
  PROVE  LoadInv'
  <1>1. CASE Refuse
    BY <1>1, NothingYet DEF Refuse
  <1>2. CASE ~Refuse
    <2>1. /\ phase = "rest" /\ phase' = "plugins" /\ UNCHANGED <<source, blocks>>
          /\ config' = [config EXCEPT !.plugins = ByName(OfKind("plugin")),
                                      !.aliases = ByName(OfKind("alias"))]
          /\ \A f \in ToSet(OfKind("factory")) : \A w \in ToSet(f.workflows) : WorkflowKnown(w)
          /\ \A a \in ToSet(OfKind("alias")) : ValidAlias(a)
      BY <1>2, Zenon DEF RegisterRest, Register
    <2>2. PrimitivesRead /\ TargetsRead /\ AgentsAttached /\ config.aliases = <<>>
      BY <2>1 DEF LoadInv
    <2>3. DOMAIN config = DOMAIN EmptyProject
      BY <2>2 DEF PrimitivesRead
    <2>4. /\ config'.targets = config.targets /\ config'.policies = config.policies
          /\ config'.factories = config.factories /\ config'.aliases = ByName(OfKind("alias"))
          /\ DOMAIN config' = DOMAIN config
      <3> DEFINE plugins == ByName(OfKind("plugin"))
                 aliases == ByName(OfKind("alias"))
      <3>1. config' = [config EXCEPT !.plugins = plugins, !.aliases = aliases]
        BY <2>1
      <3> HIDE DEF plugins, aliases
      <3>2. /\ config'.targets = config.targets /\ config'.policies = config.policies
            /\ config'.factories = config.factories /\ config'.aliases = aliases
            /\ DOMAIN config' = DOMAIN config
        BY <2>3, <3>1 DEF EmptyProject
      <3> QED BY <3>2 DEF aliases
    <2>5. \A n \in DOMAIN ByName(OfKind("alias")) :
            ByName(OfKind("alias"))[n].target \in DOMAIN Targets
      <3>1. DOMAIN ByName(OfKind("alias")) = NamesOf(OfKind("alias"))
        BY DEF ByName
      <3>2. \A a \in ToSet(OfKind("alias")) : a.target \in DOMAIN Targets
        BY <2>1 DEF ValidAlias
      <3> QED BY <3>1, <3>2, ByNameIs
    <2>6. \A f \in DOMAIN config.factories : \A w \in ToSet(config.factories[f].workflows) :
            \A p \in ToSet(w.deploy \o w.verify) : p.target \in DOMAIN Targets
      <3>1. \A name : KnownTarget(name) => name \in DOMAIN Targets
        <4>1. DOMAIN config.aliases = {}
          BY <2>2
        <4> QED BY <4>1 DEF KnownTarget, ResolveTargetName
      <3>2. \A f \in DOMAIN config.factories : config.factories[f] \in ToSet(OfKind("factory"))
        BY <2>2 DEF PrimitivesRead
      <3> QED BY <2>1, <3>1, <3>2 DEF WorkflowKnown
    <2>7. RestRegistered'
      BY <2>4, <2>5, <2>6 DEF RestRegistered, Targets
    <2>8. PrimitivesRead' /\ TargetsRead' /\ AgentsAttached'
      BY <2>1, <2>2, <2>4
         DEF PrimitivesRead, PolicyWritten, OfKind, OfKinds, TargetsRead, Targets, AgentsAttached, Agents
    <2> QED BY <2>1, <2>7, <2>8 DEF LoadInv
  <1> QED BY <1>1, <1>2

\* New dependencies change nothing else of the targets.
LEMMA WiringInv ==
  ASSUME LoadInv, phase \in {"plugins", "wire"}, phase' \in {"wire", "loaded"}, UNCHANGED blocks,
         DOMAIN config' = DOMAIN config, config'.policies = config.policies,
         config'.factories = config.factories, config'.aliases = config.aliases,
         DOMAIN Targets' = DOMAIN Targets,
         \A n \in DOMAIN Targets : /\ DOMAIN Targets'[n] = DOMAIN Targets[n]
                                   /\ Targets'[n].kind = Targets[n].kind
                                   /\ Targets'[n].policy = Targets[n].policy
                                   /\ Targets'[n].mode = Targets[n].mode
                                   /\ Targets'[n].subject = Targets[n].subject
  PROVE  PrimitivesRead' /\ TargetsRead' /\ AgentsAttached' /\ RestRegistered'
  <1>1. PrimitivesRead /\ TargetsRead /\ AgentsAttached /\ RestRegistered
    BY DEF LoadInv
  <1>2. PrimitivesRead'
    BY <1>1 DEF PrimitivesRead, PolicyWritten, OfKind, OfKinds
  <1>3. TargetsRead'
    BY <1>1 DEF TargetsRead, OfKinds
  <1>4. Agents' = Agents /\ Agents \subseteq DOMAIN Targets
    BY DEF Agents
  <1>5. AgentsAttached'
    <2>1. ASSUME NEW a \in Agents, Targets'[a].policy # None
          PROVE  LET policy == config'.policies[<<Targets'[a].policy>>] IN
                 /\ \A r \in ToSet(policy.reviewers) : r \in Agents /\ Targets'[r].mode = "review"
                 /\ ~policy.literal => ToSet(policy.required) \subseteq DOMAIN Targets
      <3>1. Targets'[a].policy = Targets[a].policy
        BY <1>4
      <3> QED BY <1>1, <1>4, <2>1, <3>1 DEF AgentsAttached
    <2>2. ASSUME NEW a \in Agents, Targets'[a].mode = "merge"
          PROVE  /\ Targets'[a].subject \in Agents
                 /\ Targets'[Targets'[a].subject].policy # None
      <3>1. Targets'[a].mode = Targets[a].mode /\ Targets'[a].subject = Targets[a].subject
        BY <1>4
      <3>2. Targets[a].subject \in Agents /\ Targets[Targets[a].subject].policy # None
        BY <1>1, <2>2, <3>1 DEF AgentsAttached
      <3> QED BY <1>4, <3>1, <3>2
    <2> QED BY <1>4, <2>1, <2>2 DEF AgentsAttached
  <1>6. RestRegistered'
    BY <1>1 DEF RestRegistered
  <1> QED BY <1>2, <1>3, <1>5, <1>6

\* A target with other dependencies is otherwise the same.
LEMMA OtherDepends ==
  ASSUME NEW t, TargetFields \subseteq DOMAIN t, NEW depends
  PROVE  LET u == [t EXCEPT !.depends = depends] IN
         /\ DOMAIN u = DOMAIN t /\ u.depends = depends /\ u.children = t.children
         /\ u.kind = t.kind /\ u.policy = t.policy /\ u.mode = t.mode /\ u.subject = t.subject
  BY DEF TargetFields

\* Plugins add dependencies, and inputs (runPlugin).
LEMMA PluginsInv ==
  ASSUME LoadTypeOK, LoadInv, RunPlugins
  PROVE  LoadInv'
  <1>1. CASE Refuse
    BY <1>1, NothingYet DEF Refuse
  <1>2. CASE ~Refuse
    <2> DEFINE inputs == config.inputs \cup UNION {p.inputs : p \in ToSet(GraphPlugins)}
               depends(n) == AppendUnique(Targets[n].depends, Patches(n))
               targets == [n \in DOMAIN Targets |-> [Targets[n] EXCEPT !.depends = depends(n)]]
    <2>1. /\ phase = "plugins" /\ phase' = "wire" /\ UNCHANGED <<source, blocks>>
          /\ config' = IF ~source.runPlugins THEN config
                       ELSE [config EXCEPT !.inputs = inputs, !.targets = targets]
      BY <1>2 DEF RunPlugins, Register
    <2>2. PrimitivesRead /\ TargetsRead
      BY <2>1 DEF LoadInv
    <2>3. DOMAIN config = DOMAIN EmptyProject
      BY <2>2 DEF PrimitivesRead
    <2>4. DOMAIN targets = DOMAIN Targets /\ \A n \in DOMAIN Targets :
            /\ DOMAIN targets[n] = DOMAIN Targets[n] /\ targets[n].kind = Targets[n].kind
            /\ targets[n].policy = Targets[n].policy /\ targets[n].mode = Targets[n].mode
            /\ targets[n].subject = Targets[n].subject
      <3> SUFFICES ASSUME NEW n \in DOMAIN Targets
                   PROVE  /\ DOMAIN targets[n] = DOMAIN Targets[n]
                          /\ targets[n].kind = Targets[n].kind
                          /\ targets[n].policy = Targets[n].policy
                          /\ targets[n].mode = Targets[n].mode
                          /\ targets[n].subject = Targets[n].subject
        OBVIOUS
      <3> HIDE DEF depends
      <3>1. targets[n] = [Targets[n] EXCEPT !.depends = depends(n)]
        OBVIOUS
      <3>2. TargetFields \subseteq DOMAIN Targets[n]
        BY <2>2 DEF TargetsRead
      <3> HIDE DEF targets
      <3> QED BY <3>1, <3>2, OtherDepends
    <2> HIDE DEF inputs, targets
    <2>5. /\ DOMAIN config' = DOMAIN config /\ config'.policies = config.policies
          /\ config'.factories = config.factories /\ config'.aliases = config.aliases
          /\ config'.targets = IF ~source.runPlugins THEN config.targets ELSE targets
      BY <2>1, <2>3 DEF EmptyProject
    <2>6. Targets' = IF ~source.runPlugins THEN Targets ELSE targets
      BY <2>5 DEF Targets
    <2>7. DOMAIN Targets' = DOMAIN Targets /\ \A n \in DOMAIN Targets :
            /\ DOMAIN Targets'[n] = DOMAIN Targets[n] /\ Targets'[n].kind = Targets[n].kind
            /\ Targets'[n].policy = Targets[n].policy /\ Targets'[n].mode = Targets[n].mode
            /\ Targets'[n].subject = Targets[n].subject
      BY <2>4, <2>6
    <2>8. PrimitivesRead' /\ TargetsRead' /\ AgentsAttached' /\ RestRegistered'
      BY <2>1, <2>5, <2>7, WiringInv
    <2> QED BY <2>1, <2>8 DEF LoadInv
  <1> QED BY <1>1, <1>2

\* Products are wired to what reads them, and nothing that is needed is missing
\* (wireProducedInputs).
LEMMA WireInv ==
  ASSUME LoadTypeOK, LoadInv, WireProducedInputs
  PROVE  LoadInv'
  <1>1. CASE Refuse
    BY <1>1, NothingYet DEF Refuse
  <1>2. CASE ~Refuse
    <2> DEFINE targets == [n \in DOMAIN Targets |-> [Targets[n] EXCEPT !.depends = Wired(n)]]
    <2>1. /\ phase = "wire" /\ phase' = "loaded" /\ UNCHANGED <<source, blocks>>
          /\ config' = [config EXCEPT !.producers = Producers, !.targets = targets]
          /\ \A n \in DOMAIN Targets :
               ToSet(Wired(n)) \cup ToSet(Targets[n].children) \subseteq DOMAIN Targets
      BY <1>2, Zenon DEF WireProducedInputs, Register
    <2>2. PrimitivesRead /\ TargetsRead
      BY <2>1 DEF LoadInv
    <2>3. DOMAIN config = DOMAIN EmptyProject
      BY <2>2 DEF PrimitivesRead
    <2>4. DOMAIN targets = DOMAIN Targets /\ \A n \in DOMAIN Targets :
            /\ DOMAIN targets[n] = DOMAIN Targets[n] /\ targets[n].kind = Targets[n].kind
            /\ targets[n].policy = Targets[n].policy /\ targets[n].mode = Targets[n].mode
            /\ targets[n].subject = Targets[n].subject
            /\ targets[n].depends = Wired(n) /\ targets[n].children = Targets[n].children
      <3> SUFFICES ASSUME NEW n \in DOMAIN Targets
                   PROVE  /\ DOMAIN targets[n] = DOMAIN Targets[n]
                          /\ targets[n].kind = Targets[n].kind
                          /\ targets[n].policy = Targets[n].policy
                          /\ targets[n].mode = Targets[n].mode
                          /\ targets[n].subject = Targets[n].subject
                          /\ targets[n].depends = Wired(n)
                          /\ targets[n].children = Targets[n].children
        OBVIOUS
      <3>1. targets[n] = [Targets[n] EXCEPT !.depends = Wired(n)]
        OBVIOUS
      <3>2. TargetFields \subseteq DOMAIN Targets[n]
        BY <2>2 DEF TargetsRead
      <3> HIDE DEF targets
      <3> QED BY <3>1, <3>2, OtherDepends
    <2> HIDE DEF targets
    <2>5. /\ DOMAIN config' = DOMAIN config /\ config'.policies = config.policies
          /\ config'.factories = config.factories /\ config'.aliases = config.aliases
          /\ config'.targets = targets
      BY <2>1, <2>3 DEF EmptyProject
    <2>6. Targets' = targets
      BY <2>5 DEF Targets
    <2>7. PrimitivesRead' /\ TargetsRead' /\ AgentsAttached' /\ RestRegistered'
      BY <2>1, <2>4, <2>5, <2>6, WiringInv
    <2>8. Wires'
      <3>1. \A n \in DOMAIN Targets' :
              ToSet(Targets'[n].depends) \cup ToSet(Targets'[n].children) \subseteq DOMAIN Targets'
        BY <2>1, <2>4, <2>6
      <3> QED BY <3>1 DEF Wires, References
    <2> QED BY <2>1, <2>7, <2>8 DEF LoadInv
  <1> QED BY <1>1, <1>2

\* What a load has checked holds as far as it has come, in every reachable state.
THEOREM LoadInvHolds == LoadSpec => []LoadInv
  <1>1. LoadInit => LoadInv
    BY DEF LoadInit, LoadInv
  <1>2. LoadTypeOK /\ LoadInv /\ [LoadNext]_loadVars => LoadInv'
    <2> SUFFICES ASSUME LoadTypeOK, LoadInv, [LoadNext]_loadVars PROVE LoadInv'
      OBVIOUS
    <2>1. CASE UNCHANGED loadVars
      BY <2>1 DEF LoadInv, loadVars, PrimitivesRead, PolicyWritten, TargetsRead, Targets, OfKinds,
                  OfKind, AgentsAttached, Agents, RestRegistered, Wires, References, AtTargets
    <2>2. CASE LoadNext
      BY <2>2, ReadingInv, ValuesInv, PrimitivesInv, TargetsInv, AttachInv, RestInv, PluginsInv,
         WireInv DEF LoadNext
    <2> QED BY <2>1, <2>2
  <1> QED BY <1>1, <1>2, LoadTypes, PTL DEF LoadSpec

\* Whatever the source declares and its plugins add: in a project that is loaded, every
\* dependency, child, reviewer, merge subject, alias and phase is there and of its kind
\* (wireProducedInputs and what comes before it).
THEOREM LoadedIsClosedAlways == LoadSpec => []LoadedIsClosed
  BY LoadInvHolds, LoadedByInv, PTL

-----------------------------------------------------------------------------
(* A name has one value *)

\* A map over another one.
LEMMA OverIs ==
  ASSUME NEW f, NEW g
  PROVE  /\ DOMAIN Over(f, g) = DOMAIN f \cup DOMAIN g
         /\ \A n \in DOMAIN f : Over(f, g)[n] = f[n]
         /\ \A n \in DOMAIN g : n \notin DOMAIN f => Over(f, g)[n] = g[n]
  BY DEF Over

\* A map of one name.
LEMMA SingleIs ==
  ASSUME NEW n, NEW value
  PROVE  DOMAIN Single(n, value) = {n} /\ Single(n, value)[n] = value
  BY DEF Single

\* What a value may refer to: what the layer has resolved, and names that it does not
\* declare, or that the process environment has.
LEMMA ContextIs ==
  ASSUME NEW l
  PROVE  /\ \A r \in DOMAIN l.done : r \in DOMAIN Context(l) /\ Context(l)[r] = l.done[r]
         /\ \A r \in DOMAIN Context(l) \cap DOMAIN l.refs :
              r \in DOMAIN l.done \/ r \in DOMAIN ProcessEnv
  <1> DEFINE base == [n \in DOMAIN l.base \ DOMAIN l.refs |-> l.base[n]]
             low == Over(l.done, base)
  <1>1. DOMAIN base = DOMAIN l.base \ DOMAIN l.refs
    OBVIOUS
  <1> HIDE DEF base
  <1>2. /\ DOMAIN low = DOMAIN l.done \cup DOMAIN base
        /\ \A r \in DOMAIN l.done : low[r] = l.done[r]
    BY OverIs
  <1> HIDE DEF low
  <1>3. /\ DOMAIN Over(low, ProcessEnv) = DOMAIN low \cup DOMAIN ProcessEnv
        /\ \A r \in DOMAIN low : Over(low, ProcessEnv)[r] = low[r]
    BY OverIs
  <1>4. Context(l) = Over(low, ProcessEnv)
    BY DEF Context, low, base
  <1> QED BY <1>1, <1>2, <1>3, <1>4

\* A value that is made now agrees with those that it is made from (resolveEnvBlocks).
LEMMA ResolvedAgrees ==
  ASSUME LoadTypeOK, ValuesAgree, ResolveName
  PROVE  ValuesAgree'
  <1>1. phase = "values" /\ layer # None /\ UNCHANGED <<source, phase>>
    BY DEF ResolveName
  <1> DEFINE made(n) == {<<layer.name, n>>} \cup UNION {Context(layer)[r] : r \in layer.refs[n]}
  <1>2. PICK n \in Resolvable : layer' = [layer EXCEPT !.done = Over(Single(n, made(n)), layer.done)]
    BY DEF ResolveName
  <1> DEFINE done == Over(Single(n, made(n)), layer.done)
  <1>3. n \notin DOMAIN layer.done /\ layer.refs[n] \subseteq DOMAIN Context(layer)
    BY <1>2 DEF Resolvable, Unresolved
  <1>4. /\ DOMAIN done = {n} \cup DOMAIN layer.done /\ done[n] = made(n)
        /\ \A r \in DOMAIN layer.done : r # n => done[r] = layer.done[r]
    <2> DEFINE one == Single(n, made(n))
    <2> HIDE DEF made
    <2>1. DOMAIN one = {n} /\ one[n] = made(n)
      BY SingleIs
    <2>2. done = Over(one, layer.done)
      OBVIOUS
    <2> HIDE DEF one, done
    <2>3. /\ DOMAIN done = DOMAIN one \cup DOMAIN layer.done
          /\ \A r \in DOMAIN one : done[r] = one[r]
          /\ \A r \in DOMAIN layer.done : r \notin DOMAIN one => done[r] = layer.done[r]
      <3> DEFINE g == layer.done
      <3>1. done = Over(one, g)
        BY <2>2
      <3> HIDE DEF g
      <3>2. /\ DOMAIN Over(one, g) = DOMAIN one \cup DOMAIN g
            /\ \A r \in DOMAIN one : Over(one, g)[r] = one[r]
            /\ \A r \in DOMAIN g : r \notin DOMAIN one => Over(one, g)[r] = g[r]
        BY OverIs
      <3>3. /\ DOMAIN done = DOMAIN one \cup DOMAIN g
            /\ \A r \in DOMAIN one : done[r] = one[r]
            /\ \A r \in DOMAIN g : r \notin DOMAIN one => done[r] = g[r]
        BY <3>1, <3>2
      <3> QED BY <3>3 DEF g
    <2> QED BY <2>1, <2>3
  <1> HIDE DEF done
  <1>5. layer'.done = done /\ layer'.refs = layer.refs
    BY <1>1, <1>2 DEF LoadTypeOK, LayerFields, done
  <1>6. ProcessEnv' = ProcessEnv
    BY <1>1 DEF ProcessEnv
  <1>7. ASSUME NEW m \in DOMAIN done,
               NEW r \in (layer.refs[m] \cap DOMAIN layer.refs) \ DOMAIN ProcessEnv
        PROVE  r \in DOMAIN done /\ done[r] \subseteq done[m]
    <2>1. CASE m = n
      <3>1. r \in DOMAIN layer.done /\ Context(layer)[r] = layer.done[r]
        BY <1>3, <1>7, <2>1, ContextIs
      <3>2. r # n
        BY <1>3, <3>1
      <3>3. Context(layer)[r] \subseteq made(n)
        <4> DEFINE known == Context(layer)
        <4>1. r \in layer.refs[n]
          BY <1>7, <2>1
        <4> HIDE DEF known
        <4> QED BY <4>1 DEF known
      <3> QED BY <1>4, <2>1, <3>1, <3>2, <3>3
    <2>2. CASE m # n
      <3>1. m \in DOMAIN layer.done /\ done[m] = layer.done[m]
        BY <1>4, <1>7, <2>2
      <3>2. r \in DOMAIN layer.done /\ layer.done[r] \subseteq layer.done[m]
        BY <1>1, <1>7, <3>1 DEF ValuesAgree
      <3>3. r # n
        BY <1>3, <3>2
      <3> QED BY <1>4, <3>1, <3>2, <3>3
    <2> QED BY <2>1, <2>2
  <1> QED BY <1>5, <1>6, <1>7 DEF ValuesAgree

\* Whatever the order in which the names of a layer are resolved, a value is made from
\* what the names that it refers to mean in the end (resolveEnvBlocks, resolveVariables).
THEOREM ValuesAgreeAlways == LoadSpec => []ValuesAgree
  <1>1. LoadInit => ValuesAgree
    BY DEF LoadInit, ValuesAgree
  <1>2. LoadTypeOK /\ ValuesAgree /\ [LoadNext]_loadVars => ValuesAgree'
    <2> SUFFICES ASSUME LoadTypeOK, ValuesAgree, [LoadNext]_loadVars PROVE ValuesAgree'
      OBVIOUS
    <2>1. CASE UNCHANGED loadVars
      BY <2>1 DEF ValuesAgree, loadVars, ProcessEnv
    <2>2. CASE ResolveName
      BY <2>2, ResolvedAgrees
    <2>3. CASE OpenLayer
      <3>1. CASE Fits(Head(layers))
        <4>1. layer'.done = <<>>
          BY <2>3, <3>1 DEF OpenLayer
        <4>2. DOMAIN layer'.done = {}
          BY <4>1
        <4> QED BY <4>2 DEF ValuesAgree
      <3>2. CASE ~Fits(Head(layers))
        BY <2>3, <3>2 DEF OpenLayer, Refuse, ValuesAgree
      <3> QED BY <3>1, <3>2
    <2>4. CASE CloseLayer
      BY <2>4 DEF CloseLayer, Refuse, ValuesAgree
    <2>5. CASE phase \notin {"values", "refused"} /\ UNCHANGED layer
      BY <2>5 DEF LoadTypeOK, ValuesAgree
    <2>6. CASE ImportRefused \/ ImportAgain \/ ImportFile \/ TakeBlock \/ EndFile
      BY <2>5, <2>6 DEF ImportRefused, ImportAgain, ImportFile, TakeBlock, EndFile, Reading, Refuse
    <2>7. CASE RegisterPrimitives \/ RegisterTargets \/ AttachAgents \/ RegisterRest
               \/ RunPlugins \/ WireProducedInputs
      BY <2>5, <2>7 DEF RegisterPrimitives, RegisterTargets, AttachAgents, RegisterRest, RunPlugins,
                        WireProducedInputs, Register, Refuse
    <2> QED BY <2>2, <2>3, <2>4, <2>1, <2>6, <2>7 DEF LoadNext
  <1> QED BY <1>1, <1>2, LoadTypes, PTL DEF LoadSpec

-----------------------------------------------------------------------------
(* Every file is read once *)

\* What the files of s say: imports, and the places of blocks.
ImportsIn(s, f) == {item.file : item \in {item \in ToSet(s.files[f]) : item.kind = "import"}}
OwnIn(s, f) == {i \in DOMAIN s.files[f] : s.files[f][i].kind # "import"}

\* The files of the frames x, and those that are read to their ends.
FilesOf(x) == {x[k].file : k \in DOMAIN x}
Behind(x, f, i) == \A k \in DOMAIN x : x[k].file = f => i < x[k].next

\* What was imported from a file on the stack is finished, or above it.
ImportsRead(s, x, read, k) ==
  \A i \in DOMAIN s.files[x[k].file] :
    (i < x[k].next /\ s.files[x[k].file][i].kind = "import") =>
      LET g == s.files[x[k].file][i].file IN
      /\ g \notin s.withProject
      /\ g \in read \ FilesOf(x) \/ (k + 1 \in DOMAIN x /\ g = x[k + 1].file)

\* Each file on the stack is there once and is imported by the one below.
StackOK(s, x, read) ==
  /\ \A j, k \in DOMAIN x : x[j].file = x[k].file => j = k
  /\ x # <<>> => x[1].file = Root
  /\ FilesOf(x) \subseteq read /\ read \cap s.withProject \subseteq {Root}
  /\ \A k \in DOMAIN x : k + 1 \in DOMAIN x => x[k + 1].file \in ImportsIn(s, x[k].file)
  /\ \A k \in DOMAIN x : ImportsRead(s, x, read, k)
StackInv == StackOK(source, stack, seen)

\* What a finished file imports is finished, and no finished files import one another
\* in a circle.
FinishedOK(s, finished) ==
  /\ \A f \in finished : ImportsIn(s, f) \subseteq finished \ s.withProject
  /\ \A knot \in SUBSET finished :
       knot # {} => \E n \in knot : ImportsIn(s, n) \cap knot = {}
FinishedInv == FinishedOK(source, seen \ FilesOf(stack))

\* The blocks are those that were read, each once, those of a file in its order.
InOrder(s, f, list) ==
  \A i, j \in OwnIn(s, f) : i < j =>
    \A k, l \in DOMAIN list : list[k] = s.files[f][i] /\ list[l] = s.files[f][j] => k < l
BlocksOK(s, x, read, list) ==
  /\ \A k \in DOMAIN list : \E f \in read : \E i \in OwnIn(s, f) :
       Behind(x, f, i) /\ list[k] = s.files[f][i]
  /\ \A f \in read : \A i \in OwnIn(s, f) :
       Behind(x, f, i) => \E k \in DOMAIN list : list[k] = s.files[f][i]
  /\ \A k, l \in DOMAIN list : list[k] = list[l] => k = l
  /\ \A f \in read : InOrder(s, f, list)
BlocksInv == BlocksOK(source, stack, seen, blocks)

\* A source that is refused while it is read has a reason.
Reason ==
  \/ HasCycle([f \in DOMAIN source.files |-> ImportsIn(source, f)])
  \/ \E f \in seen : \E g \in ImportsIn(source, f) :
       g \notin DOMAIN source.files \/ g \in source.withProject
ReasonInv == phase = "refused" /\ stack # <<>> => Reason

\* The files on the stack are those of its frames.
LEMMA OnStackIs == OnStack = FilesOf(stack)
  BY DEF OnStack, ToSet, FilesOf

\* A file imports what its import lines name.
LEMMA ImportIs ==
  ASSUME NEW s, NEW f, NEW i \in DOMAIN s.files[f], s.files[f][i].kind = "import"
  PROVE  s.files[f][i].file \in ImportsIn(s, f)
  BY DEF ImportsIn, ToSet

LEMMA ImportsAre ==
  ASSUME NEW s, NEW f, NEW g \in ImportsIn(s, f)
  PROVE  \E i \in DOMAIN s.files[f] :
           s.files[f][i].kind = "import" /\ s.files[f][i].file = g
  BY DEF ImportsIn, ToSet

\* The first file is always on the stack, so that no project is a finished file.
LEMMA FinishedAreImported ==
  ASSUME NEW s, NEW x, NEW read, StackOK(s, x, read), x # <<>>, 1 \in DOMAIN x
  PROVE  (read \ FilesOf(x)) \cap s.withProject = {}
  <1>1. Root \in FilesOf(x)
    BY DEF StackOK, FilesOf
  <1> QED BY <1>1 DEF StackOK

\* One item more of the file on top is read.
OneFurther(x, y, n) ==
  /\ DOMAIN y = 1 .. n /\ \A k \in 1 .. n : y[k].file = x[k].file
  /\ \A k \in 1 .. n : k # n => y[k].next = x[k].next
  /\ y[n].next = x[n].next + 1

\* What the next item imports, if it does, is finished or comes onto the stack.
NextReady(s, x, n, read, above) ==
  LET item == s.files[x[n].file][x[n].next] IN
    item.kind = "import" =>
      /\ item.file \notin s.withProject
      /\ item.file \in read \ FilesOf(x) \/ item.file \in above

\* Then so is what was imported from frame k.
ImportsReady(s, x, y, n, read, above, k) ==
  \A i \in DOMAIN s.files[x[k].file] :
    (i < y[k].next /\ s.files[x[k].file][i].kind = "import") =>
      LET g == s.files[x[k].file][i].file IN
      /\ g \notin s.withProject
      /\ \/ g \in read \ FilesOf(x)
         \/ k + 1 \in 1 .. n /\ g = x[k + 1].file
         \/ k = n /\ g \in above

\* The item that is read is a block, or imports a file that is finished or that comes
\* onto the stack.
LEMMA AdvanceImports ==
  ASSUME NEW s, NEW x, NEW n \in Nat, DOMAIN x = 1 .. n, NEW y, OneFurther(x, y, n),
         NEW k \in 1 .. n, NEW read, ImportsRead(s, x, read, k), NEW above,
         DOMAIN s.files[x[k].file] \subseteq Nat, x[k].next \in Nat,
         NextReady(s, x, n, read, above)
  PROVE  ImportsReady(s, x, y, n, read, above, k)
  <1> SUFFICES ASSUME NEW i \in DOMAIN s.files[x[k].file], i < y[k].next,
                      s.files[x[k].file][i].kind = "import"
               PROVE  LET g == s.files[x[k].file][i].file IN
                      /\ g \notin s.withProject
                      /\ \/ g \in read \ FilesOf(x)
                         \/ k + 1 \in 1 .. n /\ g = x[k + 1].file
                         \/ k = n /\ g \in above
    BY DEF ImportsReady
  <1>1. CASE i < x[k].next
    BY <1>1 DEF ImportsRead
  <1>2. CASE ~(i < x[k].next)
    <2>1. k = n
      BY <1>2 DEF OneFurther
    <2>2. i = x[n].next
      BY <1>2, <2>1 DEF OneFurther
    <2> QED BY <2>1, <2>2 DEF NextReady
  <1> QED BY <1>1, <1>2

\* The next item is read: a block, or an import of a file that is finished.
LEMMA AdvanceStack ==
  ASSUME NEW s, NEW x, NEW n \in Nat \ {0}, DOMAIN x = 1 .. n, NEW y, OneFurther(x, y, n),
         y # <<>>, x # <<>>, NEW read, StackOK(s, x, read),
         \A k \in 1 .. n : DOMAIN s.files[x[k].file] \subseteq Nat /\ x[k].next \in Nat,
         NextReady(s, x, n, read, {})
  PROVE  StackOK(s, y, read) /\ FilesOf(y) = FilesOf(x)
  <1>1. FilesOf(y) = FilesOf(x)
    BY DEF FilesOf, OneFurther
  <1>2. ASSUME NEW k \in 1 .. n PROVE ImportsRead(s, y, read, k)
    <2>1. ImportsRead(s, x, read, k)
      BY DEF StackOK
    <2>2. \A j \in 1 .. n : y[j].file = x[j].file /\ DOMAIN y = 1 .. n
      BY DEF OneFurther
    <2> DEFINE none == {}
    <2>3. NextReady(s, x, n, read, none) /\ n \in Nat
      OBVIOUS
    <2> HIDE DEF none
    <2>4. ImportsReady(s, x, y, n, read, none, k)
      BY <2>1, <2>3, AdvanceImports, Zenon
    <2> QED BY <1>1, <2>2, <2>4 DEF ImportsReady, ImportsRead, none
  <1>3. DOMAIN y = 1 .. n /\ \A j \in 1 .. n : y[j].file = x[j].file
    BY DEF OneFurther
  <1>4. \A j, k \in 1 .. n : y[j].file = y[k].file => j = k
    BY <1>3 DEF StackOK
  <1>5. y[1].file = Root /\ FilesOf(x) \subseteq read /\ read \cap s.withProject \subseteq {Root}
    BY <1>3 DEF StackOK
  <1>6. \A k \in 1 .. n : k + 1 \in 1 .. n => y[k + 1].file \in ImportsIn(s, y[k].file)
    BY <1>3 DEF StackOK
  <1> HIDE DEF FilesOf
  <1>7. \A k \in 1 .. n : ImportsRead(s, y, read, k)
    BY <1>2
  <1> QED BY <1>1, <1>3, <1>4, <1>5, <1>6, <1>7 DEF StackOK

\* y is one item further than x, that item imports g, and z is y with g on top.
Pushed(s, x, y, z, n, g) ==
  /\ n \in Nat \ {0} /\ DOMAIN x = 1 .. n /\ x # <<>> /\ OneFurther(x, y, n)
  /\ \A k \in 1 .. n : DOMAIN s.files[x[k].file] \subseteq Nat /\ x[k].next \in Nat
  /\ x[n].next \in DOMAIN s.files[x[n].file]
  /\ s.files[x[n].file][x[n].next].kind = "import"
  /\ s.files[x[n].file][x[n].next].file = g
  /\ z # <<>> /\ DOMAIN z = 1 .. n + 1 /\ \A k \in 1 .. n : z[k] = y[k]
  /\ z[n + 1].file = g /\ z[n + 1].next = 1
  /\ g \notin s.withProject /\ DOMAIN s.files[g] \subseteq Nat \ {0}
KeepsFinished(s, x, z, read, g) ==
  /\ StackOK(s, z, read \cup {g}) /\ FilesOf(z) = FilesOf(x) \cup {g}
  /\ (read \cup {g}) \ FilesOf(z) = read \ FilesOf(x)

\* A file comes onto the stack.
LEMMA PushStack ==
  ASSUME NEW s, NEW x, NEW y, NEW z, NEW n, NEW g, Pushed(s, x, y, z, n, g),
         NEW read, StackOK(s, x, read), g \notin read
  PROVE  KeepsFinished(s, x, z, read, g)
  <1> USE DEF Pushed
  <1>1. \A j \in 1 .. n : z[j].file = x[j].file
    BY DEF OneFurther
  <1>2. FilesOf(z) = FilesOf(x) \cup {g}
    <2>1. 1 .. n + 1 = (1 .. n) \cup {n + 1}
      OBVIOUS
    <2> QED BY <1>1, <2>1 DEF FilesOf
  <1>3. FilesOf(x) \subseteq read /\ read \cap s.withProject \subseteq {Root}
    BY DEF StackOK
  <1>4. (read \cup {g}) \ FilesOf(z) = read \ FilesOf(x)
    BY <1>2, <1>3
  <1>5. ASSUME NEW k \in 1 .. n PROVE ImportsRead(s, z, read \cup {g}, k)
    <2>1. ImportsRead(s, x, read, k)
      BY DEF StackOK
    <2> DEFINE above == {g}
    <2>2. NextReady(s, x, n, read, above) /\ n \in Nat
      BY DEF NextReady
    <2> HIDE DEF above
    <2>3. ImportsReady(s, x, y, n, read, above, k)
      BY <2>1, <2>2, AdvanceImports, Zenon
    <2>4. /\ z[k].next = y[k].next /\ z[k].file = x[k].file /\ DOMAIN z = 1 .. n + 1
          /\ k + 1 \in 1 .. n + 1 /\ z[n + 1].file = g
          /\ k + 1 \in 1 .. n => z[k + 1].file = x[k + 1].file
      BY <1>1
    <2> HIDE DEF Pushed
    <2> SUFFICES ASSUME NEW i \in DOMAIN s.files[x[k].file], i < y[k].next,
                        s.files[x[k].file][i].kind = "import"
                 PROVE  LET h == s.files[x[k].file][i].file IN
                        /\ h \notin s.withProject
                        /\ h \in read \ FilesOf(x) \/ h = z[k + 1].file
      BY <1>4, <2>4 DEF ImportsRead
    <2> QED BY <2>3, <2>4 DEF ImportsReady, above
  <1>6. ImportsRead(s, z, read \cup {g}, n + 1)
    BY DEF ImportsRead
  <1>7. \A j, k \in 1 .. n + 1 : z[j].file = z[k].file => j = k
    <2>1. \A j \in 1 .. n : z[j].file \in FilesOf(x)
      BY <1>1 DEF FilesOf
    <2>2. \A j, k \in 1 .. n : x[j].file = x[k].file => j = k
      BY DEF StackOK
    <2>3. z[n + 1].file = g /\ g \notin FilesOf(x) /\ 1 .. n + 1 = (1 .. n) \cup {n + 1}
      BY <1>3
    <2> HIDE DEF Pushed
    <2> QED BY <1>1, <2>1, <2>2, <2>3
  <1>8. \A k \in 1 .. n + 1 : k + 1 \in 1 .. n + 1 => z[k + 1].file \in ImportsIn(s, z[k].file)
    <2> SUFFICES ASSUME NEW k \in 1 .. n PROVE z[k + 1].file \in ImportsIn(s, x[k].file)
      BY <1>1
    <2>1. CASE k = n
      BY <2>1, ImportIs
    <2>2. CASE k # n
      <3>1. k + 1 \in 1 .. n
        BY <2>2
      <3> QED BY <1>1, <3>1 DEF StackOK
    <2> QED BY <2>1, <2>2
  <1>9. z[1].file = Root
    BY <1>1 DEF StackOK
  <1>10. (read \cup {g}) \cap s.withProject \subseteq {Root}
    BY <1>3
  <1>11. ASSUME NEW k \in 1 .. n + 1 PROVE ImportsRead(s, z, read \cup {g}, k)
    <2> DEFINE more == read \cup {g}
    <2>1. ImportsRead(s, z, more, n + 1) /\ \A j \in 1 .. n : ImportsRead(s, z, more, j)
      BY <1>5, <1>6
    <2> HIDE DEF more
    <2>2. k \in 1 .. n \/ k = n + 1
      OBVIOUS
    <2>3. ImportsRead(s, z, more, k)
      BY <2>1, <2>2, Zenon
    <2> QED BY <2>3 DEF more
  <1> QED BY <1>2, <1>3, <1>4, <1>7, <1>8, <1>9, <1>10, <1>11 DEF StackOK, KeepsFinished

\* A file leaves the stack: it is finished.
LEMMA PopStack ==
  ASSUME NEW s, NEW x, NEW n \in Nat \ {0}, DOMAIN x = 1 .. n, x # <<>>, NEW y,
         DOMAIN y = 1 .. n - 1, y # <<>> => n # 1, \A k \in 1 .. n - 1 : y[k] = x[k],
         NEW read, StackOK(s, x, read), FinishedOK(s, read \ FilesOf(x)),
         DOMAIN s.files[x[n].file] \subseteq Nat, x[n].next \in Nat,
         \A i \in DOMAIN s.files[x[n].file] : i < x[n].next
  PROVE  StackOK(s, y, read) /\ FinishedOK(s, read \ FilesOf(y))
  <1> DEFINE t == x[n].file
             old == read \ FilesOf(x)
             new == read \ FilesOf(y)
  <1>1. \A j, k \in 1 .. n : x[j].file = x[k].file => j = k
    BY DEF StackOK
  <1>2. FilesOf(y) = FilesOf(x) \ {t}
    BY <1>1 DEF FilesOf
  <1>3. FilesOf(x) \subseteq read /\ t \in FilesOf(x) /\ new = old \cup {t} /\ t \notin old
    BY <1>2 DEF StackOK, FilesOf
  <1>4. ImportsIn(s, t) \subseteq old \ s.withProject
    <2> SUFFICES ASSUME NEW g \in ImportsIn(s, t) PROVE g \in old \ s.withProject
      OBVIOUS
    <2>1. PICK i \in DOMAIN s.files[t] : s.files[t][i].kind = "import" /\ s.files[t][i].file = g
      BY ImportsAre
    <2>2. ImportsRead(s, x, read, n)
      BY DEF StackOK
    <2>3. i < x[n].next /\ n + 1 \notin DOMAIN x
      BY <2>1
    <2> QED BY <2>1, <2>2, <2>3 DEF ImportsRead
  <1>5. StackOK(s, y, read)
    <2>1. ASSUME NEW k \in 1 .. n - 1 PROVE ImportsRead(s, y, read, k)
      <3>1. ImportsRead(s, x, read, k)
        BY DEF StackOK
      <3>2. y[k] = x[k] /\ k + 1 \in 1 .. n
        OBVIOUS
      <3> SUFFICES ASSUME NEW i \in DOMAIN s.files[x[k].file], i < x[k].next,
                          s.files[x[k].file][i].kind = "import"
                   PROVE  LET g == s.files[x[k].file][i].file IN
                          /\ g \notin s.withProject
                          /\ g \in new \/ (k + 1 \in DOMAIN y /\ g = y[k + 1].file)
        BY <3>2 DEF ImportsRead
      <3> DEFINE g == s.files[x[k].file][i].file
      <3>3. g \notin s.withProject /\ (g \in old \/ g = x[k + 1].file)
        BY <3>1 DEF ImportsRead
      <3>4. CASE k + 1 = n
        BY <1>3, <3>3, <3>4
      <3>5. CASE k + 1 # n
        <4>1. k + 1 \in 1 .. n - 1 /\ y[k + 1] = x[k + 1]
          BY <3>5
        <4> QED BY <1>3, <3>3, <4>1
      <3> QED BY <3>4, <3>5
    <2>2. ASSUME NEW k \in 1 .. n - 1, k + 1 \in 1 .. n - 1
          PROVE  y[k + 1].file \in ImportsIn(s, y[k].file)
      <3>1. k \in DOMAIN x /\ k + 1 \in DOMAIN x /\ y[k] = x[k] /\ y[k + 1] = x[k + 1]
        BY <2>2
      <3>2. x[k + 1].file \in ImportsIn(s, x[k].file)
        BY <3>1, Zenon DEF StackOK
      <3> QED BY <3>1, <3>2
    <2>3. y # <<>> => y[1].file = Root
      BY DEF StackOK
    <2>4. FilesOf(y) \subseteq read /\ read \cap s.withProject \subseteq {Root}
      BY <1>2, <1>3 DEF StackOK
    <2> QED BY <1>1, <2>1, <2>2, <2>3, <2>4 DEF StackOK
  <1> HIDE DEF t, old, new
  <1>6. FinishedOK(s, old)
    BY DEF old
  <1>7. \A f \in new : ImportsIn(s, f) \subseteq new \ s.withProject
    BY <1>3, <1>4, <1>6 DEF FinishedOK
  <1>8. ASSUME NEW knot \in SUBSET new, knot # {}
        PROVE  \E m \in knot : ImportsIn(s, m) \cap knot = {}
    <2>1. CASE knot \ {t} = {}
      BY <1>3, <1>4, <1>8, <2>1
    <2>2. CASE knot \ {t} # {}
      <3>1. knot \ {t} \in SUBSET old
        BY <1>3
      <3>2. PICK m \in knot \ {t} : ImportsIn(s, m) \cap (knot \ {t}) = {}
        BY <1>6, <2>2, <3>1 DEF FinishedOK
      <3>3. ImportsIn(s, m) \subseteq old
        BY <1>6, <3>1, <3>2 DEF FinishedOK
      <3>4. t \notin ImportsIn(s, m)
        BY <1>3, <3>3
      <3> QED BY <3>2, <3>4
    <2> QED BY <2>1, <2>2
  <1>9. FinishedOK(s, new)
    BY <1>7, <1>8 DEF FinishedOK
  <1> QED BY <1>5, <1>9 DEF new

\* Each block is written once.
OnceWritten(s) ==
  \A f, g \in DOMAIN s.files : \A i \in OwnIn(s, f), j \in OwnIn(s, g) :
    s.files[f][i] = s.files[g][j] => f = g /\ i = j

\* A block that is found in two places is found in one.
LEMMA SameBlock ==
  ASSUME NEW s, OnceWritten(s), NEW f \in DOMAIN s.files, NEW g \in DOMAIN s.files,
         NEW i \in OwnIn(s, f), NEW j \in OwnIn(s, g), s.files[f][i] = s.files[g][j]
  PROVE  f = g /\ i = j
  BY DEF OnceWritten

\* What is on the stack may change where no block is behind or ahead by it.
LEMMA BlocksStay ==
  ASSUME NEW s, OnceWritten(s), NEW x, NEW read, NEW list, BlocksOK(s, x, read, list),
         NEW y, NEW more, read \subseteq more, more \subseteq DOMAIN s.files,
         \A f \in read : \A i \in OwnIn(s, f) : Behind(y, f, i) <=> Behind(x, f, i),
         \A f \in more \ read : \A i \in OwnIn(s, f) : ~Behind(y, f, i)
  PROVE  BlocksOK(s, y, more, list)
  <1>1. ASSUME NEW k \in DOMAIN list
        PROVE  \E f \in more : \E i \in OwnIn(s, f) : Behind(y, f, i) /\ list[k] = s.files[f][i]
    <2>1. PICK f \in read : \E i \in OwnIn(s, f) : Behind(x, f, i) /\ list[k] = s.files[f][i]
      BY DEF BlocksOK
    <2>2. PICK i \in OwnIn(s, f) : Behind(x, f, i) /\ list[k] = s.files[f][i]
      BY <2>1
    <2>3. f \in more /\ Behind(y, f, i)
      BY <2>2
    <2> QED BY <2>2, <2>3
  <1>2. ASSUME NEW f \in more, NEW i \in OwnIn(s, f), Behind(y, f, i)
        PROVE  \E k \in DOMAIN list : list[k] = s.files[f][i]
    <2>1. f \in read /\ Behind(x, f, i)
      BY <1>2
    <2> QED BY <2>1 DEF BlocksOK
  <1>3. ASSUME NEW f \in more, NEW i \in OwnIn(s, f), NEW j \in OwnIn(s, f), i < j,
               NEW k \in DOMAIN list, NEW l \in DOMAIN list,
               list[k] = s.files[f][i], list[l] = s.files[f][j]
        PROVE  k < l
    <2>1. PICK g \in read : \E h \in OwnIn(s, g) : list[k] = s.files[g][h]
      BY DEF BlocksOK
    <2>2. f = g
      BY <1>3, <2>1 DEF OnceWritten
    <2>3. f \in read
      BY <2>2
    <2>4. InOrder(s, f, list)
      BY <2>3 DEF BlocksOK
    <2> QED BY <1>3, <2>4 DEF InOrder
  <1>4. \A k, l \in DOMAIN list : list[k] = list[l] => k = l
    BY DEF BlocksOK
  <1>5. \A f \in more : InOrder(s, f, list)
    BY <1>3 DEF InOrder
  <1> QED BY <1>1, <1>2, <1>4, <1>5 DEF BlocksOK

\* An import is no block.
LEMMA ImportIsNoBlock ==
  ASSUME NEW s, NEW x, NEW n \in Nat, DOMAIN x = 1 .. n, NEW y, OneFurther(x, y, n),
         s.files[x[n].file][x[n].next].kind = "import", \A k \in 1 .. n : x[k].next \in Nat,
         NEW f, NEW i \in OwnIn(s, f), i \in Nat
  PROVE  Behind(y, f, i) <=> Behind(x, f, i)
  <1>1. DOMAIN y = 1 .. n /\ \A k \in 1 .. n : y[k].file = x[k].file
    BY DEF OneFurther
  <1>2. ASSUME NEW k \in 1 .. n, x[k].file = f PROVE i < y[k].next <=> i < x[k].next
    <2>1. CASE k # n
      BY <2>1 DEF OneFurther
    <2>2. CASE k = n
      <3>1. i # x[n].next
        BY <1>2, <2>2 DEF OwnIn
      <3>2. y[k].next = x[k].next + 1 /\ x[k].next \in Nat
        BY <2>2 DEF OneFurther
      <3> QED BY <2>2, <3>1, <3>2
    <2> QED BY <2>1, <2>2
  <1> QED BY <1>1, <1>2 DEF Behind

\* Of a file that comes onto the stack nothing is behind; of one that leaves it,
\* everything.
LEMMA PushedIsAhead ==
  ASSUME NEW n \in Nat, NEW y, DOMAIN y = 1 .. n, NEW z, DOMAIN z = 1 .. n + 1,
         \A k \in 1 .. n : z[k] = y[k], z[n + 1].next = 1, NEW f, NEW i \in Nat \ {0}
  PROVE  /\ z[n + 1].file # f => (Behind(z, f, i) <=> Behind(y, f, i))
         /\ z[n + 1].file = f => ~Behind(z, f, i)
  BY DEF Behind

LEMMA PoppedIsBehind ==
  ASSUME NEW n \in Nat \ {0}, NEW x, DOMAIN x = 1 .. n, NEW y, DOMAIN y = 1 .. n - 1,
         \A k \in 1 .. n - 1 : y[k] = x[k], NEW f, NEW i,
         x[n].file = f => i < x[n].next
  PROVE  Behind(y, f, i) <=> Behind(x, f, i)
  <1>1. 1 .. n = (1 .. n - 1) \cup {n}
    OBVIOUS
  <1> QED BY <1>1 DEF Behind

\* The block that is read comes last.
LEMMA BlockComes ==
  ASSUME NEW s, OnceWritten(s), NEW x, NEW n \in Nat \ {0}, DOMAIN x = 1 .. n,
         NEW y, OneFurther(x, y, n), NEW read, read \subseteq DOMAIN s.files,
         NEW list, NEW len \in Nat, DOMAIN list = 1 .. len, BlocksOK(s, x, read, list),
         \A k \in 1 .. n : x[k].next \in Nat,
         \A j, k \in 1 .. n : x[j].file = x[k].file => j = k,
         \A f \in read : DOMAIN s.files[f] \subseteq Nat,
         x[n].file \in read, x[n].next \in OwnIn(s, x[n].file),
         NEW longer, DOMAIN longer = 1 .. len + 1, \A k \in 1 .. len : longer[k] = list[k],
         longer[len + 1] = s.files[x[n].file][x[n].next]
  PROVE  BlocksOK(s, y, read, longer)
  <1> DEFINE t == x[n].file
             at == x[n].next
             block == s.files[t][at]
  <1>1. DOMAIN y = 1 .. n /\ \A k \in 1 .. n : y[k].file = x[k].file
    BY DEF OneFurther
  <1>2. ASSUME NEW f \in read, NEW i \in OwnIn(s, f)
        PROVE  /\ Behind(x, f, i) => Behind(y, f, i)
               /\ Behind(y, f, i) => Behind(x, f, i) \/ (f = t /\ i = at)
    <2>1. i \in Nat
      BY DEF OwnIn
    <2>2. ASSUME NEW k \in 1 .. n
          PROVE  /\ i < x[k].next => i < y[k].next
                 /\ i < y[k].next => i < x[k].next \/ (k = n /\ i = at)
      <3>1. CASE k = n
        BY <2>1, <3>1 DEF OneFurther
      <3>2. CASE k # n
        BY <3>2 DEF OneFurther
      <3> QED BY <3>1, <3>2
    <2>3. Behind(x, f, i) => Behind(y, f, i)
      BY <1>1, <2>2 DEF Behind
    <2>4. ASSUME Behind(y, f, i), ~(f = t /\ i = at) PROVE Behind(x, f, i)
      BY <1>1, <2>2, <2>4 DEF Behind
    <2> QED BY <2>3, <2>4
  <1>3. ~Behind(x, t, at) /\ Behind(y, t, at)
    <2>1. \A k \in 1 .. n : y[k].file = t => k = n
      BY <1>1
    <2>2. y[n].next = at + 1 /\ at \in Nat /\ n \in 1 .. n
      BY DEF OneFurther
    <2>3. ~Behind(x, t, at)
      BY <2>2 DEF Behind
    <2>4. Behind(y, t, at)
      <3> HIDE DEF t, at
      <3> SUFFICES ASSUME NEW k \in 1 .. n, y[k].file = t PROVE at < y[k].next
        BY <1>1 DEF Behind
      <3> QED BY <2>1, <2>2
    <2> QED BY <2>3, <2>4
  <1>4. t \in read /\ at \in OwnIn(s, t)
    OBVIOUS
  <1>5. \A f \in read : OwnIn(s, f) \subseteq Nat
    BY DEF OwnIn
  <1> HIDE DEF t, at
  <1>6. 1 .. len + 1 = (1 .. len) \cup {len + 1} /\ \A k \in 1 .. len : k < len + 1
    OBVIOUS
  <1>7. longer[len + 1] = block
    BY DEF t, at
  <1>8. ASSUME NEW k \in 1 .. len
        PROVE  \E f \in read : \E i \in OwnIn(s, f) : Behind(x, f, i) /\ list[k] = s.files[f][i]
    <2>1. k \in DOMAIN list
      OBVIOUS
    <2> QED BY <2>1, Zenon DEF BlocksOK
  <1>9. ASSUME NEW k \in 1 .. len PROVE list[k] # block
    <2>1. PICK f \in read : \E i \in OwnIn(s, f) : Behind(x, f, i) /\ list[k] = s.files[f][i]
      BY <1>8
    <2>2. PICK i \in OwnIn(s, f) : Behind(x, f, i) /\ list[k] = s.files[f][i]
      BY <2>1
    <2>3. SUFFICES ASSUME list[k] = block PROVE f = t /\ i = at
      BY <1>3, <2>2
    <2>4. f \in DOMAIN s.files /\ t \in DOMAIN s.files /\ s.files[f][i] = s.files[t][at]
      BY <1>4, <2>2, <2>3
    <2> QED BY <1>4, <2>2, <2>4, SameBlock
  <1>10. ASSUME NEW k \in 1 .. len + 1
         PROVE  \E f \in read : \E i \in OwnIn(s, f) :
                  Behind(y, f, i) /\ longer[k] = s.files[f][i]
    <2>1. CASE k = len + 1
      BY <1>3, <1>4, <1>7, <2>1
    <2>2. CASE k \in 1 .. len
      <3>1. PICK f \in read : \E i \in OwnIn(s, f) : Behind(x, f, i) /\ list[k] = s.files[f][i]
        BY <1>8, <2>2
      <3>2. PICK i \in OwnIn(s, f) : Behind(x, f, i) /\ list[k] = s.files[f][i]
        BY <3>1
      <3>3. Behind(y, f, i) /\ longer[k] = s.files[f][i]
        BY <1>2, <2>2, <3>2
      <3> QED BY <3>3
    <2> QED BY <1>6, <2>1, <2>2
  <1>11. ASSUME NEW f \in read, NEW i \in OwnIn(s, f), Behind(y, f, i)
         PROVE  \E k \in 1 .. len + 1 : longer[k] = s.files[f][i]
    <2>1. CASE f = t /\ i = at
      BY <1>6, <1>7, <2>1
    <2>2. CASE ~(f = t /\ i = at)
      <3>1. Behind(x, f, i)
        BY <1>2, <1>11, <2>2
      <3>2. PICK k \in 1 .. len : list[k] = s.files[f][i]
        BY <3>1 DEF BlocksOK
      <3> QED BY <1>6, <3>2
    <2> QED BY <2>1, <2>2
  <1>12. ASSUME NEW k \in 1 .. len + 1, NEW l \in 1 .. len + 1, longer[k] = longer[l]
         PROVE  k = l
    <2>1. CASE k \in 1 .. len /\ l \in 1 .. len
      BY <1>12, <2>1 DEF BlocksOK
    <2>2. CASE k = len + 1
      BY <1>6, <1>7, <1>9, <1>12, <2>2
    <2>3. CASE l = len + 1
      BY <1>6, <1>7, <1>9, <1>12, <2>3
    <2> QED BY <1>6, <2>1, <2>2, <2>3
  <1>13. ASSUME NEW f \in read, NEW i \in OwnIn(s, f), NEW j \in OwnIn(s, f), i < j,
                NEW k \in 1 .. len + 1, NEW l \in 1 .. len + 1,
                longer[k] = s.files[f][i], longer[l] = s.files[f][j]
         PROVE  k < l
    <2>1. CASE k \in 1 .. len /\ l \in 1 .. len
      <3>1. InOrder(s, f, list) /\ list[k] = s.files[f][i] /\ list[l] = s.files[f][j]
        BY <1>13, <2>1 DEF BlocksOK
      <3> QED BY <1>13, <2>1, <3>1 DEF InOrder
    <2>2. CASE k = len + 1
      <3>1. f = t /\ i = at
        BY <1>4, <1>7, <1>13, <2>2 DEF OnceWritten
      <3>2. CASE l = len + 1
        <4>1. j = at
          BY <1>4, <1>7, <1>13, <3>1, <3>2 DEF OnceWritten
        <4> QED BY <1>5, <1>13, <3>1, <4>1
      <3>3. CASE l \in 1 .. len
        <4>1. PICK g \in read : \E h \in OwnIn(s, g) : Behind(x, g, h) /\ list[l] = s.files[g][h]
          BY <1>8, <3>3
        <4>2. PICK h \in OwnIn(s, g) : Behind(x, g, h) /\ list[l] = s.files[g][h]
          BY <4>1
        <4>3. s.files[f][j] = s.files[g][h]
          BY <1>13, <3>3, <4>2
        <4>4. g = f /\ h = j
          BY <4>3 DEF OnceWritten
        <4>5. j < at
          BY <3>1, <4>2, <4>4 DEF Behind, t, at
        <4> QED BY <1>5, <1>13, <3>1, <4>5
      <3> QED BY <1>6, <3>2, <3>3
    <2>3. CASE k \in 1 .. len /\ l = len + 1
      BY <1>6, <2>3
    <2> QED BY <1>6, <2>1, <2>2, <2>3
  <1>14. \A f \in read : InOrder(s, f, longer)
    BY <1>13 DEF InOrder
  <1>15. \A k \in DOMAIN longer : \E f \in read : \E i \in OwnIn(s, f) :
           Behind(y, f, i) /\ longer[k] = s.files[f][i]
    BY <1>10
  <1>16. \A f \in read : \A i \in OwnIn(s, f) :
           Behind(y, f, i) => \E k \in DOMAIN longer : longer[k] = s.files[f][i]
    BY <1>11
  <1>17. \A k, l \in DOMAIN longer : longer[k] = longer[l] => k = l
    BY <1>12
  <1> QED BY <1>14, <1>15, <1>16, <1>17, Zenon DEF BlocksOK

\* What the frames say of their files.
LEMMA FramesAre ==
  ASSUME LoadTypeOK
  PROVE  /\ OnceWritten(source) /\ seen \subseteq DOMAIN source.files
         /\ \A f \in DOMAIN source.files : DOMAIN source.files[f] \subseteq Nat \ {0}
         /\ \A k \in DOMAIN stack :
              stack[k].file \in seen /\ stack[k].file \in DOMAIN source.files /\ stack[k].next \in Nat
  <1>1. WellFormed(source) /\ seen \subseteq DOMAIN source.files
    BY DEF LoadTypeOK
  <1>2. ASSUME NEW f \in DOMAIN source.files PROVE DOMAIN source.files[f] \subseteq Nat \ {0}
    <2>1. Len(source.files[f]) \in Nat /\ DOMAIN source.files[f] = 1 .. Len(source.files[f])
      BY <1>1, FilesAreLists
    <2> QED BY <2>1
  <1>3. OnceWritten(source)
    <2> SUFFICES ASSUME NEW f \in DOMAIN source.files, NEW g \in DOMAIN source.files,
                        NEW i \in OwnIn(source, f), NEW j \in OwnIn(source, g),
                        source.files[f][i] = source.files[g][j]
                 PROVE  f = g /\ i = j
      BY DEF OnceWritten
    <2>1. /\ i \in DOMAIN source.files[f] /\ source.files[f][i].kind # "import"
          /\ j \in DOMAIN source.files[g]
      BY DEF OwnIn
    <2> QED BY <1>1, <2>1 DEF WellFormed
  <1>4. ASSUME NEW k \in DOMAIN stack
        PROVE stack[k].file \in seen /\ stack[k].file \in DOMAIN source.files /\ stack[k].next \in Nat
    <2>1. FrameFits(source.files, seen, stack[k])
      BY DEF LoadTypeOK
    <2>2. stack[k].file \in DOMAIN source.files
      BY <1>1, <2>1 DEF FrameFits
    <2>3. Len(source.files[stack[k].file]) \in Nat
      BY <1>1, <2>2, FilesAreLists
    <2> QED BY <2>1, <2>2, <2>3 DEF FrameFits
  <1> QED BY <1>1, <1>2, <1>3, <1>4

ReadInv == StackInv /\ FinishedInv /\ BlocksInv

\* While files are read there is one on top.
LEMMA ReadingIs ==
  ASSUME LoadTypeOK, Reading, NEW n, n = Len(stack)
  PROVE  /\ n \in Nat \ {0} /\ DOMAIN stack = 1 .. n /\ stack # <<>> /\ Last(stack) = stack[n]
         /\ OnceWritten(source) /\ seen \subseteq DOMAIN source.files
         /\ \A f \in DOMAIN source.files : DOMAIN source.files[f] \subseteq Nat \ {0}
         /\ \A k \in 1 .. n :
              /\ stack[k].file \in seen /\ stack[k].file \in DOMAIN source.files
              /\ DOMAIN source.files[stack[k].file] \subseteq Nat /\ stack[k].next \in Nat
  <1>1. n \in Nat \ {0} /\ DOMAIN stack = 1 .. n /\ stack # <<>> /\ Last(stack) = stack[n]
    BY TopIs DEF Reading
  <1> QED BY <1>1, FramesAre

\* The item is read.
LEMMA ItemIsRead ==
  ASSUME LoadTypeOK, Reading, ~AtEnd, NEW n, n = Len(stack)
  PROVE  /\ Item = source.files[stack[n].file][stack[n].next]
         /\ stack[n].next \in DOMAIN source.files[stack[n].file]
         /\ OneFurther(stack, Advanced, n) /\ Advanced # <<>>
         /\ DOMAIN Advanced = 1 .. n /\ Len(Advanced) = n /\ Advanced \in Seq(Frames)
  <1>1. /\ Len(stack) \in Nat \ {0}
        /\ Item = source.files[stack[n].file][stack[n].next]
        /\ stack[n].next \in DOMAIN source.files[stack[n].file]
    BY TopIs DEF Item
  <1>2. /\ Len(Advanced) = Len(stack) /\ DOMAIN Advanced = 1 .. Len(stack)
        /\ Advanced \in Seq(Frames)
        /\ \A k \in 1 .. Len(stack) : Advanced[k].file = stack[k].file
        /\ \A k \in 1 .. Len(stack) : k # Len(stack) => Advanced[k].next = stack[k].next
        /\ Advanced[Len(stack)].next = stack[Len(stack)].next + 1
    BY AdvancedIs, Zenon
  <1>3. Advanced # <<>>
    <2> DEFINE y == Advanced
    <2>1. Len(y) = Len(stack)
      BY <1>2
    <2> HIDE DEF y
    <2>2. y # <<>>
      BY <1>1, <2>1
    <2> QED BY <2>2 DEF y
  <1> QED BY <1>1, <1>2, <1>3, Zenon DEF OneFurther

\* Also after a file that was imported before.
LEMMA AgainReads == ASSUME LoadTypeOK, ReadInv, ImportAgain PROVE ReadInv'
  <1> DEFINE n == Len(stack)
             g == Item.file
             y == Advanced
  <1>1. Reading /\ ~AtEnd /\ Item.kind = "import" /\ g \in seen \ FilesOf(stack)
    BY OnStackIs DEF ImportAgain, ClosesCycle
  <1>2. stack' = y /\ seen' = seen /\ source' = source /\ blocks' = blocks
    BY DEF ImportAgain
  <1>3. /\ n \in Nat \ {0} /\ DOMAIN stack = 1 .. n /\ stack # <<>>
        /\ OnceWritten(source) /\ seen \subseteq DOMAIN source.files
        /\ \A f \in DOMAIN source.files : DOMAIN source.files[f] \subseteq Nat \ {0}
        /\ \A k \in 1 .. n :
             DOMAIN source.files[stack[k].file] \subseteq Nat /\ stack[k].next \in Nat
    BY <1>1, ReadingIs
  <1>4. /\ Item = source.files[stack[n].file][stack[n].next]
        /\ OneFurther(stack, y, n) /\ y # <<>>
    BY <1>1, ItemIsRead
  <1>5. StackOK(source, stack, seen) /\ BlocksOK(source, stack, seen, blocks)
        /\ FinishedOK(source, seen \ FilesOf(stack))
    BY DEF ReadInv, StackInv, BlocksInv, FinishedInv
  <1>6. source.files[stack[n].file][stack[n].next].kind = "import"
    BY <1>1, <1>4
  <1>7. NextReady(source, stack, n, seen, {})
    <2>1. (seen \ FilesOf(stack)) \cap source.withProject = {}
      BY <1>3, <1>5, FinishedAreImported
    <2> QED BY <1>1, <1>4, <2>1 DEF NextReady
  <1> HIDE DEF n, g, y
  <1>8. StackOK(source, y, seen) /\ FilesOf(y) = FilesOf(stack)
    BY <1>3, <1>4, <1>5, <1>7, AdvanceStack, Zenon
  <1>9. ASSUME NEW f \in seen, NEW i \in OwnIn(source, f)
        PROVE  Behind(y, f, i) <=> Behind(stack, f, i)
    <2>1. i \in Nat
      BY <1>3 DEF OwnIn
    <2> QED BY <1>3, <1>4, <1>6, <2>1, ImportIsNoBlock
  <1>10. BlocksOK(source, y, seen, blocks)
    <2>1. \A f \in seen \ seen : \A i \in OwnIn(source, f) : ~Behind(y, f, i)
      OBVIOUS
    <2>2. \A f \in seen : \A i \in OwnIn(source, f) : Behind(y, f, i) <=> Behind(stack, f, i)
      BY <1>9
    <2> QED BY <1>3, <1>5, <2>1, <2>2, BlocksStay
  <1>11. StackOK(source', stack', seen') /\ BlocksOK(source', stack', seen', blocks')
         /\ FinishedOK(source', seen' \ FilesOf(stack'))
    BY <1>2, <1>5, <1>8, <1>10
  <1> QED BY <1>11 DEF ReadInv, StackInv, BlocksInv, FinishedInv

\* Also after a file that is imported for the first time.
LEMMA ImportReads == ASSUME LoadTypeOK, ReadInv, ImportFile PROVE ReadInv'
  <1> DEFINE n == Len(stack)
             g == Item.file
             y == Advanced
             frame == [file |-> g, next |-> 1]
             z == Append(y, frame)
  <1>1. /\ Reading /\ ~AtEnd /\ Item.kind = "import" /\ g \notin seen /\ g \notin source.withProject
        /\ g \in DOMAIN source.files
    BY DEF ImportFile
  <1>2. stack' = z /\ seen' = seen \cup {g} /\ source' = source /\ blocks' = blocks
    BY DEF ImportFile
  <1>3. /\ n \in Nat \ {0} /\ DOMAIN stack = 1 .. n /\ stack # <<>>
        /\ OnceWritten(source) /\ seen \subseteq DOMAIN source.files
        /\ \A f \in DOMAIN source.files : DOMAIN source.files[f] \subseteq Nat \ {0}
        /\ \A k \in 1 .. n :
             DOMAIN source.files[stack[k].file] \subseteq Nat /\ stack[k].next \in Nat
    BY <1>1, ReadingIs
  <1>4. /\ Item = source.files[stack[n].file][stack[n].next]
        /\ stack[n].next \in DOMAIN source.files[stack[n].file]
        /\ OneFurther(stack, y, n) /\ DOMAIN y = 1 .. n /\ Len(y) = n /\ y \in Seq(Frames)
    BY <1>1, ItemIsRead
  <1>5. StackOK(source, stack, seen) /\ BlocksOK(source, stack, seen, blocks)
        /\ FinishedOK(source, seen \ FilesOf(stack))
    BY DEF ReadInv, StackInv, BlocksInv, FinishedInv
  <1>6. /\ source.files[stack[n].file][stack[n].next].kind = "import"
        /\ source.files[stack[n].file][stack[n].next].file = g
    BY <1>1, <1>4
  <1>7. frame \in Frames /\ frame.file = g /\ frame.next = 1
    BY <1>1 DEF Frames
  <1> HIDE DEF n, g, y, frame
  <1>8. /\ z # <<>> /\ DOMAIN z = 1 .. n + 1 /\ \A k \in 1 .. n : z[k] = y[k]
        /\ z[n + 1].file = g /\ z[n + 1].next = 1
    <2> DEFINE w == Append(y, frame)
    <2>1. /\ Len(w) = n + 1 /\ DOMAIN w = 1 .. n + 1 /\ w[n + 1] = frame
          /\ \A k \in 1 .. n : w[k] = y[k]
      BY <1>4, <1>7, AppendIs
    <2> HIDE DEF w
    <2>2. w # <<>>
      BY <1>3, <2>1
    <2>3. /\ w # <<>> /\ DOMAIN w = 1 .. n + 1 /\ \A k \in 1 .. n : w[k] = y[k]
          /\ w[n + 1].file = g /\ w[n + 1].next = 1
      BY <1>7, <2>1, <2>2
    <2> QED BY <2>3 DEF w
  <1> HIDE DEF z
  <1>9. /\ StackOK(source, z, seen \cup {g}) /\ FilesOf(z) = FilesOf(stack) \cup {g}
        /\ (seen \cup {g}) \ FilesOf(z) = seen \ FilesOf(stack)
    <2>1. DOMAIN source.files[g] \subseteq Nat \ {0}
      BY <1>1, <1>3
    <2>2. g \notin seen /\ g \notin source.withProject
      BY <1>1
    <2>3. Pushed(source, stack, y, z, n, g)
      BY <1>3, <1>4, <1>6, <1>8, <2>1, <2>2, Zenon DEF Pushed
    <2>4. KeepsFinished(source, stack, z, seen, g)
      BY <1>5, <2>2, <2>3, PushStack, Zenon
    <2> QED BY <2>4 DEF KeepsFinished
  <1>10. ASSUME NEW f \in seen \cup {g}, NEW i \in OwnIn(source, f)
         PROVE  /\ f \in seen => (Behind(z, f, i) <=> Behind(stack, f, i))
                /\ f = g => ~Behind(z, f, i)
    <2>1. i \in Nat \ {0} /\ i \in Nat
      BY <1>1, <1>3 DEF OwnIn
    <2>2. Behind(y, f, i) <=> Behind(stack, f, i)
      BY <1>3, <1>4, <1>6, <2>1, ImportIsNoBlock
    <2>3. /\ z[n + 1].file # f => (Behind(z, f, i) <=> Behind(y, f, i))
          /\ z[n + 1].file = f => ~Behind(z, f, i)
      BY <1>3, <1>4, <1>8, <2>1, PushedIsAhead
    <2> QED BY <1>1, <1>8, <2>2, <2>3
  <1>11. BlocksOK(source, z, seen \cup {g}, blocks)
    <2> DEFINE more == seen \cup {g}
    <2>1. \A f \in more \ seen : \A i \in OwnIn(source, f) : ~Behind(z, f, i)
      BY <1>10
    <2>2. \A f \in seen : \A i \in OwnIn(source, f) : Behind(z, f, i) <=> Behind(stack, f, i)
      BY <1>10
    <2>3. seen \subseteq more /\ more \subseteq DOMAIN source.files
      BY <1>1, <1>3
    <2> HIDE DEF more
    <2>4. BlocksOK(source, z, more, blocks)
      BY <1>3, <1>5, <2>1, <2>2, <2>3, BlocksStay
    <2> QED BY <2>4 DEF more
  <1>12. StackOK(source', stack', seen') /\ BlocksOK(source', stack', seen', blocks')
         /\ FinishedOK(source', seen' \ FilesOf(stack'))
    BY <1>2, <1>5, <1>9, <1>11
  <1> QED BY <1>12 DEF ReadInv, StackInv, BlocksInv, FinishedInv

\* Also after a block.
LEMMA BlockReads == ASSUME LoadTypeOK, ReadInv, TakeBlock PROVE ReadInv'
  <1> DEFINE n == Len(stack)
             len == Len(blocks)
             y == Advanced
             longer == Append(blocks, Item)
  <1>1. Reading /\ ~AtEnd /\ Item.kind # "import"
    BY DEF TakeBlock
  <1>2. stack' = y /\ seen' = seen /\ source' = source /\ blocks' = longer
    BY DEF TakeBlock
  <1>3. /\ n \in Nat \ {0} /\ DOMAIN stack = 1 .. n /\ stack # <<>>
        /\ OnceWritten(source) /\ seen \subseteq DOMAIN source.files
        /\ \A f \in DOMAIN source.files : DOMAIN source.files[f] \subseteq Nat \ {0}
        /\ \A k \in 1 .. n :
             /\ stack[k].file \in seen
             /\ DOMAIN source.files[stack[k].file] \subseteq Nat /\ stack[k].next \in Nat
    BY <1>1, ReadingIs
  <1>4. /\ Item = source.files[stack[n].file][stack[n].next]
        /\ stack[n].next \in DOMAIN source.files[stack[n].file]
        /\ OneFurther(stack, y, n) /\ y # <<>>
    BY <1>1, ItemIsRead
  <1>5. StackOK(source, stack, seen) /\ BlocksOK(source, stack, seen, blocks)
        /\ FinishedOK(source, seen \ FilesOf(stack))
    BY DEF ReadInv, StackInv, BlocksInv, FinishedInv
  <1>6. /\ len \in Nat /\ DOMAIN blocks = 1 .. len /\ DOMAIN longer = 1 .. len + 1
        /\ longer[len + 1] = Item /\ \A k \in 1 .. len : longer[k] = blocks[k]
    <2>1. blocks \in Seq(Written) /\ Item \in Written
      BY <1>1, TopIs DEF LoadTypeOK
    <2> QED BY <2>1, AppendIs
  <1>7. NextReady(source, stack, n, seen, {})
    BY <1>1, <1>4 DEF NextReady
  <1>8. stack[n].next \in OwnIn(source, stack[n].file)
    BY <1>1, <1>4 DEF OwnIn
  <1>9. longer[len + 1] = source.files[stack[n].file][stack[n].next]
    BY <1>4, <1>6
  <1> HIDE DEF n, len, y, longer
  <1>10. StackOK(source, y, seen) /\ FilesOf(y) = FilesOf(stack)
    BY <1>3, <1>4, <1>5, <1>7, AdvanceStack, Zenon
  <1>11. BlocksOK(source, y, seen, longer)
    <2>1. \A j, k \in 1 .. n : stack[j].file = stack[k].file => j = k
      BY <1>3, <1>5 DEF StackOK
    <2>2. \A f \in seen : DOMAIN source.files[f] \subseteq Nat
      BY <1>3
    <2>3. stack[n].file \in seen /\ \A k \in 1 .. n : stack[k].next \in Nat
      BY <1>3
    <2>4. n \in Nat \ {0} /\ DOMAIN stack = 1 .. n /\ OneFurther(stack, y, n)
      BY <1>3, <1>4
    <2>5. OnceWritten(source) /\ seen \subseteq DOMAIN source.files
      BY <1>3
    <2>6. BlocksOK(source, stack, seen, blocks) /\ len \in Nat /\ DOMAIN blocks = 1 .. len
      BY <1>5, <1>6
    <2>7. DOMAIN longer = 1 .. len + 1 /\ \A k \in 1 .. len : longer[k] = blocks[k]
      BY <1>6
    <2> QED BY <1>8, <1>9, <2>1, <2>2, <2>3, <2>4, <2>5, <2>6, <2>7, BlockComes
  <1>12. StackOK(source', stack', seen') /\ BlocksOK(source', stack', seen', blocks')
         /\ FinishedOK(source', seen' \ FilesOf(stack'))
    BY <1>2, <1>5, <1>10, <1>11
  <1> QED BY <1>12 DEF ReadInv, StackInv, BlocksInv, FinishedInv

\* Also at the end of a file.
LEMMA EndReads == ASSUME LoadTypeOK, ReadInv, EndFile PROVE ReadInv'
  <1> DEFINE n == Len(stack)
             y == Front(stack)
  <1>1. Reading /\ AtEnd
    BY DEF EndFile
  <1>2. stack' = y /\ seen' = seen /\ source' = source /\ blocks' = blocks
    BY DEF EndFile
  <1>3. /\ n \in Nat \ {0} /\ DOMAIN stack = 1 .. n /\ stack # <<>> /\ Last(stack) = stack[n]
        /\ OnceWritten(source) /\ seen \subseteq DOMAIN source.files
        /\ \A f \in DOMAIN source.files : DOMAIN source.files[f] \subseteq Nat \ {0}
        /\ \A k \in 1 .. n :
             /\ stack[k].file \in DOMAIN source.files
             /\ DOMAIN source.files[stack[k].file] \subseteq Nat /\ stack[k].next \in Nat
    BY <1>1, ReadingIs
  <1>4. StackOK(source, stack, seen) /\ BlocksOK(source, stack, seen, blocks)
        /\ FinishedOK(source, seen \ FilesOf(stack))
    BY DEF ReadInv, StackInv, BlocksInv, FinishedInv
  <1>5. \A i \in DOMAIN source.files[stack[n].file] : i < stack[n].next
    <2>1. stack[n].next > Len(source.files[stack[n].file])
      BY <1>1, <1>3 DEF AtEnd
    <2>2. /\ Len(source.files[stack[n].file]) \in Nat
          /\ DOMAIN source.files[stack[n].file] = 1 .. Len(source.files[stack[n].file])
      BY <1>3, FilesAreLists DEF LoadTypeOK
    <2> QED BY <1>3, <2>1, <2>2
  <1>6. DOMAIN y = 1 .. n - 1 /\ (\A k \in 1 .. n - 1 : y[k] = stack[k]) /\ (y # <<>> => n # 1)
    <2>1. stack \in Seq(Frames)
      BY DEF LoadTypeOK
    <2>2. y = [k \in 1 .. n - 1 |-> stack[k]]
      BY <1>3, <2>1 DEF Front
    <2>3. n = 1 => y = <<>>
      BY <2>2
    <2> QED BY <2>2, <2>3
  <1> HIDE DEF n, y
  <1>7. StackOK(source, y, seen) /\ FinishedOK(source, seen \ FilesOf(y))
    <2>1. DOMAIN source.files[stack[n].file] \subseteq Nat /\ stack[n].next \in Nat
      BY <1>3
    <2> QED BY <1>3, <1>4, <1>5, <1>6, <2>1, PopStack
  <1>8. ASSUME NEW f \in seen, NEW i \in OwnIn(source, f)
        PROVE  Behind(y, f, i) <=> Behind(stack, f, i)
    <2>1. stack[n].file = f => i < stack[n].next
      BY <1>5 DEF OwnIn
    <2> QED BY <1>3, <1>6, <2>1, PoppedIsBehind
  <1>9. BlocksOK(source, y, seen, blocks)
    <2>1. \A f \in seen \ seen : \A i \in OwnIn(source, f) : ~Behind(y, f, i)
      OBVIOUS
    <2>2. \A f \in seen : \A i \in OwnIn(source, f) : Behind(y, f, i) <=> Behind(stack, f, i)
      BY <1>8
    <2> QED BY <1>3, <1>4, <2>1, <2>2, BlocksStay
  <1>10. StackOK(source', stack', seen') /\ BlocksOK(source', stack', seen', blocks')
         /\ FinishedOK(source', seen' \ FilesOf(stack'))
    BY <1>2, <1>7, <1>9
  <1> QED BY <1>10 DEF ReadInv, StackInv, BlocksInv, FinishedInv

\* Nothing but the reading of files changes what is read.
THEOREM ReadInvHolds == LoadSpec => []ReadInv
  <1>1. LoadInit /\ WellFormed(source) => ReadInv
    <2> SUFFICES ASSUME LoadInit, WellFormed(source) PROVE ReadInv
      OBVIOUS
    <2> DEFINE x == <<[file |-> Root, next |-> 1]>>
    <2>1. stack = x /\ seen = {Root} /\ blocks = <<>>
      BY DEF LoadInit
    <2>2. DOMAIN x = {1} /\ x[1].file = Root /\ x[1].next = 1 /\ x # <<>>
      OBVIOUS
    <2>3. DOMAIN source.files[Root] \subseteq Nat \ {0}
      <3>1. Root \in DOMAIN source.files
        BY DEF WellFormed
      <3>2. /\ Len(source.files[Root]) \in Nat
            /\ DOMAIN source.files[Root] = 1 .. Len(source.files[Root])
        BY <3>1, FilesAreLists
      <3> QED BY <3>2
    <2> HIDE DEF x
    <2>4. FilesOf(x) = {Root}
      BY <2>2 DEF FilesOf
    <2>5. ImportsRead(source, x, {Root}, 1)
      BY <2>2, <2>3 DEF ImportsRead
    <2>6. StackOK(source, x, {Root})
      BY <2>2, <2>4, <2>5 DEF StackOK
    <2>7. FinishedOK(source, {Root} \ FilesOf(x))
      BY <2>4 DEF FinishedOK
    <2>8. BlocksOK(source, x, {Root}, <<>>)
      <3>1. \A i \in OwnIn(source, Root) : ~Behind(x, Root, i)
        BY <2>2, <2>3 DEF OwnIn, Behind
      <3>2. DOMAIN <<>> = {}
        OBVIOUS
      <3> QED BY <3>1, <3>2 DEF BlocksOK, InOrder
    <2> QED BY <2>1, <2>6, <2>7, <2>8 DEF ReadInv, StackInv, FinishedInv, BlocksInv
  <1>2. LoadTypeOK /\ ReadInv /\ [LoadNext]_loadVars => ReadInv'
    <2> SUFFICES ASSUME LoadTypeOK, ReadInv, [LoadNext]_loadVars PROVE ReadInv'
      OBVIOUS
    <2>1. CASE UNCHANGED <<source, stack, seen, blocks>>
      <3>1. source' = source /\ stack' = stack /\ seen' = seen /\ blocks' = blocks
        BY <2>1
      <3> QED BY <3>1 DEF ReadInv, StackInv, FinishedInv, BlocksInv
    <2>2. CASE UNCHANGED loadVars \/ ImportRefused
      BY <2>1, <2>2 DEF loadVars, ImportRefused, Refuse
    <2>3. CASE ImportAgain
      BY <2>3, AgainReads
    <2>4. CASE ImportFile
      BY <2>4, ImportReads
    <2>5. CASE TakeBlock
      BY <2>5, BlockReads
    <2>6. CASE EndFile
      BY <2>6, EndReads
    <2>7. CASE OpenLayer \/ CloseLayer \/ ResolveName
      BY <2>1, <2>7 DEF OpenLayer, CloseLayer, ResolveName, Refuse
    <2>8. CASE RegisterPrimitives \/ RegisterTargets \/ AttachAgents \/ RegisterRest
               \/ RunPlugins \/ WireProducedInputs
      BY <2>1, <2>8 DEF RegisterPrimitives, RegisterTargets, AttachAgents, RegisterRest,
                        RunPlugins, WireProducedInputs, Register, Refuse
    <2> QED BY <2>2, <2>3, <2>4, <2>5, <2>6, <2>7, <2>8 DEF LoadNext
  <1> QED BY <1>1, <1>2, LoadTypes, PTL DEF LoadSpec

\* The files from p upwards import one another in a circle when the one on top imports p.
LEMMA CircleOnStack ==
  ASSUME NEW s, NEW x, NEW n \in Nat \ {0}, DOMAIN x = 1 .. n, NEW read, StackOK(s, x, read),
         read \subseteq DOMAIN s.files, NEW p \in 1 .. n,
         x[p].file \in ImportsIn(s, x[n].file)
  PROVE  HasCycle([f \in DOMAIN s.files |-> ImportsIn(s, f)])
  <1> DEFINE knot == {x[k].file : k \in p .. n}
             next == [f \in DOMAIN s.files |-> ImportsIn(s, f)]
  <1>1. \A k \in p .. n : k \in DOMAIN x /\ x[k].file \in FilesOf(x)
    BY DEF FilesOf
  <1>2. knot \subseteq DOMAIN s.files
    <2>1. FilesOf(x) \subseteq read
      BY DEF StackOK
    <2> QED BY <1>1, <2>1
  <1>3. x[p].file \in knot /\ x[n].file \in knot
    OBVIOUS
  <1>4. ASSUME NEW k \in p .. n PROVE ImportsIn(s, x[k].file) \cap knot # {}
    <2>1. CASE k = n
      BY <1>3, <2>1
    <2>2. CASE k # n
      <3>1. k \in DOMAIN x /\ k + 1 \in DOMAIN x /\ k + 1 \in p .. n
        BY <2>2
      <3>2. x[k + 1].file \in ImportsIn(s, x[k].file)
        BY <3>1 DEF StackOK
      <3> QED BY <3>1, <3>2
    <2> QED BY <2>1, <2>2
  <1>5. DOMAIN next = DOMAIN s.files /\ \A f \in knot : next[f] = ImportsIn(s, f)
    BY <1>2
  <1>6. knot \in (SUBSET DOMAIN next) \ {{}}
    BY <1>2, <1>3, <1>5
  <1>7. \A f \in knot : next[f] \cap knot # {}
    <2> HIDE DEF next
    <2>1. \A f \in knot : ImportsIn(s, f) \cap knot # {}
      BY <1>4
    <2> QED BY <1>5, <2>1
  <1> HIDE DEF knot, next
  <1>8. HasCycle(next)
    BY <1>6, <1>7 DEF HasCycle
  <1> QED BY <1>8 DEF next

\* An import is refused with a reason.
LEMMA RefusalHasReason == ASSUME LoadTypeOK, ReadInv, ImportRefused PROVE Reason
  <1> DEFINE n == Len(stack)
             g == Item.file
             top == stack[n].file
  <1>1. Reading /\ ~AtEnd /\ Item.kind = "import"
    BY DEF ImportRefused
  <1>2. /\ n \in Nat \ {0} /\ DOMAIN stack = 1 .. n /\ seen \subseteq DOMAIN source.files
        /\ \A k \in 1 .. n : stack[k].file \in seen
    BY <1>1, ReadingIs
  <1>3. g \in ImportsIn(source, top)
    <2>1. /\ Item = source.files[stack[n].file][stack[n].next]
          /\ stack[n].next \in DOMAIN source.files[stack[n].file]
      BY <1>1, ItemIsRead
    <2> QED BY <1>1, <2>1, ImportIs
  <1>4. top \in seen
    BY <1>2
  <1>5. CASE g \notin DOMAIN source.files \/ g \in source.withProject
    BY <1>3, <1>4, <1>5 DEF Reason
  <1>6. CASE g \in OnStack
    <2>1. PICK p \in 1 .. n : stack[p].file = g
      BY <1>2, <1>6, OnStackIs DEF FilesOf
    <2>2. StackOK(source, stack, seen)
      BY DEF ReadInv, StackInv
    <2> HIDE DEF n, g
    <2>3. HasCycle([f \in DOMAIN source.files |-> ImportsIn(source, f)])
      BY <1>2, <1>3, <2>1, <2>2, CircleOnStack
    <2> QED BY <2>3 DEF Reason
  <1> QED BY <1>5, <1>6 DEF ImportRefused, ClosesCycle

\* A load that is refused while it reads files has a reason.
THEOREM ReasonHolds == LoadSpec => []ReasonInv
  <1>1. LoadInit => ReasonInv
    BY DEF LoadInit, ReasonInv
  <1>2. LoadTypeOK /\ ReadInv /\ ReasonInv /\ [LoadNext]_loadVars => ReasonInv'
    <2> SUFFICES ASSUME LoadTypeOK, ReadInv, ReasonInv, [LoadNext]_loadVars PROVE ReasonInv'
      OBVIOUS
    <2>1. ASSUME source' = source, seen' = seen, Reason PROVE Reason'
      BY <2>1 DEF Reason, ImportsIn
    <2>2. CASE UNCHANGED loadVars
      BY <2>1, <2>2 DEF ReasonInv, loadVars
    <2>3. CASE ImportRefused
      <3>1. Reason /\ source' = source /\ seen' = seen
        BY <2>3, RefusalHasReason DEF ImportRefused, Refuse
      <3> QED BY <2>1, <3>1 DEF ReasonInv
    <2>4. CASE phase' # "refused"
      BY <2>4 DEF ReasonInv
    <2>5. CASE phase \notin {"imports", "refused"} /\ stack' = stack
      BY <2>5 DEF ReasonInv, LoadTypeOK
    <2>6. CASE ImportAgain \/ ImportFile \/ TakeBlock \/ EndFile
      BY <2>4, <2>6 DEF ImportAgain, ImportFile, TakeBlock, EndFile, Reading
    <2>7. CASE OpenLayer \/ CloseLayer \/ ResolveName
      BY <2>5, <2>7 DEF OpenLayer, CloseLayer, ResolveName, Refuse
    <2>8. CASE RegisterPrimitives \/ RegisterTargets \/ AttachAgents \/ RegisterRest
               \/ RunPlugins \/ WireProducedInputs
      BY <2>5, <2>8 DEF RegisterPrimitives, RegisterTargets, AttachAgents, RegisterRest,
                        RunPlugins, WireProducedInputs, Register, Refuse
    <2> QED BY <2>2, <2>3, <2>6, <2>7, <2>8 DEF LoadNext
  <1> QED BY <1>1, <1>2, LoadTypes, ReadInvHolds, PTL DEF LoadSpec

\* The same canonical file is loaded once, and its blocks stay in the order of the file;
\* a cycle of imports, or a file that lacks, is refused, and nothing else is
\* (importLoader.load, mergeImportBlocks).
THEOREM ImportsOnceAlways == LoadSpec => []ImportsOnce
  <1>1. ASSUME LoadTypeOK, ReadInv, ReasonInv PROVE ImportsOnce
    <2>1. \A f : Imports(f) = ImportsIn(source, f) /\ OwnBlocks(f) = OwnIn(source, f)
      BY DEF Imports, ImportsIn, OwnBlocks, OwnIn
    <2>2. StackOK(source, stack, seen) /\ BlocksOK(source, stack, seen, blocks)
          /\ FinishedOK(source, seen \ FilesOf(stack))
      BY <1>1 DEF ReadInv, StackInv, BlocksInv, FinishedInv
    <2>3. ASSUME Spliced PROVE FilesOf(stack) = {} /\ \A f, i : Behind(stack, f, i)
      <3>1. stack = <<>>
        BY <1>1, <2>3 DEF LoadTypeOK, Spliced
      <3>2. DOMAIN stack = {}
        BY <3>1
      <3> QED BY <3>2 DEF FilesOf, Behind
    <2>4. ASSUME Spliced, NEW f \in seen PROVE Imports(f) \subseteq seen \ source.withProject
      <3>1. FinishedOK(source, seen)
        BY <2>2, <2>3, <2>4
      <3> QED BY <2>1, <3>1 DEF FinishedOK
    <2>5. ASSUME Spliced PROVE ~HasCycle([f \in seen |-> Imports(f)])
      <3>1. FinishedOK(source, seen)
        BY <2>2, <2>3, <2>5
      <3> DEFINE next == [f \in seen |-> Imports(f)]
      <3>2. DOMAIN next = seen /\ \A f \in seen : next[f] = ImportsIn(source, f)
        BY <2>1
      <3> HIDE DEF next
      <3>3. ~HasCycle(next)
        BY <3>1, <3>2 DEF HasCycle, FinishedOK
      <3> QED BY <3>3 DEF next
    <2>6. ASSUME Spliced, NEW f \in seen, NEW i \in OwnBlocks(f)
          PROVE  Cardinality(Places(source.files[f][i])) = 1
      <3>1. i \in OwnIn(source, f) /\ Behind(stack, f, i)
        BY <2>1, <2>3, <2>6
      <3>2. PICK k \in DOMAIN blocks : blocks[k] = source.files[f][i]
        BY <2>2, <3>1 DEF BlocksOK
      <3>3. \A l \in DOMAIN blocks : blocks[l] = source.files[f][i] => l = k
        BY <2>2, <3>2 DEF BlocksOK
      <3>4. Places(source.files[f][i]) = {k}
        BY <3>2, <3>3 DEF Places
      <3> QED BY <3>4, FS_Singleton
    <2>7. ASSUME Spliced, NEW f \in seen, NEW i \in OwnBlocks(f), NEW j \in OwnBlocks(f), i < j,
                 NEW k \in Places(source.files[f][i]), NEW l \in Places(source.files[f][j])
          PROVE  k < l
      <3>1. InOrder(source, f, blocks)
        BY <2>2 DEF BlocksOK
      <3>2. i \in OwnIn(source, f) /\ j \in OwnIn(source, f)
        BY <2>1
      <3> QED BY <2>7, <3>1, <3>2 DEF InOrder, Places
    <2>8. ASSUME phase = "refused", stack # <<>>
          PROVE  \/ HasCycle([f \in DOMAIN source.files |-> Imports(f)])
                 \/ \E f \in seen : \E g \in Imports(f) :
                      g \notin DOMAIN source.files \/ g \in source.withProject
      <3>1. Reason
        BY <1>1, <2>8 DEF ReasonInv
      <3>2. [f \in DOMAIN source.files |-> Imports(f)]
              = [f \in DOMAIN source.files |-> ImportsIn(source, f)]
        BY <2>1
      <3> QED BY <2>1, <3>1, <3>2 DEF Reason
    <2> QED BY <2>4, <2>5, <2>6, <2>7, <2>8 DEF ImportsOnce
  <1> QED BY <1>1, LoadTypes, ReadInvHolds, ReasonHolds, PTL
=============================================================================
