------------------------ MODULE ConfigCaptureProofs ------------------------
(***************************************************************************)
(* Theorems about ConfigCapture, for every set of names, every number of   *)
(* blocks and inodes, and every bound.                                     *)
(*                                                                         *)
(* The argument.  A name that no longer is what the inventory says never   *)
(* is so again: either the clock is past the time the inventory has, and   *)
(* whatever is written gets a later one, or its binding has been edited    *)
(* within that tick and is not edited again.  So a file that is unchanged  *)
(* when the second walk has read it was unchanged all along.  A block of   *)
(* it that nevertheless differs from what was captured was written in the  *)
(* tick of the inventory, after it had been read, and once; so what the    *)
(* directory had when the second walk listed it, the second walk reads,    *)
(* and the hashes differ.                                                  *)
(***************************************************************************)
EXTENDS ConfigCapture, FiniteSetTheorems, TLAPS

Visiting == {"visit", "met", "open", "read", "close"}
Pcs == {"root", "inventory", "list", "stat", "returned"} \cup Visiting
Parts == {s \in Seq(Values) : Len(s) <= Blocks}
CaptureType == [pc : Pcs, pass : 1..2, todo : SUBSET Names, seen : Nat,
                dirTime : 0..MaxTick, before : [Names -> Infos],
                fd : Inodes \cup {None}, data : Parts]

Types ==
  /\ files \in [Names -> Inodes \cup {None}]
  /\ inode \in [Inodes -> [time : 0..MaxTick, data : Contents]]
  /\ dirTime \in 0..MaxTick /\ clock \in 0..MaxTick /\ samePath \in BOOLEAN
  /\ touched \subseteq Names \X (0..Blocks) /\ edits \in 0..MaxEdits
  /\ capture \in CaptureType
  /\ captured \in [Names -> Contents \cup {None}]
  /\ boundary \in [Names -> Contents \cup {None}]
  /\ outcome \in {"none", "ok", "changed", "failed", "empty"}
  /\ \A a, b \in Present : files[a] = files[b] => a = b
  /\ \A id \in Inodes : inode[id].time <= clock

\* The name is bound to the inode of the inventory, with the time it has there.
Same(name) == files[name] # None /\ capture.before[name] = Info(files[name])

\* An edit of this cell of the name cannot be hidden any more.
Sealed(name, cell) == clock > capture.before[name].time \/ <<name, cell>> \in touched

Listed == {name \in Names : boundary[name] # None}
Data(name) == inode[files[name]].data

\* What is no longer as in the inventory stays so.
Settled ==
  \A name \in Inventoried :
    /\ capture.before[name].time <= inode[capture.before[name].id].time
    /\ ~Same(name) => Sealed(name, 0)

\* Where captureConfig is, and what it has by then.
Control ==
  /\ outcome = "none" <=> capture.pc # "returned"
  /\ capture.pc \in {"root", "inventory", "stat"} => capture.pass = 1
  /\ capture.pc = "met" => capture.pass = 2
  /\ capture.pass = 1 /\ capture.pc \in {"root", "inventory", "list"} => Inventoried = {}
  /\ capture.pass = 1 /\ capture.pc \in {"root", "inventory", "list", "stat"} =>
       \A name \in Names : captured[name] = None
  /\ capture.pass = 1 /\ capture.pc \in Visiting =>
       /\ capture.todo \subseteq Inventoried
       /\ \A name \in Names : captured[name] # None <=> name \in Inventoried \ capture.todo
  /\ capture.pass = 2 /\ capture.pc # "returned" =>
       \A name \in Names : captured[name] # None <=> name \in Inventoried
  /\ capture.pass = 2 /\ capture.pc \in Visiting => capture.todo \subseteq Listed
  /\ capture.pc \in {"read", "close"} =>
       /\ capture.pc = "close" => Len(capture.data) = Blocks
       /\ capture.fd \in Inodes
       /\ \A name \in Names : NextName(name) =>
            name \in Inventoried /\ capture.fd = capture.before[name].id

\* The first walk: what has been read is what the file has, or sealed.
FirstWalk ==
  /\ capture.pass = 1 /\ capture.pc \in {"read", "close"} =>
       \A name \in Names : NextName(name) /\ Same(name) =>
         \A b \in 1..Len(capture.data) : capture.data[b] = Data(name)[b] \/ Sealed(name, b)
  /\ (capture.pass = 1 /\ capture.pc # "returned") \/ (capture.pass = 2 /\ capture.pc = "list") =>
       \A name \in Inventoried : captured[name] # None /\ Same(name) =>
         \A b \in 1..Blocks : captured[name][b] = Data(name)[b] \/ Sealed(name, b)

\* The second walk: what differed when the directory was listed still does.
SecondWalk ==
  capture.pass = 2 /\ capture.pc \in Visiting =>
    /\ \A name \in Listed \cap Inventoried : Same(name) =>
         \A b \in 1..Blocks : \/ boundary[name][b] = captured[name][b]
                              \/ Data(name)[b] = boundary[name][b] /\ Sealed(name, b)
    /\ capture.pc \in {"read", "close"} =>
         \A name \in Names : NextName(name) /\ Same(name) =>
           \A b \in 1..Len(capture.data) : \/ boundary[name][b] = captured[name][b]
                                           \/ capture.data[b] = boundary[name][b]
    /\ Listed \ capture.todo \subseteq Inventoried
    /\ \A name \in Listed \ capture.todo : captured[name] = boundary[name]

\* The second walk counts what it meets, the directory first.
Counted ==
  /\ capture.pass = 1 /\ capture.pc # "returned" => capture.seen = 0
  /\ capture.pass = 2 /\ capture.pc = "list" => capture.seen = 1
  /\ capture.pass = 2 /\ capture.pc \in Visiting =>
       capture.seen = Cardinality(Listed \ capture.todo) + 1
  /\ capture.seen \in 0..Cardinality(Names) + 1

IInv == Types /\ Settled /\ Control /\ FirstWalk /\ SecondWalk /\ Counted /\ CaptureIsSnapshot

\* As long as nothing is edited everything is as it was found.
Quiet ==
  /\ outcome # "changed" /\ samePath = TRUE /\ dirTime = 0 /\ capture.dirTime = 0
  /\ \A name \in Inventoried : Same(name)
  /\ capture.pc = "stat" => /\ capture.todo \subseteq Present
                            /\ Inventoried = Present \ capture.todo
  /\ capture.pc \in Visiting \/ capture.pass = 2 => Inventoried = Present
  /\ capture.pc \in Visiting => capture.todo \subseteq Present
  /\ capture.pc # "returned" => \A name \in Present : captured[name] \in {None, Data(name)}
  /\ capture.pc \in {"read", "close"} => \A name \in Names : NextName(name) =>
       \A b \in 1..Len(capture.data) : capture.data[b] = Data(name)[b]
  /\ capture.pass = 2 /\ capture.pc \in Visiting => Listed = Present

QuietInv == edits = 0 => Quiet
-----------------------------------------------------------------------------
(* The walk has one next name.                                             *)

LEMMA OneNextName ==
  ASSUME Types, NEW a \in Names, NEW b \in Names, NextName(a), NextName(b)
  PROVE  a = b
<1>1. a \in Nat /\ b \in Nat /\ a <= b /\ b <= a
  BY NamesAssumption DEF NextName
<1>2. QED
  BY <1>1

\* What the inventory has of a name is an inode and its time.
LEMMA InventoriedType ==
  ASSUME Types, NEW name \in Inventoried
  PROVE  /\ name \in Names /\ capture.before[name] \in [id : Inodes, time : 0..MaxTick]
         /\ capture.before[name].id \in Inodes /\ capture.before[name].time \in 0..MaxTick
BY DEF Types, CaptureType, Infos, Inventoried

LEMMA SameMeans ==
  ASSUME Types, NEW name \in Inventoried
  PROVE  Same(name) <=> /\ files[name] = capture.before[name].id
                        /\ inode[capture.before[name].id].time = capture.before[name].time
<1>1. /\ name \in Names /\ capture.before[name] \in [id : Inodes, time : 0..MaxTick]
      /\ capture.before[name].id \in Inodes
  BY InventoriedType
<1>2. capture.before[name].id # None
  BY <1>1, NoneAssumption
<1>3. QED
  BY <1>1, <1>2 DEF Same, Info

-----------------------------------------------------------------------------
LEMMA InitInv == Init => IInv
<1> SUFFICES ASSUME Init PROVE IInv
  OBVIOUS
<1>1. PICK data \in Contents : inode = [id \in Inodes |-> [time |-> 0, data |-> data]]
  BY DEF Init
<1>2. /\ capture = [pc |-> "root", pass |-> 1, todo |-> {}, seen |-> 0,
                    dirTime |-> 0, before |-> [name \in Names |-> None],
                    fd |-> None, data |-> <<>>]
      /\ captured = [name \in Names |-> None] /\ boundary = [name \in Names |-> None]
      /\ outcome = "none"
  BY DEF Init
<1>3. Inventoried = {}
  BY <1>2 DEF Inventoried
<1>4. capture \in CaptureType
  <2>1. <<>> \in Parts
    BY BlocksAssumption DEF Parts
  <2>2. QED
    BY <1>2, <2>1, TickAssumption DEF CaptureType, Pcs, Infos
<1>5. Types
  BY <1>1, <1>2, <1>4, TickAssumption DEF Init, Types, Present
<1>6. Settled /\ Control /\ FirstWalk /\ SecondWalk /\ CaptureIsSnapshot
  BY <1>2, <1>3 DEF Settled, Control, FirstWalk, SecondWalk, CaptureIsSnapshot, Visiting
<1>7. Counted
  BY <1>2, NamesAssumption, FS_CardinalityType DEF Counted, Visiting
<1>8. QED
  BY <1>5, <1>6, <1>7 DEF IInv

-----------------------------------------------------------------------------
(* Edits.  An edit seals what it changes, and nothing that has changed     *)
(* becomes again what it was.                                              *)

EditKeeps(name) ==
  /\ capture.before[name].time <= inode'[capture.before[name].id].time
  /\ Same(name)' => Same(name)
  /\ ~Same(name)' => Sealed(name, 0)'
  /\ \A cell \in 0..Blocks : Sealed(name, cell) => Sealed(name, cell)'
  /\ Same(name)' => \A b \in 1..Blocks :
       Data(name)'[b] = Data(name)[b] \/ (Sealed(name, b)' /\ ~Sealed(name, b))

LEMMA EditInv ==
  ASSUME IInv, Types', UNCHANGED <<capture, captured, boundary, outcome>>,
         \A name \in Inventoried : EditKeeps(name)
  PROVE  IInv'
<1>0. /\ Inventoried' = Inventoried /\ Listed' = Listed
      /\ \A name \in Names : NextName(name)' <=> NextName(name)
  BY DEF Inventoried, Listed, NextName
<1>1. Settled'
  BY <1>0 DEF EditKeeps, Settled
<1>2. Control' /\ Counted' /\ CaptureIsSnapshot'
  BY <1>0 DEF IInv, Control, Counted, CaptureIsSnapshot
<1>3. FirstWalk'
  <2>1. ASSUME capture.pass = 1, capture.pc \in {"read", "close"},
               NEW name \in Names, NextName(name), Same(name)', NEW b \in 1..Len(capture.data)
        PROVE  capture.data[b] = Data(name)'[b] \/ Sealed(name, b)'
    <3>1. name \in Inventoried /\ b \in 1..Blocks /\ b \in 0..Blocks
      <4>1. Len(capture.data) \in Nat /\ Len(capture.data) <= Blocks /\ name \in Inventoried
        BY <2>1 DEF IInv, Types, CaptureType, Parts, Control
      <4>2. QED
        BY <2>1, <4>1, BlocksAssumption
    <3>2. QED
      BY <2>1, <3>1 DEF EditKeeps, IInv, FirstWalk
  <2>2. ASSUME (capture.pass = 1 /\ capture.pc # "returned")
                 \/ (capture.pass = 2 /\ capture.pc = "list"),
               NEW name \in Inventoried, captured[name] # None, Same(name)', NEW b \in 1..Blocks
        PROVE  captured[name][b] = Data(name)'[b] \/ Sealed(name, b)'
    <3>1. b \in 0..Blocks
      BY BlocksAssumption
    <3>2. QED
      BY <2>2, <3>1 DEF EditKeeps, IInv, FirstWalk
  <2>3. QED
    BY <1>0, <2>1, <2>2 DEF FirstWalk
<1>4. SecondWalk'
  <2>1. ASSUME capture.pass = 2, capture.pc \in Visiting,
               NEW name \in Listed \cap Inventoried, Same(name)', NEW b \in 1..Blocks
        PROVE  \/ boundary[name][b] = captured[name][b]
               \/ Data(name)'[b] = boundary[name][b] /\ Sealed(name, b)'
    <3>1. b \in 0..Blocks
      BY BlocksAssumption
    <3>2. QED
      BY <2>1, <3>1 DEF EditKeeps, IInv, SecondWalk
  <2>2. ASSUME capture.pass = 2, capture.pc \in {"read", "close"},
               NEW name \in Names, NextName(name), Same(name)', NEW b \in 1..Len(capture.data)
        PROVE  \/ boundary[name][b] = captured[name][b]
               \/ capture.data[b] = boundary[name][b]
    BY <2>2 DEF EditKeeps, IInv, SecondWalk, Control, Visiting
  <2>3. QED
    BY <1>0, <2>1, <2>2 DEF IInv, SecondWalk
<1>5. QED
  BY <1>1, <1>2, <1>3, <1>4 DEF IInv

LEMMA TickInv == ASSUME IInv, Tick PROVE IInv'
<1>1. /\ clock' = clock + 1 /\ touched' = {} /\ clock < MaxTick
      /\ UNCHANGED <<files, inode, dirTime, samePath, edits>>
      /\ UNCHANGED <<capture, captured, boundary, outcome>>
  BY DEF Tick
<1>2. Types'
  BY <1>1, TickAssumption DEF IInv, Types, Present
<1>3. ASSUME NEW name \in Inventoried PROVE EditKeeps(name)
  <2>1. /\ capture.before[name].id \in Inodes /\ capture.before[name].time \in 0..MaxTick
    BY <1>3, InventoriedType DEF IInv
  <2>2. /\ capture.before[name].time <= inode[capture.before[name].id].time
        /\ inode[capture.before[name].id].time <= clock
        /\ inode[capture.before[name].id].time \in 0..MaxTick
    BY <1>3, <2>1 DEF IInv, Settled, Types
  <2>3. clock' > capture.before[name].time
    BY <1>1, <2>1, <2>2, TickAssumption DEF IInv, Types
  <2>4. (Same(name)' <=> Same(name)) /\ Data(name)' = Data(name)
    BY <1>1 DEF Same, Info, Data
  <2>5. \A cell : Sealed(name, cell)'
    BY <1>1, <2>3 DEF Sealed
  <2>6. QED
    BY <1>1, <2>2, <2>4, <2>5 DEF EditKeeps
<1>4. QED
  BY <1>1, <1>2, <1>3, EditInv

LEMMA SwapDirectoryInv == ASSUME IInv, SwapDirectory PROVE IInv'
<1>1. /\ samePath' = ~samePath /\ edits' = edits + 1 /\ edits < MaxEdits
      /\ UNCHANGED <<files, inode, dirTime, clock, touched>>
      /\ UNCHANGED <<capture, captured, boundary, outcome>>
  BY DEF SwapDirectory
<1>2. Types'
  BY <1>1, TickAssumption DEF IInv, Types, Present
<1>3. ASSUME NEW name \in Inventoried PROVE EditKeeps(name)
  BY <1>1 DEF EditKeeps, Same, Info, Data, Sealed, IInv, Settled
<1>4. QED
  BY <1>1, <1>2, <1>3, EditInv

LEMMA RemoveInv == ASSUME IInv, NEW name \in Names, Remove(name) PROVE IInv'
<1>1. /\ files' = [files EXCEPT ![name] = None] /\ dirTime' = clock /\ edits' = edits + 1
      /\ edits < MaxEdits /\ touched' = touched \cup {<<name, 0>>}
      /\ UNCHANGED <<inode, samePath, clock>>
      /\ UNCHANGED <<capture, captured, boundary, outcome>>
  BY DEF Remove, Edits
<1>2. Types'
  <2>1. <<name, 0>> \in Names \X (0..Blocks)
    BY BlocksAssumption
  <2>2. QED
    BY <1>1, <2>1, TickAssumption DEF IInv, Types, Present
<1>3. ASSUME NEW n \in Inventoried PROVE EditKeeps(n)
  <2>1. /\ n \in Names /\ capture.before[n].id \in Inodes
    BY <1>3, InventoriedType DEF IInv
  <2>2. \A cell : Sealed(n, cell) => Sealed(n, cell)'
    BY <1>1 DEF Sealed
  <2>3. CASE n = name
    <3>1. ~Same(n)' /\ Sealed(n, 0)'
      BY <1>1, <2>1, <2>3 DEF Same, Sealed, IInv, Types
    <3>2. QED
      BY <1>1, <2>2, <3>1 DEF EditKeeps, IInv, Settled
  <2>4. CASE n # name
    <3>1. files'[n] = files[n]
      BY <1>1, <2>1, <2>4 DEF IInv, Types
    <3>2. (Same(n)' <=> Same(n)) /\ Data(n)' = Data(n)
      BY <1>1, <3>1 DEF Same, Info, Data
    <3>3. QED
      BY <1>1, <2>2, <3>2 DEF EditKeeps, IInv, Settled
  <2>5. QED
    BY <2>3, <2>4
<1>4. QED
  BY <1>1, <1>2, <1>3, EditInv

LEMMA BindInv ==
  ASSUME IInv, NEW name \in Names, NEW id \in Inodes, NEW data \in Contents, Bind(name, id, data)
  PROVE  IInv'
<1>1. /\ files' = [files EXCEPT ![name] = id] /\ dirTime' = clock /\ edits' = edits + 1
      /\ inode' = [inode EXCEPT ![id] = [time |-> clock, data |-> data]]
      /\ edits < MaxEdits /\ touched' = touched \cup {<<name, 0>>} /\ <<name, 0>> \notin touched
      /\ UNCHANGED <<samePath, clock>>
      /\ UNCHANGED <<capture, captured, boundary, outcome>>
  BY DEF Bind, Edits
<1>2. /\ \A n \in Names : files[n] # id
      /\ \A n \in Names : files'[n] = IF n = name THEN id ELSE files[n]
      /\ \A x \in Inodes : inode'[x] = IF x = id THEN [time |-> clock, data |-> data]
                                       ELSE inode[x]
  BY <1>1 DEF Bind, Free, IInv, Types
<1>3. Types'
  <2>1. <<name, 0>> \in Names \X (0..Blocks)
    BY BlocksAssumption
  <2>2. [time |-> clock, data |-> data] \in [time : 0..MaxTick, data : Contents]
    BY DEF IInv, Types
  <2>3. /\ \A a, b \in Present' : files'[a] = files'[b] => a = b
        /\ \A x \in Inodes : inode'[x].time <= clock
    BY <1>2 DEF IInv, Types, Present
  <2>4. QED
    BY <1>1, <2>1, <2>2, <2>3, TickAssumption DEF IInv, Types
<1>4. ASSUME NEW n \in Inventoried PROVE EditKeeps(n)
  <2> DEFINE was == capture.before[n]
  <2>1. /\ n \in Names /\ was.id \in Inodes /\ was.time \in 0..MaxTick
        /\ was.time <= inode[was.id].time /\ inode[was.id].time <= clock
        /\ inode[was.id].time \in 0..MaxTick /\ clock \in 0..MaxTick
    BY <1>4, InventoriedType DEF IInv, Settled, Types
  <2>2. \A cell : Sealed(n, cell) => Sealed(n, cell)'
    BY <1>1 DEF Sealed
  <2>3. was.time <= inode'[was.id].time
    BY <1>2, <2>1
  <2>4. CASE n = name
    <3>1. Sealed(n, 0)'
      BY <1>1, <2>4 DEF Sealed
    <3>2. ~Same(n)'
      <4>1. SUFFICES ASSUME Same(n)' PROVE FALSE
        OBVIOUS
      <4>2. was = [id |-> id, time |-> clock]
        BY <1>1, <1>2, <2>1, <2>4, <4>1 DEF Same, Info
      <4>3. ~Sealed(n, 0)
        BY <1>1, <2>1, <2>4, <4>2 DEF Sealed
      <4>4. Same(n)
        BY <4>3 DEF IInv, Settled
      <4>5. files[n] = id
        BY <4>2, <4>4 DEF Same, Info
      <4>6. QED
        BY <1>2, <2>1, <4>5
    <3>3. QED
      BY <2>2, <2>3, <3>1, <3>2 DEF EditKeeps
  <2>5. CASE n # name
    <3>1. files'[n] = files[n] /\ (files[n] # None => inode'[files[n]] = inode[files[n]])
      BY <1>2, <2>1, <2>5 DEF IInv, Types
    <3>2. (Same(n)' <=> Same(n)) /\ (Same(n) => Data(n)' = Data(n))
      BY <1>1, <3>1 DEF Same, Info, Data
    <3>3. QED
      BY <2>2, <2>3, <3>2 DEF EditKeeps, IInv, Settled
  <2>6. QED
    BY <2>4, <2>5
<1>5. QED
  BY <1>1, <1>3, <1>4, EditInv

LEMMA WriteBlockInv ==
  ASSUME IInv, NEW name \in Names, NEW block \in 1..Blocks, NEW value \in Values,
         WriteBlock(name, block, value)
  PROVE  IInv'
<1> DEFINE id == files[name]
<1>1. /\ edits' = edits + 1 /\ edits < MaxEdits /\ <<name, block>> \notin touched
      /\ touched' = touched \cup {<<name, block>>} /\ id # None
      /\ UNCHANGED <<files, dirTime, samePath, clock>>
      /\ UNCHANGED <<capture, captured, boundary, outcome>>
  BY DEF WriteBlock, Edits
<1>2. id \in Inodes /\ inode[id] \in [time : 0..MaxTick, data : Contents]
  BY <1>1 DEF IInv, Types
<1>3. inode' = [inode EXCEPT ![id] = [time |-> clock,
                                      data |-> [inode[id].data EXCEPT ![block] = value]]]
  BY <1>2 DEF WriteBlock, IInv, Types
<1>4. /\ [inode[id].data EXCEPT ![block] = value] \in Contents
      /\ \A b \in 1..Blocks : b # block =>
           [inode[id].data EXCEPT ![block] = value][b] = inode[id].data[b]
  BY <1>2 DEF Contents
<1> DEFINE new == [inode[id].data EXCEPT ![block] = value]
<1> HIDE DEF new
<1>5. \A x \in Inodes : inode'[x] = IF x = id THEN [time |-> clock, data |-> new] ELSE inode[x]
  BY <1>2, <1>3 DEF IInv, Types, new
<1>6. Types'
  <2>1. <<name, block>> \in Names \X (0..Blocks)
    BY BlocksAssumption
  <2>2. inode' \in [Inodes -> [time : 0..MaxTick, data : Contents]]
    BY <1>3, <1>4 DEF IInv, Types
  <2>3. \A x \in Inodes : inode'[x].time <= clock
    BY <1>5 DEF IInv, Types
  <2>4. QED
    BY <1>1, <2>1, <2>2, <2>3, TickAssumption DEF IInv, Types, Present
<1>7. ASSUME NEW n \in Inventoried PROVE EditKeeps(n)
  <2> DEFINE was == capture.before[n]
  <2>1. /\ n \in Names /\ was.id \in Inodes /\ was.time \in 0..MaxTick
        /\ was.time <= inode[was.id].time /\ inode[was.id].time <= clock
        /\ inode[was.id].time \in 0..MaxTick /\ clock \in 0..MaxTick
    BY <1>7, InventoriedType DEF IInv, Settled, Types
  <2>2. \A cell : Sealed(n, cell) => Sealed(n, cell)'
    BY <1>1 DEF Sealed
  <2>3. was.time <= inode'[was.id].time
    BY <1>5, <2>1
  <2>4. Same(n) <=> files[n] = was.id /\ inode[was.id].time = was.time
    BY <1>7, SameMeans DEF IInv
  <2>5. Same(n)' <=> files[n] = was.id /\ inode'[was.id].time = was.time
    <3>1. was.id # None /\ was \in [id : Inodes, time : 0..MaxTick]
      BY <1>7, InventoriedType, NoneAssumption DEF IInv
    <3>2. QED
      BY <1>1, <3>1 DEF Same, Info
  <2>6. CASE n = name
    <3>1. Same(n)' => clock = was.time /\ files[n] = was.id
      BY <1>5, <2>1, <2>5, <2>6
    <3>2. Same(n)' => Same(n)
      BY <2>1, <2>4, <3>1
    <3>3. ~Same(n)' => Sealed(n, 0)'
      <4>1. CASE ~Same(n)
        BY <2>2, <4>1 DEF IInv, Settled
      <4>2. CASE Same(n) /\ ~Same(n)'
        <5>1. files[n] = was.id /\ inode'[was.id].time = clock /\ clock # was.time
          BY <1>5, <2>1, <2>4, <2>5, <2>6, <4>2
        <5>2. QED
          BY <1>1, <2>1, <5>1 DEF Sealed
      <4>3. QED
        BY <4>1, <4>2
    <3>4. Same(n)' => \A b \in 1..Blocks :
            Data(n)'[b] = Data(n)[b] \/ (Sealed(n, b)' /\ ~Sealed(n, b))
      <4>1. SUFFICES ASSUME Same(n)', NEW b \in 1..Blocks
                     PROVE  Data(n)'[b] = Data(n)[b] \/ (Sealed(n, b)' /\ ~Sealed(n, b))
        OBVIOUS
      <4>2. CASE b = block
        BY <1>1, <2>1, <2>6, <3>1, <4>1, <4>2 DEF Sealed
      <4>3. CASE b # block
        <5>1. Data(n)' = new /\ Data(n) = inode[id].data
          BY <1>1, <1>2, <1>5, <2>6 DEF Data
        <5>2. new[b] = inode[id].data[b]
          BY <1>4, <4>3 DEF new
        <5>3. QED
          BY <5>1, <5>2
      <4>4. QED
        BY <4>2, <4>3
    <3>5. QED
      BY <2>2, <2>3, <3>2, <3>3, <3>4 DEF EditKeeps
  <2>7. CASE n # name
    <3>1. files[n] # None => files[n] # id /\ files[n] \in Inodes /\ inode'[files[n]] = inode[files[n]]
      BY <1>1, <1>5, <2>1, <2>7 DEF IInv, Types, Present
    <3>2. (Same(n)' <=> Same(n)) /\ (Same(n) => Data(n)' = Data(n))
      BY <1>1, <3>1 DEF Same, Info, Data
    <3>3. QED
      BY <2>2, <2>3, <3>2 DEF EditKeeps, IInv, Settled
  <2>8. QED
    BY <2>6, <2>7
<1>8. QED
  BY <1>1, <1>6, <1>7, EditInv
-----------------------------------------------------------------------------
(* captureConfig.                                                          *)

\* As long as the inventory stays, what is said of its names does.
LEMMA LocalStep ==
  ASSUME UNCHANGED fsVars, capture'.before = capture.before
  PROVE  /\ Inventoried' = Inventoried /\ Present' = Present
         /\ Settled => Settled'
         /\ \A name : /\ Same(name)' <=> Same(name)
                      /\ Data(name)' = Data(name)
                      /\ \A cell : Sealed(name, cell)' <=> Sealed(name, cell)
BY DEF fsVars, Inventoried, Present, Same, Info, Data, Sealed, Settled

LEMMA LocalTypes ==
  ASSUME IInv, UNCHANGED fsVars, capture' \in CaptureType,
         captured' \in [Names -> Contents \cup {None}],
         boundary' \in [Names -> Contents \cup {None}],
         outcome' \in {"none", "ok", "changed", "failed", "empty"}
  PROVE  Types'
BY DEF IInv, Types, fsVars, Present

LEMMA RefusesInv ==
  ASSUME IInv, NEW why \in {"ok", "changed", "failed", "empty"},
         why = "ok" => captured = boundary, Refuses(why)
  PROVE  IInv'
<1>1. /\ capture' = [capture EXCEPT !.pc = "returned"] /\ outcome' = why
      /\ UNCHANGED fsVars /\ captured' = captured /\ boundary' = boundary
  BY DEF Refuses
<1>2. /\ capture' \in CaptureType /\ capture'.pc = "returned"
      /\ capture'.before = capture.before /\ capture'.seen = capture.seen
      /\ capture'.pass = capture.pass
  BY <1>1 DEF IInv, Types, CaptureType, Pcs
<1>3. Types'
  BY <1>1, <1>2, LocalTypes DEF IInv, Types
<1>4. Settled'
  BY <1>1, <1>2, LocalStep DEF IInv
<1>5. Control' /\ FirstWalk' /\ SecondWalk' /\ Counted' /\ CaptureIsSnapshot'
  BY <1>1, <1>2
     DEF IInv, Control, FirstWalk, SecondWalk, Counted, CaptureIsSnapshot, Visiting
<1>6. QED
  BY <1>3, <1>4, <1>5 DEF IInv

\* Steps that only move the program counter, to where no file is open.
LEMMA MovesInv ==
  ASSUME IInv, NEW to \in Pcs, Goes([capture EXCEPT !.pc = to]),
         \/ capture.pc = "root" /\ to = "inventory"
         \/ capture.pc = "visit" /\ capture.pass = 2 /\ to = "met"
         \/ capture.pc \in {"visit", "met"} /\ to = "open"
  PROVE  IInv'
<1>1. /\ capture' = [capture EXCEPT !.pc = to]
      /\ UNCHANGED fsVars /\ captured' = captured /\ boundary' = boundary /\ outcome' = outcome
  BY DEF Goes
<1>2. /\ capture' \in CaptureType /\ capture'.pc = to
      /\ capture'.before = capture.before /\ capture'.seen = capture.seen
      /\ capture'.pass = capture.pass /\ capture'.todo = capture.todo
  BY <1>1 DEF IInv, Types, CaptureType
<1>3. Types'
  BY <1>1, <1>2, LocalTypes DEF IInv, Types
<1>4. /\ Inventoried' = Inventoried /\ Settled' /\ Listed' = Listed
      /\ \A name : /\ Same(name)' <=> Same(name)
                   /\ Data(name)' = Data(name)
                   /\ \A cell : Sealed(name, cell)' <=> Sealed(name, cell)
  BY <1>1, <1>2, LocalStep DEF IInv, Listed
<1>5. Control' /\ Counted' /\ CaptureIsSnapshot'
  BY <1>1, <1>2, <1>4 DEF IInv, Control, Counted, CaptureIsSnapshot, Visiting
<1>6. FirstWalk'
  BY <1>1, <1>2, <1>4 DEF IInv, FirstWalk
<1>7. SecondWalk'
  BY <1>1, <1>2, <1>4 DEF IInv, Control, SecondWalk, Visiting
<1>8. QED
  BY <1>3, <1>4, <1>5, <1>6, <1>7 DEF IInv

LEMMA OpenRootInv == ASSUME IInv, OpenRoot PROVE IInv'
BY MovesInv, RefusesInv DEF OpenRoot, Pcs

LEMMA MeetFileInv == ASSUME IInv, NEW name \in Names, MeetFile(name) PROVE IInv'
BY MovesInv, RefusesInv DEF MeetFile, Pcs, Visiting

LEMMA VisitFileInv == ASSUME IInv, NEW name \in Names, VisitFile(name) PROVE IInv'
<1>1. capture.pc \in {"visit", "met"}
  BY DEF VisitFile
<1>2. QED
  BY <1>1, MovesInv, RefusesInv DEF VisitFile, Pcs, Visiting

LEMMA InventoryInv == ASSUME IInv, Inventory PROVE IInv'
<1>1. /\ capture' = [capture EXCEPT !.pc = "list", !.dirTime = dirTime]
      /\ UNCHANGED fsVars /\ captured' = captured /\ boundary' = boundary /\ outcome' = outcome
  BY DEF Inventory, Goes
<1>2. /\ capture' \in CaptureType /\ capture'.pc = "list"
      /\ capture'.before = capture.before /\ capture'.seen = capture.seen
      /\ capture'.pass = capture.pass /\ capture'.todo = capture.todo
  BY <1>1 DEF IInv, Types, CaptureType, Pcs
<1>3. Types'
  BY <1>1, <1>2, LocalTypes DEF IInv, Types
<1>4. Inventoried' = Inventoried /\ Settled' /\ capture.pc = "inventory" /\ capture.pass = 1
  BY <1>1, <1>2, LocalStep DEF IInv, Inventory, Control
<1>5. Control' /\ FirstWalk' /\ SecondWalk' /\ Counted' /\ CaptureIsSnapshot'
  BY <1>1, <1>2, <1>4
     DEF IInv, Control, FirstWalk, SecondWalk, Counted, CaptureIsSnapshot, Visiting
<1>6. QED
  BY <1>3, <1>4, <1>5 DEF IInv

LEMMA ListDirectoryInv == ASSUME IInv, ListDirectory PROVE IInv'
<1> DEFINE to == IF capture.pass = 1 THEN "stat" ELSE "visit"
<1>0. capture.pc = "list" /\ capture.pass \in 1..2
  BY DEF ListDirectory, IInv, Types, CaptureType
<1>1. /\ capture' = [capture EXCEPT !.pc = to, !.todo = Present]
      /\ boundary' = IF capture.pass = 2 THEN View ELSE boundary
      /\ UNCHANGED fsVars /\ captured' = captured /\ outcome' = outcome
  BY DEF ListDirectory
<1>2. /\ capture' \in CaptureType /\ capture'.pc = to
      /\ capture'.before = capture.before /\ capture'.seen = capture.seen
      /\ capture'.pass = capture.pass /\ capture'.todo = Present
  BY <1>1 DEF IInv, Types, CaptureType, Pcs, Visiting, Present
<1>3. /\ View \in [Names -> Contents \cup {None}]
      /\ \A name \in Names : files[name] # None =>
           View[name] # None /\ View[name] = Data(name)
      /\ \A name \in Names : files[name] = None => View[name] = None
  BY NoneAssumption DEF View, IInv, Types, Data
<1>4. Types'
  BY <1>0, <1>1, <1>2, <1>3, LocalTypes DEF IInv, Types
<1>5. /\ Inventoried' = Inventoried /\ Settled' /\ Present' = Present
      /\ \A name : /\ Same(name)' <=> Same(name)
                   /\ Data(name)' = Data(name)
                   /\ \A cell : Sealed(name, cell)' <=> Sealed(name, cell)
  BY <1>1, <1>2, LocalStep DEF IInv
<1>6. CASE capture.pass = 1
  <2>1. to = "stat"
    BY <1>6
  <2> HIDE DEF to
  <2>2. Control' /\ FirstWalk' /\ SecondWalk' /\ Counted' /\ CaptureIsSnapshot'
    BY <1>0, <1>1, <1>2, <1>5, <1>6, <2>1
       DEF IInv, Control, FirstWalk, SecondWalk, Counted, CaptureIsSnapshot, Visiting
  <2>3. QED
    BY <1>4, <1>5, <2>2 DEF IInv
<1>7. CASE capture.pass = 2
  <2>1. to = "visit" /\ boundary' = View /\ Listed' = Present
    BY <1>1, <1>3, <1>7 DEF Listed, Present
  <2> HIDE DEF to
  <2>2. Listed' \ capture'.todo = {}
    BY <1>2, <2>1
  <2>3. Control' /\ FirstWalk'
    BY <1>0, <1>1, <1>2, <1>5, <1>7, <2>1 DEF IInv, Control, FirstWalk, Visiting
  <2>4. SecondWalk'
    <3>1. ASSUME NEW name \in Present \cap Inventoried, Same(name), NEW b \in 1..Blocks
          PROVE  View[name][b] = captured[name][b] \/ (Data(name)[b] = View[name][b] /\ Sealed(name, b))
      <4>1. captured[name] # None /\ View[name] = Data(name)
        BY <1>0, <1>3, <1>7, <3>1 DEF Present, IInv, Control
      <4>2. captured[name][b] = Data(name)[b] \/ Sealed(name, b)
        BY <1>0, <1>7, <3>1, <4>1 DEF IInv, FirstWalk
      <4>3. QED
        BY <4>1, <4>2
    <3>2. QED
      BY <1>1, <1>2, <1>5, <2>1, <2>2, <3>1 DEF SecondWalk
  <2>5. Counted' /\ CaptureIsSnapshot'
    BY <1>0, <1>1, <1>2, <1>7, <2>1, <2>2, FS_EmptySet
       DEF IInv, Control, Counted, CaptureIsSnapshot, Visiting
  <2>6. QED
    BY <1>4, <1>5, <2>3, <2>4, <2>5 DEF IInv
<1>8. QED
  BY <1>0, <1>6, <1>7

LEMMA StatFileInv == ASSUME IInv, NEW name \in Names, StatFile(name) PROVE IInv'
<1>0. capture.pc = "stat" /\ capture.pass = 1
  BY DEF StatFile, IInv, Control
<1>1. CASE files[name] = None
  BY <1>1, RefusesInv DEF StatFile
<1>2. CASE files[name] # None
  <2>1. /\ capture' = [capture EXCEPT !.before[name] = Info(files[name]), !.todo = @ \ {name}]
        /\ UNCHANGED fsVars /\ captured' = captured /\ boundary' = boundary /\ outcome' = outcome
    BY <1>2 DEF StatFile, Goes
  <2>2. Info(files[name]) \in [id : Inodes, time : 0..MaxTick] /\ Info(files[name]) # None
    BY <1>2, NoneAssumption DEF Info, IInv, Types
  <2>3. /\ capture'.before = [capture.before EXCEPT ![name] = Info(files[name])]
        /\ capture'.pc = "stat" /\ capture'.pass = 1 /\ capture'.seen = capture.seen
        /\ capture'.todo = capture.todo \ {name}
    BY <1>0, <2>1 DEF IInv, Types, CaptureType
  <2>4. capture' \in CaptureType
    <3>1. [capture.before EXCEPT ![name] = Info(files[name])] \in [Names -> Infos]
      BY <2>2 DEF IInv, Types, CaptureType, Infos
    <3>2. capture' = [capture EXCEPT !.before = [capture.before EXCEPT ![name] = Info(files[name])],
                                     !.todo = capture.todo \ {name}]
      BY <2>1 DEF IInv, Types, CaptureType
    <3>3. QED
      BY <3>1, <3>2 DEF IInv, Types, CaptureType
  <2>5. Types'
    BY <2>1, <2>4, LocalTypes DEF IInv, Types
  <2>6. /\ Inventoried' = Inventoried \cup {name}
        /\ \A n \in Names \ {name} : capture'.before[n] = capture.before[n]
        /\ capture'.before[name] = Info(files[name])
    BY <2>2, <2>3 DEF Inventoried, IInv, Types, CaptureType
  <2>7. Settled'
    <3>1. ASSUME NEW n \in Inventoried' PROVE /\ capture'.before[n].time <= inode'[capture'.before[n].id].time
                                              /\ ~Same(n)' => Sealed(n, 0)'
      <4>1. CASE n = name
        BY <1>2, <2>1, <2>6, <4>1 DEF Same, Info, fsVars, IInv, Types
      <4>2. CASE n # name
        <5>1. n \in Inventoried /\ capture'.before[n] = capture.before[n]
          BY <2>6, <3>1, <4>2 DEF Inventoried
        <5>2. QED
          BY <2>1, <5>1 DEF IInv, Settled, Same, Sealed, Info, fsVars
      <4>3. QED
        BY <4>1, <4>2
    <3>2. QED
      BY <3>1 DEF Settled
  <2>8. Control' /\ SecondWalk' /\ Counted' /\ CaptureIsSnapshot'
    BY <1>0, <2>1, <2>3
       DEF IInv, Control, SecondWalk, Counted, CaptureIsSnapshot, Visiting
  <2>9. FirstWalk'
    <3>1. \A n \in Names : captured'[n] = None
      BY <1>0, <2>1 DEF IInv, Control
    <3>2. QED
      BY <2>3, <3>1 DEF FirstWalk, Inventoried
  <2>10. QED
    BY <2>5, <2>7, <2>8, <2>9 DEF IInv
<1>3. QED
  BY <1>1, <1>2

LEMMA StartCaptureInv == ASSUME IInv, StartCapture PROVE IInv'
<1>0. capture.pc = "stat" /\ capture.pass = 1
  BY DEF StartCapture, IInv, Control
<1>1. CASE Inventoried = {}
  BY <1>1, RefusesInv DEF StartCapture
<1>2. CASE Inventoried # {}
  <2>1. /\ capture' = [capture EXCEPT !.pc = "visit", !.todo = Inventoried]
        /\ UNCHANGED fsVars /\ captured' = captured /\ boundary' = boundary /\ outcome' = outcome
    BY <1>2 DEF StartCapture, Goes
  <2>2. /\ capture' \in CaptureType /\ capture'.pc = "visit"
        /\ capture'.before = capture.before /\ capture'.seen = capture.seen
        /\ capture'.pass = 1 /\ capture'.todo = Inventoried
    BY <1>0, <2>1 DEF IInv, Types, CaptureType, Pcs, Visiting, Inventoried
  <2>3. Types'
    BY <2>1, <2>2, LocalTypes DEF IInv, Types
  <2>4. Inventoried' = Inventoried /\ Settled'
    BY <2>1, <2>2, LocalStep DEF IInv
  <2>5. Control' /\ FirstWalk' /\ SecondWalk' /\ Counted' /\ CaptureIsSnapshot'
    BY <1>0, <2>1, <2>2, <2>4
       DEF IInv, Control, FirstWalk, SecondWalk, Counted, CaptureIsSnapshot, Visiting, Inventoried
  <2>6. QED
    BY <2>3, <2>4, <2>5 DEF IInv
<1>3. QED
  BY <1>1, <1>2

LEMMA OpenFileInv == ASSUME IInv, NEW name \in Names, OpenFile(name) PROVE IInv'
<1>0. capture.pc = "open" /\ NextName(name)
  BY DEF OpenFile
<1>1. CASE ~Unchanged(name, files[name])
  BY <1>1, RefusesInv DEF OpenFile
<1>2. CASE Unchanged(name, files[name])
  <2>1. /\ capture' = [capture EXCEPT !.pc = "read", !.fd = files[name], !.data = <<>>]
        /\ UNCHANGED fsVars /\ captured' = captured /\ boundary' = boundary /\ outcome' = outcome
    BY <1>2 DEF OpenFile, Goes
  <2>2. /\ capture' \in CaptureType /\ capture'.pc = "read" /\ capture'.data = <<>>
        /\ capture'.before = capture.before /\ capture'.seen = capture.seen
        /\ capture'.pass = capture.pass /\ capture'.todo = capture.todo
        /\ capture'.fd = files[name]
    <3>1. <<>> \in Parts /\ files[name] \in Inodes \cup {None} /\ "read" \in Pcs
      BY BlocksAssumption DEF IInv, Types, Pcs, Visiting, Parts
    <3>2. QED
      BY <2>1, <3>1 DEF IInv, Types, CaptureType
  <2>3. Types'
    BY <2>1, <2>2, LocalTypes DEF IInv, Types
  <2>4. /\ Inventoried' = Inventoried /\ Settled' /\ Listed' = Listed
        /\ \A n : /\ Same(n)' <=> Same(n)
                  /\ Data(n)' = Data(n)
                  /\ \A cell : Sealed(n, cell)' <=> Sealed(n, cell)
        /\ \A n : NextName(n)' <=> NextName(n)
    BY <2>1, <2>2, LocalStep DEF IInv, Listed, NextName
  <2>5. name \in Inventoried /\ capture.before[name].id = files[name] /\ files[name] \in Inodes
    BY <1>2, NoneAssumption DEF Unchanged, Inventoried, Info, IInv, Types
  <2>6. \A n \in Names : NextName(n) => n = name
    BY <1>0, OneNextName DEF IInv
  <2>7. Len(<<>>) = 0 /\ 1..0 = {} /\ 0 <= Blocks
    BY BlocksAssumption
  <2>8. Control'
    BY <1>0, <2>1, <2>2, <2>4, <2>5, <2>6, <2>7 DEF IInv, Control, Visiting
  <2>9. FirstWalk'
    BY <1>0, <2>1, <2>2, <2>4, <2>7 DEF IInv, FirstWalk
  <2>10. SecondWalk'
    BY <1>0, <2>1, <2>2, <2>4, <2>7 DEF IInv, SecondWalk, Visiting
  <2>11. Counted' /\ CaptureIsSnapshot'
    BY <1>0, <2>1, <2>2, <2>4 DEF IInv, Counted, CaptureIsSnapshot, Visiting
  <2>12. QED
    BY <2>3, <2>4, <2>8, <2>9, <2>10, <2>11 DEF IInv
<1>3. QED
  BY <1>1, <1>2

LEMMA ReadBlockInv == ASSUME IInv, ReadBlock PROVE IInv'
<1> DEFINE next == Len(capture.data) + 1
           block == inode[capture.fd].data[next]
<1>0. /\ capture.pc = "read" /\ Len(capture.data) < Blocks /\ capture.pass \in 1..2
      /\ capture.data \in Seq(Values) /\ Len(capture.data) \in Nat
  BY DEF ReadBlock, IInv, Types, CaptureType, Parts
<1>1. /\ capture' = [capture EXCEPT !.data = Append(capture.data, block)]
      /\ UNCHANGED fsVars /\ captured' = captured /\ boundary' = boundary /\ outcome' = outcome
  BY DEF ReadBlock, Goes, IInv, Types, CaptureType
<1>2. next \in 1..Blocks
  BY <1>0, BlocksAssumption
<1>3. block \in Values
  <2>1. inode[capture.fd].data \in Contents
    <3>1. capture.fd \in Inodes
      BY <1>0 DEF IInv, Control
    <3>2. inode \in [Inodes -> [time : 0..MaxTick, data : Contents]]
      BY DEF IInv, Types
    <3>3. QED
      BY <3>1, <3>2
  <2>2. QED
    BY <1>2, <2>1 DEF Contents
<1> HIDE DEF block
<1>4. /\ Append(capture.data, block) \in Parts
      /\ Len(Append(capture.data, block)) = next
      /\ \A b \in 1..next : Append(capture.data, block)[b]
                              = IF b = next THEN block ELSE capture.data[b]
  BY <1>0, <1>2, <1>3 DEF Parts
<1>5. /\ capture' \in CaptureType /\ capture'.pc = "read"
      /\ capture'.data = Append(capture.data, block)
      /\ capture'.before = capture.before /\ capture'.seen = capture.seen
      /\ capture'.pass = capture.pass /\ capture'.todo = capture.todo
      /\ capture'.fd = capture.fd
  BY <1>0, <1>1, <1>4 DEF IInv, Types, CaptureType
<1>6. Types'
  BY <1>1, <1>5, LocalTypes DEF IInv, Types
<1>7. /\ Inventoried' = Inventoried /\ Settled' /\ Listed' = Listed
      /\ \A n : /\ Same(n)' <=> Same(n)
                /\ Data(n)' = Data(n)
                /\ \A cell : Sealed(n, cell)' <=> Sealed(n, cell)
      /\ \A n : NextName(n)' <=> NextName(n)
  BY <1>1, <1>5, LocalStep DEF IInv, Listed, NextName
<1>8. \A n \in Names : NextName(n) /\ Same(n) => Data(n)[next] = block
  BY <1>0, SameMeans DEF IInv, Control, Data, block
<1>9. Control' /\ Counted' /\ CaptureIsSnapshot'
  BY <1>0, <1>1, <1>2, <1>4, <1>5, <1>7
     DEF IInv, Control, Counted, CaptureIsSnapshot, Visiting
<1> DEFINE data == Append(capture.data, block)
<1> HIDE DEF data
<1>10. /\ capture'.data = data /\ Len(data) = next
       /\ \A b \in 1..next : \/ b = next /\ data[b] = block
                             \/ b \in 1..Len(capture.data) /\ data[b] = capture.data[b]
  <2>1. \A b \in 1..next : b = next \/ b \in 1..Len(capture.data)
    BY <1>0
  <2>2. \A b \in 1..Len(capture.data) : b \in 1..next /\ b # next
    BY <1>0
  <2>3. /\ capture'.data = data /\ Len(data) = next
        /\ \A b \in 1..next : data[b] = IF b = next THEN block ELSE capture.data[b]
    BY <1>4, <1>5 DEF data
  <2>4. ASSUME NEW b \in 1..next
        PROVE  \/ b = next /\ data[b] = block
               \/ b \in 1..Len(capture.data) /\ data[b] = capture.data[b]
    <3>1. CASE b = next
      BY <2>3, <3>1
    <3>2. CASE b # next /\ b \in 1..Len(capture.data)
      BY <2>3, <3>2
    <3>3. QED
      BY <2>1, <3>1, <3>2
  <2>5. QED
    BY <2>3, <2>4
<1>11. FirstWalk'
  <2>1. ASSUME capture.pass = 1, NEW n \in Names, NextName(n), Same(n), NEW b \in 1..next
        PROVE  data[b] = Data(n)[b] \/ Sealed(n, b)
    <3>1. CASE b = next /\ data[b] = block
      BY <1>8, <2>1, <3>1
    <3>2. CASE b \in 1..Len(capture.data) /\ data[b] = capture.data[b]
      BY <1>0, <2>1, <3>2 DEF IInv, FirstWalk
    <3>3. QED
      BY <1>10, <2>1, <3>1, <3>2
  <2>2. ASSUME capture.pass = 1, NEW n \in Inventoried, captured[n] # None, Same(n), NEW b \in 1..Blocks
        PROVE  captured[n][b] = Data(n)[b] \/ Sealed(n, b)
    BY <1>0, <2>2 DEF IInv, FirstWalk
  <2>3. QED
    BY <1>1, <1>5, <1>7, <1>10, <2>1, <2>2 DEF FirstWalk
<1>12. SecondWalk'
  <2>1. ASSUME capture.pass = 2, NEW n \in Names, NextName(n), Same(n), NEW b \in 1..next
        PROVE  boundary[n][b] = captured[n][b] \/ data[b] = boundary[n][b]
    <3>1. CASE b = next /\ data[b] = block
      <4>1. n \in Listed \cap Inventoried
        BY <1>0, <2>1 DEF IInv, Control, NextName, Visiting
      <4>2. boundary[n][b] = captured[n][b] \/ Data(n)[b] = boundary[n][b]
        BY <1>0, <1>2, <2>1, <3>1, <4>1 DEF IInv, SecondWalk, Visiting
      <4>3. QED
        BY <1>8, <2>1, <3>1, <4>2
    <3>2. CASE b \in 1..Len(capture.data) /\ data[b] = capture.data[b]
      BY <1>0, <2>1, <3>2 DEF IInv, SecondWalk, Visiting
    <3>3. QED
      BY <1>10, <2>1, <3>1, <3>2
  <2>2. QED
    BY <1>0, <1>1, <1>5, <1>7, <1>10, <2>1 DEF IInv, SecondWalk, Visiting
<1>13. QED
  BY <1>6, <1>7, <1>9, <1>11, <1>12 DEF IInv

LEMMA StatOpenedInv == ASSUME IInv, NEW name \in Names, StatOpened(name) PROVE IInv'
<1>0. capture.pc = "read" /\ Len(capture.data) = Blocks
  BY DEF StatOpened
<1>1. CASE ~Unchanged(name, capture.fd)
  BY <1>1, RefusesInv DEF StatOpened
<1>2. CASE Unchanged(name, capture.fd)
  <2>1. /\ capture' = [capture EXCEPT !.pc = "close"]
        /\ UNCHANGED fsVars /\ captured' = captured /\ boundary' = boundary /\ outcome' = outcome
    BY <1>2 DEF StatOpened, Goes
  <2>2. /\ capture' \in CaptureType /\ capture'.pc = "close" /\ capture'.data = capture.data
        /\ capture'.before = capture.before /\ capture'.seen = capture.seen
        /\ capture'.pass = capture.pass /\ capture'.todo = capture.todo
        /\ capture'.fd = capture.fd
    BY <2>1 DEF IInv, Types, CaptureType, Pcs, Visiting
  <2>3. Types'
    BY <2>1, <2>2, LocalTypes DEF IInv, Types
  <2>4. /\ Inventoried' = Inventoried /\ Settled' /\ Listed' = Listed
        /\ \A n : /\ Same(n)' <=> Same(n)
                  /\ Data(n)' = Data(n)
                  /\ \A cell : Sealed(n, cell)' <=> Sealed(n, cell)
        /\ \A n : NextName(n)' <=> NextName(n)
    BY <2>1, <2>2, LocalStep DEF IInv, Listed, NextName
  <2>5. Control' /\ Counted' /\ CaptureIsSnapshot'
    BY <1>0, <2>1, <2>2, <2>4 DEF IInv, Control, Counted, CaptureIsSnapshot, Visiting
  <2>6. FirstWalk'
    BY <1>0, <2>1, <2>2, <2>4 DEF IInv, FirstWalk
  <2>7. SecondWalk'
    BY <1>0, <2>1, <2>2, <2>4 DEF IInv, SecondWalk, Visiting
  <2>8. QED
    BY <2>3, <2>4, <2>5, <2>6, <2>7 DEF IInv
<1>3. QED
  BY <1>1, <1>2

LEMMA CloseFileInv == ASSUME IInv, NEW name \in Names, CloseFile(name) PROVE IInv'
<1>0. /\ capture.pc = "close" /\ NextName(name) /\ name \in capture.todo
      /\ capture.pass \in 1..2 /\ capture.data \in Seq(Values) /\ Len(capture.data) = Blocks
      /\ capture.todo \subseteq Names /\ capture.seen \in Nat
  BY DEF CloseFile, NextName, IInv, Types, CaptureType, Parts, Control
<1>1. CASE Refuses("changed")
  BY <1>1, RefusesInv
<1>2. CASE /\ Unchanged(name, files[name])
           /\ capture.pass = 2 => SameHash(name)
           /\ capture' = [capture EXCEPT !.pc = "visit", !.todo = @ \ {name},
                                         !.fd = None, !.data = <<>>,
                                         !.seen = @ + Met(capture.pass)]
           /\ captured' = IF capture.pass = 1
                          THEN [captured EXCEPT ![name] = capture.data]
                          ELSE captured
           /\ UNCHANGED <<fsVars, boundary, outcome>>
  <2>1. capture.data \in Contents /\ capture.data # None
    BY <1>0, NoneAssumption DEF Contents
  <2>2. /\ capture' \in CaptureType /\ capture'.pc = "visit"
        /\ capture'.before = capture.before /\ capture'.seen = capture.seen + Met(capture.pass)
        /\ capture'.pass = capture.pass /\ capture'.todo = capture.todo \ {name}
    <3>1. /\ <<>> \in Parts /\ "visit" \in Pcs /\ capture.seen + Met(capture.pass) \in Nat
          /\ capture.todo \ {name} \in SUBSET Names
      BY <1>0, BlocksAssumption DEF Pcs, Visiting, Met, Parts
    <3>2. QED
      BY <1>2, <3>1 DEF IInv, Types, CaptureType
  <2>3. Types'
    BY <1>2, <2>1, <2>2, LocalTypes DEF IInv, Types
  <2>4. /\ Inventoried' = Inventoried /\ Settled' /\ Listed' = Listed
        /\ \A n : /\ Same(n)' <=> Same(n)
                  /\ Data(n)' = Data(n)
                  /\ \A cell : Sealed(n, cell)' <=> Sealed(n, cell)
    BY <1>2, <2>2, LocalStep DEF IInv, Listed
  <2>5. Same(name) /\ name \in Inventoried
    BY <1>2, NoneAssumption DEF Unchanged, Same, Inventoried, Info, IInv, Types
  <2>6. CASE capture.pass = 1
    <3>1. /\ captured' = [captured EXCEPT ![name] = capture.data]
          /\ captured'[name] = capture.data
          /\ \A n \in Names : n # name => captured'[n] = captured[n]
      BY <1>2, <2>6 DEF IInv, Types
    <3>2. Control'
      BY <1>0, <1>2, <2>1, <2>2, <2>4, <2>5, <2>6, <3>1 DEF IInv, Control, Visiting
    <3>3. FirstWalk'
      <4>1. ASSUME NEW n \in Inventoried, captured'[n] # None, Same(n), NEW b \in 1..Blocks
            PROVE  captured'[n][b] = Data(n)[b] \/ Sealed(n, b)
        <5>1. CASE n = name
          BY <1>0, <2>6, <3>1, <4>1, <5>1 DEF IInv, FirstWalk
        <5>2. CASE n # name
          BY <1>0, <2>6, <3>1, <4>1, <5>2 DEF IInv, FirstWalk, Inventoried
        <5>3. QED
          BY <5>1, <5>2
      <4>2. QED
        BY <2>2, <2>4, <4>1 DEF FirstWalk
    <3>4. SecondWalk' /\ Counted' /\ CaptureIsSnapshot'
      <4>1. capture'.seen = 0 /\ capture'.pass = 1 /\ capture.seen = 0
        BY <1>0, <2>2, <2>6 DEF IInv, Counted, Met
      <4>2. outcome' = "none"
        BY <1>0, <1>2 DEF IInv, Control
      <4>3. QED
        BY <2>2, <4>1, <4>2 DEF IInv, SecondWalk, Counted, CaptureIsSnapshot
    <3>5. QED
      BY <2>3, <2>4, <3>2, <3>3, <3>4 DEF IInv
  <2>7. CASE capture.pass = 2
    <3>1. captured' = captured /\ boundary' = boundary /\ captured[name] = capture.data
      BY <1>2, <2>7 DEF SameHash
    <3>2. /\ name \in Listed /\ Listed \subseteq Names
          /\ Listed' \ capture'.todo = (Listed \ capture.todo) \cup {name}
      BY <1>0, <2>2, <2>4, <2>7 DEF IInv, Control, Listed, Visiting
    <3>3. captured[name] = boundary[name]
      <4>1. boundary[name] \in Contents
        BY <3>2 DEF Listed, IInv, Types
      <4>2. \A b \in 1..Blocks : boundary[name][b] = capture.data[b]
        BY <1>0, <2>5, <2>7, <3>1 DEF IInv, SecondWalk, Visiting
      <4>3. boundary[name] = capture.data
        <5>1. /\ boundary[name] = [b \in 1..Blocks |-> boundary[name][b]]
              /\ capture.data = [b \in 1..Blocks |-> capture.data[b]]
          BY <2>1, <4>1 DEF Contents
        <5>2. [b \in 1..Blocks |-> boundary[name][b]] = [b \in 1..Blocks |-> capture.data[b]]
          BY <4>2
        <5>3. QED
          BY <5>1, <5>2, Zenon
      <4>4. QED
        BY <3>1, <4>3
    <3>4. Control' /\ FirstWalk' /\ CaptureIsSnapshot'
      BY <1>0, <1>2, <2>2, <2>4, <2>7, <3>1
         DEF IInv, Control, FirstWalk, CaptureIsSnapshot, Visiting
    <3>5. SecondWalk'
      BY <1>0, <2>2, <2>4, <2>5, <2>7, <3>1, <3>2, <3>3 DEF IInv, SecondWalk, Visiting
    <3>6. Counted'
      <4>1. /\ IsFiniteSet(Listed \ capture.todo) /\ name \notin Listed \ capture.todo
            /\ Listed' \ capture'.todo \subseteq Names
        BY <1>0, <3>2, NamesAssumption, FS_Subset
      <4>2. Cardinality(Listed' \ capture'.todo) = Cardinality(Listed \ capture.todo) + 1
        BY <3>2, <4>1, FS_AddElement
      <4>3. capture'.seen = Cardinality(Listed' \ capture'.todo) + 1
        BY <1>0, <2>2, <2>7, <4>2 DEF IInv, Counted, Visiting, Met
      <4>4. capture'.seen \in 0..Cardinality(Names) + 1
        <5>1. /\ Cardinality(Listed' \ capture'.todo) <= Cardinality(Names)
              /\ Cardinality(Listed' \ capture'.todo) \in Nat /\ Cardinality(Names) \in Nat
          BY <4>1, NamesAssumption, FS_Subset, FS_CardinalityType
        <5>2. QED
          BY <4>3, <5>1
      <4>5. QED
        BY <2>2, <2>7, <4>3, <4>4 DEF Counted
    <3>7. QED
      BY <2>3, <2>4, <3>4, <3>5, <3>6 DEF IInv
  <2>8. QED
    BY <1>0, <2>6, <2>7
<1>3. QED
  BY <1>1, <1>2 DEF CloseFile

LEMMA RecheckInv == ASSUME IInv, Recheck PROVE IInv'
<1>0. capture.pc = "visit" /\ capture.pass = 1 /\ capture.todo = {}
  BY DEF Recheck
<1>1. CASE dirTime # capture.dirTime
  BY <1>1, RefusesInv DEF Recheck
<1>2. CASE dirTime = capture.dirTime
  <2>1. /\ capture' = [capture EXCEPT !.pc = "list", !.pass = 2, !.seen = @ + 1]
        /\ UNCHANGED fsVars /\ captured' = captured /\ boundary' = boundary /\ outcome' = outcome
    BY <1>2 DEF Recheck, Goes, Met
  <2>2. /\ capture' \in CaptureType /\ capture'.pc = "list" /\ capture'.pass = 2
        /\ capture'.before = capture.before /\ capture'.seen = capture.seen + 1
        /\ capture'.todo = capture.todo
    <3>1. "list" \in Pcs /\ 2 \in 1..2
      BY DEF Pcs
    <3>2. capture \in CaptureType
      BY DEF IInv, Types
    <3>3. capture.seen + 1 \in Nat
      BY <3>2 DEF CaptureType
    <3>4. QED
      BY <2>1, <3>1, <3>2, <3>3 DEF CaptureType
  <2>3. Types'
    BY <2>1, <2>2, LocalTypes DEF IInv, Types
  <2>4. /\ Inventoried' = Inventoried /\ Settled'
        /\ \A n : /\ Same(n)' <=> Same(n)
                  /\ Data(n)' = Data(n)
                  /\ \A cell : Sealed(n, cell)' <=> Sealed(n, cell)
    BY <2>1, <2>2, LocalStep DEF IInv
  <2>5. Control' /\ SecondWalk' /\ CaptureIsSnapshot'
    BY <1>0, <2>1, <2>2, <2>4 DEF IInv, Control, SecondWalk, CaptureIsSnapshot, Visiting
  <2>6. FirstWalk'
    BY <1>0, <2>1, <2>2, <2>4 DEF IInv, FirstWalk
  <2>7. Counted'
    <3>1. capture'.seen = 1
      BY <1>0, <2>2 DEF IInv, Counted
    <3>2. Cardinality(Names) \in Nat
      BY NamesAssumption, FS_CardinalityType
    <3>3. QED
      BY <2>2, <3>1, <3>2 DEF Counted, Visiting
  <2>8. QED
    BY <2>3, <2>4, <2>5, <2>6, <2>7 DEF IInv
<1>3. QED
  BY <1>1, <1>2

\* As many names as the inventory has are met, and none that it has not.
LEMMA FinishInv == ASSUME IInv, Finish PROVE IInv'
<1>0. capture.pc = "visit" /\ capture.pass = 2 /\ capture.todo = {}
  BY DEF Finish
<1>1. CASE AllSeen
  <2>1. /\ Listed \ capture.todo = Listed /\ Listed \subseteq Inventoried
        /\ capture.seen = Cardinality(Listed) + 1
        /\ \A name \in Listed : captured[name] = boundary[name]
    BY <1>0 DEF IInv, SecondWalk, Counted, Visiting
  <2>2. IsFiniteSet(Inventoried)
    BY NamesAssumption, FS_Subset DEF Inventoried
  <2>3. Listed = Inventoried
    <3>1. IsFiniteSet(Listed) /\ Cardinality(Listed) \in Nat /\ Cardinality(Inventoried) \in Nat
      BY <2>1, <2>2, FS_Subset, FS_CardinalityType
    <3>2. Cardinality(Listed) = Cardinality(Inventoried)
      BY <1>1, <2>1, <3>1 DEF AllSeen
    <3>3. QED
      BY <2>1, <2>2, <3>2, FS_Subset
  <2>4. \A name \in Names : name \notin Listed => captured[name] = None /\ boundary[name] = None
    BY <1>0, <2>3 DEF IInv, Control, Listed
  <2>5. captured = boundary
    <3>1. \A name \in Names : captured[name] = boundary[name]
      BY <2>1, <2>4
    <3>2. QED
      BY <3>1 DEF IInv, Types
  <2>6. QED
    BY <2>5, RefusesInv DEF Finish
<1>2. CASE ~AllSeen
  BY <1>2, RefusesInv DEF Finish
<1>3. QED
  BY <1>1, <1>2

LEMMA StepInv == IInv /\ [Next]_vars => IInv'
<1> SUFFICES ASSUME IInv, [Next]_vars PROVE IInv'
  OBVIOUS
<1>1. CASE UNCHANGED vars
  <2>1. UNCHANGED <<files, inode, dirTime, samePath, clock, touched, edits>>
        /\ UNCHANGED <<capture, captured, boundary, outcome>>
    BY <1>1 DEF vars, fsVars
  <2>2. Types'
    BY <2>1 DEF IInv, Types, Present
  <2>3. ASSUME NEW name \in Inventoried PROVE EditKeeps(name)
    BY <2>1 DEF EditKeeps, Same, Info, Data, Sealed, IInv, Settled
  <2>4. QED
    BY <2>1, <2>2, <2>3, EditInv
<1>2. CASE Edit
  BY <1>2, TickInv, SwapDirectoryInv, WriteBlockInv, BindInv, RemoveInv DEF Edit
<1>3. CASE Capture
  BY <1>3, OpenRootInv, InventoryInv, ListDirectoryInv, StartCaptureInv, ReadBlockInv, RecheckInv,
     FinishInv, StatFileInv, MeetFileInv, VisitFileInv, OpenFileInv, StatOpenedInv, CloseFileInv
     DEF Capture
<1>4. CASE Fails
  BY <1>4, RefusesInv DEF Fails
<1>5. QED
  BY <1>1, <1>2, <1>3, <1>4 DEF Next, Terminated

THEOREM Invariance == Spec => []IInv
BY InitInv, StepInv, PTL DEF Spec

-----------------------------------------------------------------------------
(***************************************************************************)
(* Type correctness of captureConfig and of the directory it reads.        *)
(***************************************************************************)
THEOREM TypeCorrect == Spec => []TypeOK
<1>1. IInv => TypeOK
  <2> SUFFICES ASSUME IInv PROVE TypeOK
    OBVIOUS
  <2>1. Len(capture.data) <= Blocks
    BY DEF IInv, Types, CaptureType, Parts
  <2>2. QED
    BY <2>1 DEF IInv, Types, TypeOK, CaptureType, Pcs, Visiting, Counted
<1>2. QED
  BY <1>1, Invariance, PTL

(***************************************************************************)
(* A capture that succeeds is a snapshot of the directory at the moment    *)
(* the second walk listed it, whatever is edited meanwhile, also within    *)
(* one tick of the file system's clock.                                    *)
(***************************************************************************)
THEOREM CapturesASnapshot == Spec => []CaptureIsSnapshot
BY Invariance, PTL DEF IInv

-----------------------------------------------------------------------------
(* A directory that nobody edits.                                          *)

LEMMA QuietRefuses ==
  ASSUME IInv, Quiet, NEW why \in {"ok", "failed", "empty"}, Refuses(why)
  PROVE  Quiet'
<1>1. /\ capture' = [capture EXCEPT !.pc = "returned"] /\ outcome' = why
      /\ UNCHANGED fsVars /\ captured' = captured /\ boundary' = boundary
  BY DEF Refuses
<1>2. /\ capture'.pc = "returned" /\ capture'.before = capture.before
      /\ capture'.pass = capture.pass /\ capture'.dirTime = capture.dirTime
  BY <1>1 DEF IInv, Types, CaptureType
<1>3. /\ Inventoried' = Inventoried /\ Present' = Present
      /\ \A name : Same(name)' <=> Same(name)
  BY <1>1, <1>2, LocalStep
<1>4. QED
  BY <1>1, <1>2, <1>3 DEF Quiet, Visiting, fsVars

\* A name that the walk has yet to visit is as in the inventory.
LEMMA QuietNext ==
  ASSUME IInv, Quiet, NEW name \in Names, NextName(name), capture.pc \in Visiting
  PROVE  /\ name \in Present /\ name \in Inventoried /\ Same(name)
         /\ Unchanged(name, files[name]) /\ capture.before[name].id = files[name]
<1>1. name \in Present /\ name \in Inventoried /\ Same(name)
  BY DEF Quiet, NextName
<1>2. QED
  BY <1>1 DEF Same, Unchanged, Info

\* The program counter alone moves.
LEMMA QuietMoves ==
  ASSUME IInv, Quiet, NEW to \in Pcs, Goes([capture EXCEPT !.pc = to]),
         \/ capture.pc = "root" /\ to = "inventory"
         \/ capture.pc \in {"visit", "met"} /\ to \in {"met", "open"}
         \/ capture.pc = "read" /\ to = "close"
  PROVE  Quiet'
<1>1. /\ capture' = [capture EXCEPT !.pc = to]
      /\ UNCHANGED fsVars /\ captured' = captured /\ boundary' = boundary /\ outcome' = outcome
  BY DEF Goes
<1>2. /\ capture'.pc = to /\ capture'.before = capture.before /\ capture'.data = capture.data
      /\ capture'.pass = capture.pass /\ capture'.dirTime = capture.dirTime
      /\ capture'.todo = capture.todo
  BY <1>1 DEF IInv, Types, CaptureType
<1>3. /\ Inventoried' = Inventoried /\ Present' = Present /\ Listed' = Listed
      /\ \A name : (Same(name)' <=> Same(name)) /\ Data(name)' = Data(name)
      /\ \A name : NextName(name)' <=> NextName(name)
  BY <1>1, <1>2, LocalStep DEF Listed, NextName
<1>4. QED
  BY <1>1, <1>2, <1>3 DEF Quiet, Visiting, fsVars

LEMMA QuietTick == ASSUME IInv, Quiet, Tick PROVE Quiet'
<1>1. /\ UNCHANGED <<files, inode, dirTime, samePath>>
      /\ UNCHANGED <<capture, captured, boundary, outcome>>
  BY DEF Tick
<1>2. QED
  BY <1>1 DEF Quiet, Inventoried, Present, Listed, Same, Info, Data, NextName

LEMMA QuietWalk ==
  ASSUME IInv, Quiet,
         Inventory \/ ListDirectory \/ StartCapture \/ Recheck
           \/ \E name \in Names : StatFile(name)
  PROVE  Quiet'
<1>1. CASE Inventory
  <2>1. /\ capture' = [capture EXCEPT !.pc = "list", !.dirTime = dirTime]
        /\ capture.pc = "inventory" /\ capture.pass = 1
        /\ UNCHANGED fsVars /\ captured' = captured /\ boundary' = boundary /\ outcome' = outcome
    BY <1>1 DEF Inventory, Goes, IInv, Control
  <2>2. /\ capture'.pc = "list" /\ capture'.before = capture.before
        /\ capture'.pass = capture.pass /\ capture'.dirTime = dirTime
    BY <2>1 DEF IInv, Types, CaptureType
  <2>3. /\ Inventoried' = Inventoried /\ Present' = Present
        /\ \A name : (Same(name)' <=> Same(name)) /\ Data(name)' = Data(name)
    BY <2>1, <2>2, LocalStep
  <2>4. QED
    BY <2>1, <2>2, <2>3 DEF Quiet, Visiting, fsVars
<1>2. CASE ListDirectory
  <2> DEFINE to == IF capture.pass = 1 THEN "stat" ELSE "visit"
  <2>1. /\ capture' = [capture EXCEPT !.pc = to, !.todo = Present]
        /\ boundary' = IF capture.pass = 2 THEN View ELSE boundary
        /\ capture.pc = "list" /\ capture.pass \in 1..2
        /\ UNCHANGED fsVars /\ captured' = captured /\ outcome' = outcome
    BY <1>2 DEF ListDirectory, IInv, Types, CaptureType
  <2>2. /\ capture'.pc = to /\ capture'.before = capture.before
        /\ capture'.pass = capture.pass /\ capture'.dirTime = capture.dirTime
        /\ capture'.todo = Present
    BY <2>1 DEF IInv, Types, CaptureType
  <2>3. /\ Inventoried' = Inventoried /\ Present' = Present
        /\ \A name : (Same(name)' <=> Same(name)) /\ Data(name)' = Data(name)
    BY <2>1, <2>2, LocalStep
  <2>4. CASE capture.pass = 1
    BY <2>1, <2>2, <2>3, <2>4 DEF Quiet, Visiting, fsVars, IInv, Control
  <2>5. CASE capture.pass = 2
    <3>1. \A name \in Names : View[name] # None <=> files[name] # None
      BY NoneAssumption DEF View, IInv, Types
    <3>2. Listed' = Present
      BY <2>1, <2>5, <3>1 DEF Listed, Present
    <3>3. QED
      BY <2>1, <2>2, <2>3, <2>5, <3>2 DEF Quiet, Visiting, fsVars
  <2>6. QED
    BY <2>1, <2>4, <2>5
<1>3. CASE StartCapture
  <2>1. CASE Refuses("empty")
    BY <2>1, QuietRefuses
  <2>2. CASE Goes([capture EXCEPT !.pc = "visit", !.todo = Inventoried])
    <3>1. /\ capture' = [capture EXCEPT !.pc = "visit", !.todo = Inventoried]
          /\ capture.pc = "stat" /\ capture.pass = 1 /\ capture.todo = {}
          /\ UNCHANGED fsVars /\ captured' = captured /\ boundary' = boundary /\ outcome' = outcome
      BY <1>3, <2>2 DEF StartCapture, Goes, IInv, Control
    <3>2. /\ capture'.pc = "visit" /\ capture'.before = capture.before
          /\ capture'.pass = 1 /\ capture'.dirTime = capture.dirTime
          /\ capture'.todo = Inventoried
      BY <3>1 DEF IInv, Types, CaptureType
    <3>3. /\ Inventoried' = Inventoried /\ Present' = Present
          /\ \A name : (Same(name)' <=> Same(name)) /\ Data(name)' = Data(name)
      BY <3>1, <3>2, LocalStep
    <3>4. Inventoried = Present
      BY <3>1 DEF Quiet
    <3>5. QED
      BY <3>1, <3>2, <3>3, <3>4 DEF Quiet, Visiting, fsVars
  <2>3. QED
    BY <1>3, <2>1, <2>2 DEF StartCapture
<1>4. CASE Recheck
  <2>1. /\ capture' = [capture EXCEPT !.pc = "list", !.pass = 2, !.seen = @ + Met(2)]
        /\ capture.pc = "visit" /\ capture.pass = 1
        /\ UNCHANGED fsVars /\ captured' = captured /\ boundary' = boundary /\ outcome' = outcome
    BY <1>4 DEF Recheck, Goes, Quiet
  <2>2. /\ capture'.pc = "list" /\ capture'.before = capture.before
        /\ capture'.dirTime = capture.dirTime
    BY <2>1 DEF IInv, Types, CaptureType
  <2>3. /\ Inventoried' = Inventoried /\ Present' = Present
        /\ \A name : (Same(name)' <=> Same(name)) /\ Data(name)' = Data(name)
    BY <2>1, <2>2, LocalStep
  <2>4. QED
    BY <2>1, <2>2, <2>3 DEF Quiet, Visiting, fsVars
<1>5. ASSUME NEW name \in Names, StatFile(name) PROVE Quiet'
  <2>1. /\ capture.pc = "stat" /\ capture.pass = 1 /\ name \in Present
    BY <1>5 DEF StatFile, NextName, Quiet, IInv, Control
  <2>2. /\ capture' = [capture EXCEPT !.before[name] = Info(files[name]), !.todo = @ \ {name}]
        /\ UNCHANGED fsVars /\ captured' = captured /\ boundary' = boundary /\ outcome' = outcome
    BY <1>5, <2>1 DEF StatFile, Goes, Present
  <2>3. /\ capture'.before = [capture.before EXCEPT ![name] = Info(files[name])]
        /\ capture'.pc = "stat" /\ capture'.pass = 1 /\ capture'.dirTime = capture.dirTime
        /\ capture'.todo = capture.todo \ {name}
    BY <2>1, <2>2 DEF IInv, Types, CaptureType
  <2>4. /\ \A n \in Names \ {name} : capture'.before[n] = capture.before[n]
        /\ capture'.before[name] = Info(files[name]) /\ Info(files[name]) # None
    BY <2>1, <2>3, NoneAssumption DEF IInv, Types, CaptureType, Info, Present
  <2>5. Inventoried' = Inventoried \cup {name} /\ Present' = Present
    BY <2>2, <2>4 DEF Inventoried, Present, fsVars
  <2>6. \A n \in Inventoried' : Same(n)'
    BY <2>1, <2>2, <2>4, <2>5 DEF Quiet, Same, Info, fsVars, Inventoried, Present
  <2>7. \A n \in Present : captured'[n] \in {None, Data(n)'}
    BY <2>1, <2>2 DEF Quiet, Data, fsVars
  <2>8. QED
    BY <2>1, <2>2, <2>3, <2>5, <2>6, <2>7 DEF Quiet, Visiting, fsVars
<1>6. QED
  BY <1>1, <1>2, <1>3, <1>4, <1>5

LEMMA QuietRead ==
  ASSUME IInv, Quiet, ReadBlock \/ \E name \in Names : OpenFile(name)
  PROVE  Quiet'
<1>1. CASE ReadBlock
  <2> DEFINE next == Len(capture.data) + 1
             block == inode[capture.fd].data[next]
  <2>1. /\ capture.pc = "read" /\ Len(capture.data) < Blocks
        /\ capture.data \in Seq(Values) /\ Len(capture.data) \in Nat
        /\ capture' = [capture EXCEPT !.data = Append(capture.data, block)]
        /\ UNCHANGED fsVars /\ captured' = captured /\ boundary' = boundary /\ outcome' = outcome
    BY <1>1 DEF ReadBlock, Goes, IInv, Types, CaptureType, Parts
  <2>2. block \in Values
    <3>1. next \in 1..Blocks
      BY <2>1, BlocksAssumption
    <3>2. inode[capture.fd].data \in Contents
      BY <2>1 DEF IInv, Types, Control
    <3>3. QED
      BY <3>1, <3>2 DEF Contents
  <2>3. \A n \in Names : NextName(n) => block = Data(n)[next]
    BY <2>1, QuietNext DEF IInv, Control, Data, Visiting
  <2> HIDE DEF block
  <2>4. /\ capture'.pc = "read" /\ capture'.data = Append(capture.data, block)
        /\ capture'.before = capture.before /\ capture'.dirTime = capture.dirTime
        /\ capture'.pass = capture.pass /\ capture'.todo = capture.todo
    BY <2>1 DEF IInv, Types, CaptureType
  <2>5. /\ Inventoried' = Inventoried /\ Present' = Present /\ Listed' = Listed
        /\ \A n : (Same(n)' <=> Same(n)) /\ Data(n)' = Data(n)
        /\ \A n : NextName(n)' <=> NextName(n)
    BY <2>1, <2>4, LocalStep DEF Listed, NextName
  <2>6. ASSUME NEW n \in Names, NextName(n), NEW b \in 1..Len(capture'.data)
        PROVE  capture'.data[b] = Data(n)[b]
    <3>1. Len(capture'.data) = next
      BY <2>1, <2>2, <2>4
    <3>2. CASE b = next
      BY <2>1, <2>2, <2>3, <2>4, <2>6, <3>2
    <3>3. CASE b # next
      <4>1. b \in 1..Len(capture.data)
        BY <2>1, <2>6, <3>1, <3>3
      <4>2. capture.data[b] = Data(n)[b]
        BY <2>1, <2>6, <4>1 DEF Quiet
      <4>3. QED
        BY <2>1, <2>2, <2>4, <4>1, <4>2
    <3>4. QED
      BY <3>2, <3>3
  <2>7. QED
    BY <2>1, <2>4, <2>5, <2>6 DEF Quiet, Visiting, fsVars
<1>2. ASSUME NEW name \in Names, OpenFile(name) PROVE Quiet'
  <2>1. /\ capture.pc = "open" /\ Unchanged(name, files[name])
    BY <1>2, QuietNext DEF OpenFile, Visiting
  <2>2. /\ capture' = [capture EXCEPT !.pc = "read", !.fd = files[name], !.data = <<>>]
        /\ UNCHANGED fsVars /\ captured' = captured /\ boundary' = boundary /\ outcome' = outcome
    BY <1>2, <2>1 DEF OpenFile, Goes
  <2>3. /\ capture'.pc = "read" /\ capture'.data = <<>>
        /\ capture'.before = capture.before /\ capture'.dirTime = capture.dirTime
        /\ capture'.pass = capture.pass /\ capture'.todo = capture.todo
    BY <2>2 DEF IInv, Types, CaptureType
  <2>4. /\ Inventoried' = Inventoried /\ Present' = Present /\ Listed' = Listed
        /\ \A n : (Same(n)' <=> Same(n)) /\ Data(n)' = Data(n)
    BY <2>2, <2>3, LocalStep DEF Listed
  <2>5. 1..Len(capture'.data) = {}
    BY <2>3
  <2>6. QED
    BY <2>1, <2>2, <2>3, <2>4, <2>5 DEF Quiet, Visiting, fsVars
<1>3. QED
  BY <1>1, <1>2

LEMMA QuietClose == ASSUME IInv, Quiet, NEW name \in Names, CloseFile(name) PROVE Quiet'
<1>1. /\ capture.pc = "close" /\ NextName(name) /\ Len(capture.data) = Blocks
      /\ capture.data \in Seq(Values) /\ capture.pass \in 1..2
  BY DEF CloseFile, IInv, Types, CaptureType, Parts, Control
<1>2. name \in Present /\ name \in Inventoried /\ Unchanged(name, files[name])
  BY <1>1, QuietNext DEF Visiting
<1>3. capture.data = Data(name)
  <2>1. Data(name) \in Contents
    BY <1>2 DEF Data, Present, IInv, Types
  <2>2. \A b \in 1..Blocks : capture.data[b] = Data(name)[b]
    BY <1>1 DEF Quiet
  <2>3. /\ Data(name) = [b \in 1..Blocks |-> Data(name)[b]]
        /\ capture.data = [b \in 1..Blocks |-> capture.data[b]]
    BY <1>1, <2>1 DEF Contents
  <2>4. [b \in 1..Blocks |-> Data(name)[b]] = [b \in 1..Blocks |-> capture.data[b]]
    BY <2>2
  <2>5. QED
    BY <2>3, <2>4, Zenon
<1>4. capture.pass = 2 => SameHash(name)
  BY <1>1, <1>2, <1>3 DEF SameHash, Quiet, IInv, Control
<1>5. /\ capture' = [capture EXCEPT !.pc = "visit", !.todo = @ \ {name},
                                    !.fd = None, !.data = <<>>,
                                    !.seen = @ + Met(capture.pass)]
      /\ captured' = IF capture.pass = 1
                     THEN [captured EXCEPT ![name] = capture.data]
                     ELSE captured
      /\ UNCHANGED <<fsVars, boundary, outcome>>
  BY <1>2, <1>4 DEF CloseFile
<1>6. /\ capture'.pc = "visit" /\ capture'.before = capture.before
      /\ capture'.pass = capture.pass /\ capture'.dirTime = capture.dirTime
      /\ capture'.todo = capture.todo \ {name}
  BY <1>5 DEF IInv, Types, CaptureType
<1>7. /\ Inventoried' = Inventoried /\ Present' = Present /\ Listed' = Listed
      /\ \A n : (Same(n)' <=> Same(n)) /\ Data(n)' = Data(n)
  BY <1>5, <1>6, LocalStep DEF Listed
<1>8. \A n \in Present : captured'[n] \in {None, Data(n)}
  BY <1>1, <1>2, <1>3, <1>5 DEF Quiet, IInv, Types, Present
<1>9. QED
  BY <1>1, <1>5, <1>6, <1>7, <1>8 DEF Quiet, Visiting, fsVars

LEMMA QuietFinish == ASSUME IInv, Quiet, Finish PROVE Quiet'
<1>1. capture.pc = "visit" /\ capture.pass = 2 /\ capture.todo = {} /\ samePath = TRUE
  BY DEF Finish, Quiet
<1>2. Listed \ capture.todo = Inventoried
  BY <1>1 DEF Quiet, Visiting
<1>3. AllSeen
  BY <1>1, <1>2 DEF IInv, Counted, Visiting, AllSeen
<1>4. Refuses("ok")
  BY <1>1, <1>3 DEF Finish
<1>5. QED
  BY <1>4, QuietRefuses

LEMMA QuietStep == IInv /\ QuietInv /\ [Next]_vars => QuietInv'
<1> SUFFICES ASSUME IInv, QuietInv, [Next]_vars, edits' = 0 PROVE Quiet'
  BY DEF QuietInv
<1>0. edits \in Nat
  BY DEF IInv, Types
<1>1. CASE Edit
  <2>1. CASE Tick
    BY <2>1, QuietTick DEF Tick, QuietInv
  <2>2. CASE ~Tick
    <3>1. edits' = edits + 1
      BY <1>1, <2>2 DEF Edit, SwapDirectory, WriteBlock, Bind, Remove, Edits
    <3>2. QED
      BY <1>0, <3>1
  <2>3. QED
    BY <2>1, <2>2
<1>2. CASE UNCHANGED vars
  BY <1>2 DEF vars, fsVars, QuietInv, Quiet, Inventoried, Present, Listed, Same, Info, Data, NextName
<1>3. CASE Capture \/ Fails
  <2>1. edits' = edits
    BY <1>3 DEF Fails, Capture, OpenRoot, Inventory, ListDirectory, StartCapture, ReadBlock,
                Recheck, Finish, StatFile, MeetFile, VisitFile, OpenFile, StatOpened, CloseFile,
                Goes, Refuses, fsVars
  <2>2. Quiet
    BY <2>1 DEF QuietInv
  <2>3. CASE Fails
    BY <2>2, <2>3, QuietRefuses DEF Fails
  <2>4. CASE OpenRoot
    BY <2>2, <2>4, QuietMoves DEF OpenRoot, Quiet, Pcs
  <2>5. ASSUME NEW name \in Names, MeetFile(name) \/ VisitFile(name) PROVE Quiet'
    <3>1. capture.pc \in {"visit", "met"} /\ NextName(name)
      BY <2>5 DEF MeetFile, VisitFile
    <3>2. Unchanged(name, files[name])
      BY <2>2, <3>1, QuietNext DEF Visiting
    <3>3. PICK to \in {"met", "open"} : Goes([capture EXCEPT !.pc = to])
      BY <2>5, <3>2 DEF MeetFile, VisitFile
    <3>4. QED
      BY <2>2, <3>1, <3>3, QuietMoves DEF Pcs, Visiting
  <2>6. ASSUME NEW name \in Names, StatOpened(name) PROVE Quiet'
    <3>1. capture.pc = "read" /\ NextName(name)
      BY <2>6 DEF StatOpened
    <3>2. Unchanged(name, capture.fd)
      BY <2>2, <3>1, QuietNext DEF Visiting, IInv, Control
    <3>3. QED
      BY <2>2, <2>6, <3>1, <3>2, QuietMoves DEF StatOpened, Pcs, Visiting
  <2>7. QED
    BY <1>3, <2>2, <2>3, <2>4, <2>5, <2>6, QuietWalk, QuietRead, QuietClose, QuietFinish
       DEF Capture
<1>4. QED
  BY <1>1, <1>2, <1>3 DEF Next, Terminated

(***************************************************************************)
(* A directory that nobody edits is captured: no check of the second walk  *)
(* takes for a change what the first walk, or the capture, has done.       *)
(***************************************************************************)
THEOREM QuietDirectoryIsCaptured == Spec => []QuietCaptureSucceeds
<1>1. Init => QuietInv
  <2> SUFFICES ASSUME Init PROVE Quiet
    BY DEF QuietInv
  <2>1. /\ capture = [pc |-> "root", pass |-> 1, todo |-> {}, seen |-> 0,
                      dirTime |-> 0, before |-> [name \in Names |-> None],
                      fd |-> None, data |-> <<>>]
        /\ captured = [name \in Names |-> None] /\ outcome = "none"
        /\ dirTime = 0 /\ samePath = TRUE
    BY DEF Init
  <2>2. Inventoried = {}
    BY <2>1 DEF Inventoried
  <2>3. QED
    BY <2>1, <2>2 DEF Quiet, Visiting, Present
<1>2. Spec => []QuietInv
  BY <1>1, QuietStep, Invariance, PTL DEF Spec
<1>3. IInv /\ QuietInv => QuietCaptureSucceeds
  <2>1. IInv => edits \in Nat
    BY DEF IInv, Types
  <2>2. QED
    BY <2>1 DEF QuietInv, Quiet, QuietCaptureSucceeds
<1>4. QED
  BY <1>2, <1>3, Invariance, PTL
=============================================================================
