--------------------------- MODULE HandlesProofs ----------------------------
(***************************************************************************)
(* Handles, for any number of objects, ids and handles and any depth of    *)
(* callbacks: no reference dangles, nothing leaks, on_new runs once and    *)
(* isPristine tells the truth.  All rests on HandlesInv, which says who    *)
(* owns a handle at each point of its life.                                *)
(***************************************************************************)
EXTENDS Handles, SequenceTheorems, TLAPS

\* The handle of a constructor that waits for its callback: alive, made for its id, not
\* configured, and held by its object alone.  An object is in one constructor only.
FramesOwn ==
    /\ \A i, j \in 1 .. Len(frames) : frames[i].object = frames[j].object => i = j
    /\ \A i \in 1 .. Len(frames) :
        /\ memc[frames[i].object] \in live \ configured
        /\ made_for[memc[frames[i].object]] = frames[i].id
        /\ \A o \in Objects : memc[o] = memc[frames[i].object] => o = frames[i].object

\* An entry of the list is alive, configured and made for its id.
ListOwns ==
    \A id \in Ids : persistent_list[id] # NULL =>
        /\ persistent_list[id] \in live \cap configured
        /\ made_for[persistent_list[id]] = id

\* A handle that is not persistent is alive while its object is, and nobody else has it; a
\* persistent one is waiting to be registered, or registered, or of an id that overlapped.
ObjectsOwn ==
    \A o \in Objects : memc[o] # NULL =>
        /\ o \in objects
        /\ memc[o] \in 1 .. made
        /\ ~is_persistent(memc[o]) =>
            memc[o] \in live /\ \A p \in Objects : memc[p] = memc[o] => p = o
        /\ is_persistent(memc[o]) =>
            \/ UnderConstruction(o)
            \/ persistent_list[made_for[memc[o]]] = memc[o]
            \/ made_for[memc[o]] \in overlapped

\* An id that is registered while a constructor for it waits has overlapped, and so has one
\* that two constructors wait for.
OverlapsKnown ==
    \A i \in 1 .. Len(frames) : frames[i].id \in Ids =>
        /\ persistent_list[frames[i].id] # NULL => frames[i].id \in overlapped
        /\ \A j \in 1 .. Len(frames) : i # j /\ frames[i].id = frames[j].id => frames[i].id \in overlapped

\* libmemcached holds credentials only where the flag says so, and only of live handles.
SaslInv == credentials \subseteq live \cap has_sasl_data

\* The inductive invariant.
HandlesInv ==
    TypeOK /\ FramesOwn /\ ListOwns /\ ObjectsOwn /\ OverlapsKnown /\ SaslInv

-----------------------------------------------------------------------------
Frame == [object : Objects, id : Ids \cup {NoId}]

\* The stack of constructors without its innermost one.
LEMMA PopFacts ==
    ASSUME frames \in Seq(Frame), frames # << >>
    PROVE  /\ Len(frames) \in Nat \ {0}
           /\ Top \in Frame
           /\ Outer \in Seq(Frame)
           /\ Len(Outer) = Len(frames) - 1
           /\ \A i \in 1 .. Len(Outer) : i \in 1 .. Len(frames) /\ Outer[i] = frames[i]
<1>1. Len(frames) \in Nat \ {0} BY EmptySeq
<1>2. \A i \in 1 .. Len(frames) - 1 : frames[i] \in Frame BY <1>1, ElementOfSeq
<1>3. /\ SubSeq(frames, 1, Len(frames) - 1) \in Seq(Frame)
      /\ Len(SubSeq(frames, 1, Len(frames) - 1)) = Len(frames) - 1
      /\ \A i \in 1 .. Len(frames) - 1 : SubSeq(frames, 1, Len(frames) - 1)[i] = frames[i]
  <2> DEFINE n == Len(frames) - 1
  <2>1. n \in Int /\ 1 \in Int BY <1>1
  <2>2. /\ SubSeq(frames, 1, n) \in Seq(Frame)
        /\ Len(SubSeq(frames, 1, n)) = IF 1 <= n THEN n - 1 + 1 ELSE 0
        /\ \A i \in 1 .. n - 1 + 1 : SubSeq(frames, 1, n)[i] = frames[1 + i - 1]
    <3> HIDE DEF n
    <3>1. \A i \in 1 .. n : frames[i] \in Frame BY <1>2 DEF n
    <3> QED BY <2>1, <3>1, SubSeqProperties
  <2>3. n \in Nat BY <1>1
  <2> QED
    <3> HIDE DEF n
    <3>1. (IF 1 <= n THEN n - 1 + 1 ELSE 0) = n /\ n - 1 + 1 = n BY <2>3
    <3>2. \A i \in 1 .. n : 1 + i - 1 = i BY <2>3
    <3>3. /\ SubSeq(frames, 1, n) \in Seq(Frame)
          /\ Len(SubSeq(frames, 1, n)) = n
          /\ \A i \in 1 .. n : SubSeq(frames, 1, n)[i] = frames[i]
      BY <2>2, <3>1, <3>2
    <3> QED BY <3>3 DEF n
<1>4. frames[Len(frames)] \in Frame BY <1>1, ElementOfSeq
<1> QED BY <1>1, <1>3, <1>4 DEF Outer, Top

\* The stack with another one.
LEMMA PushFacts ==
    ASSUME frames \in Seq(Frame), NEW f \in Frame
    PROVE  /\ Len(frames) \in Nat
           /\ Append(frames, f) \in Seq(Frame)
           /\ Len(Append(frames, f)) = Len(frames) + 1
           /\ \A i \in 1 .. Len(frames) : Append(frames, f)[i] = frames[i]
           /\ Append(frames, f)[Len(frames) + 1] = f
BY AppendProperties, LenProperties

\* What destroying handles leaves.
LEMMA DestroyFacts ==
    ASSUME SaslInv, NEW hs, php_memc_destroy(hs)
    PROVE  /\ live' = live \ hs
           /\ credentials' \subseteq credentials
           /\ has_sasl_data' \subseteq has_sasl_data
           /\ SaslInv'
BY DEF SaslInv, php_memc_destroy

\* NULL is no handle.
LEMMA NullIsNoHandle ==
    ASSUME TypeOK
    PROVE  NULL \notin 1 .. made /\ NULL \notin live /\ 1 .. made \subseteq Handles
<1>1. made \in Nat /\ MaxHandles \in Nat /\ made <= MaxHandles BY HandlesAssumption DEF TypeOK
<1>2. 1 .. made \subseteq 1 .. MaxHandles BY <1>1
<1> QED BY <1>2, HandlesAssumption DEF TypeOK, Handles

\* A new object has no handle.
LEMMA NewInv ==
    ASSUME HandlesInv, NEW o \in Objects, New(o)
    PROVE  HandlesInv'
<1> USE HandlesAssumption DEF Handles
<1>1. TypeOK' BY DEF HandlesInv, TypeOK, New
<1>2. FramesOwn'
  BY SMTT(60) DEF HandlesInv, TypeOK, FramesOwn, ListOwns, ObjectsOwn, New, is_persistent, UnderConstruction
<1>3. ListOwns'
  BY SMTT(60) DEF HandlesInv, TypeOK, FramesOwn, ListOwns, ObjectsOwn, New, is_persistent, UnderConstruction
<1>4. ObjectsOwn'
  BY SMTT(60) DEF HandlesInv, TypeOK, FramesOwn, ListOwns, ObjectsOwn, OverlapsKnown, New, is_persistent, UnderConstruction
<1>5. OverlapsKnown'
  BY SMTT(60) DEF HandlesInv, TypeOK, FramesOwn, OverlapsKnown, New, is_persistent, UnderConstruction
<1>6. SaslInv' BY DEF HandlesInv, SaslInv, New
<1> QED BY <1>1, <1>2, <1>3, <1>4, <1>5, <1>6 DEF HandlesInv

\* Credentials are given to a live handle, and the flag is set with them.
LEMMA SetSaslAuthDataInv ==
    ASSUME HandlesInv, NEW o \in Objects, SetSaslAuthData(o)
    PROVE  HandlesInv'
<1> USE HandlesAssumption DEF Handles
<1>1. TypeOK'
  <2>1. memc[o] \in 1 .. made BY DEF HandlesInv, TypeOK, SetSaslAuthData
  <2>2. has_sasl_data' \subseteq 1 .. made /\ credentials' \subseteq 1 .. made
    BY <2>1 DEF HandlesInv, TypeOK, SetSaslAuthData
  <2> QED BY <2>2 DEF HandlesInv, TypeOK, SetSaslAuthData
<1>2. FramesOwn'
  BY SMTT(60) DEF HandlesInv, TypeOK, FramesOwn, ListOwns, ObjectsOwn, SetSaslAuthData, is_persistent, UnderConstruction
<1>3. ListOwns'
  BY SMTT(60) DEF HandlesInv, TypeOK, FramesOwn, ListOwns, ObjectsOwn, SetSaslAuthData, is_persistent, UnderConstruction
<1>4. ObjectsOwn'
  BY SMTT(60) DEF HandlesInv, TypeOK, FramesOwn, ListOwns, ObjectsOwn, OverlapsKnown, SetSaslAuthData, is_persistent, UnderConstruction
<1>5. OverlapsKnown'
  BY SMTT(60) DEF HandlesInv, TypeOK, FramesOwn, OverlapsKnown, SetSaslAuthData, is_persistent, UnderConstruction
<1>6. SaslInv' BY DEF HandlesInv, SaslInv, SetSaslAuthData
<1> QED BY <1>1, <1>2, <1>3, <1>4, <1>5, <1>6 DEF HandlesInv

\* The handle that goes with an object is nobody else's.
LEMMA DropInv ==
    ASSUME HandlesInv, NEW o \in Objects, Drop(o)
    PROVE  HandlesInv'
<1> USE HandlesAssumption DEF Handles
<1>a. /\ live' = live \ FreedWith({o})
      /\ credentials' \subseteq credentials /\ has_sasl_data' \subseteq has_sasl_data /\ SaslInv'
  BY DestroyFacts DEF HandlesInv, Drop
<1>1. TypeOK'
  <2>1. /\ live' \subseteq 1 .. made /\ credentials' \subseteq 1 .. made
        /\ has_sasl_data' \subseteq 1 .. made
    BY <1>a DEF HandlesInv, TypeOK
  <2>2. frames' \in Seq([object : Objects, id : Ids \cup {NoId}]) BY <1>a DEF HandlesInv, TypeOK, Drop
  <2>3. \A i \in 1 .. Len(frames') : frames'[i].object \in objects'
    BY <1>a DEF HandlesInv, TypeOK, Drop, UnderConstruction
  <2> QED BY <2>1, <2>2, <2>3 DEF HandlesInv, TypeOK, Drop
<1>2. FramesOwn'
  <2>1. frames' = frames /\ made_for' = made_for /\ configured' = configured BY DEF Drop
  <2>2. ASSUME NEW i \in 1 .. Len(frames)
        PROVE  /\ frames[i].object \in Objects
               /\ memc'[frames[i].object] = memc[frames[i].object]
               /\ memc'[frames[i].object] \in live'
    <3>1. frames[i].object \in Objects /\ frames[i].object # o
      BY DEF HandlesInv, TypeOK, Drop, UnderConstruction
    <3>2. memc'[frames[i].object] = memc[frames[i].object] BY <3>1 DEF Drop, HandlesInv, TypeOK
    <3>3. memc[frames[i].object] \in live /\ memc[frames[i].object] # memc[o]
      BY <3>1 DEF HandlesInv, FramesOwn
    <3> QED BY <1>a, <3>1, <3>2, <3>3 DEF FreedWith
  <2>3. \A p \in Objects : memc'[p] = IF p = o THEN NULL ELSE memc[p] BY DEF Drop, HandlesInv, TypeOK
  <2>4. NULL \notin live' BY <1>a, NullIsNoHandle DEF HandlesInv
  <2> QED BY <2>1, <2>2, <2>3, <2>4 DEF HandlesInv, FramesOwn
<1>3. ListOwns'
  BY <1>a, SMTT(60) DEF HandlesInv, TypeOK, FramesOwn, ListOwns, ObjectsOwn, Drop, FreedWith, is_persistent, UnderConstruction
<1>4. ObjectsOwn'
  BY <1>a, SMTT(60) DEF HandlesInv, TypeOK, FramesOwn, ListOwns, ObjectsOwn, OverlapsKnown, Drop, FreedWith, is_persistent, UnderConstruction
<1>5. OverlapsKnown'
  BY <1>a, SMTT(60) DEF HandlesInv, TypeOK, FramesOwn, OverlapsKnown, Drop, FreedWith, is_persistent, UnderConstruction
<1>6. SaslInv' BY <1>a
<1> QED BY <1>1, <1>2, <1>3, <1>4, <1>5, <1>6 DEF HandlesInv

\* The constructor whose callback ends: its object, its id and its handle, and those that wait
\* further out.
LEMMA InnermostFacts ==
    ASSUME HandlesInv, frames # << >>, frames' = Outer
    PROVE  \E n \in Nat \ {0}, t \in Objects, d \in Ids \cup {NoId}, h \in live \ configured :
            /\ Top.object = t /\ Top.id = d /\ memc[t] = h /\ made_for[h] = d
            /\ Len(frames) = n /\ frames[n].object = t /\ frames[n].id = d
            /\ \A o \in Objects : memc[o] = h => o = t
            /\ frames' \in Seq([object : Objects, id : Ids \cup {NoId}]) /\ Len(frames') = n - 1
            /\ \A i \in 1 .. n - 1 :
                /\ i \in 1 .. n /\ i # n /\ frames'[i] = frames[i]
                /\ frames[i].object \in Objects \ {t} /\ memc[frames[i].object] # h
<1>1. frames \in Seq(Frame) BY DEF HandlesInv, TypeOK, Frame
<1>2. /\ Len(frames) \in Nat \ {0} /\ Top \in Frame
      /\ Outer \in Seq(Frame) /\ Len(Outer) = Len(frames) - 1
      /\ \A i \in 1 .. Len(Outer) : i \in 1 .. Len(frames) /\ Outer[i] = frames[i]
  BY <1>1, PopFacts
<1>3. PICK n \in Nat \ {0} : n = Len(frames) BY <1>2
<1>4. PICK t \in Objects : t = Top.object BY <1>2 DEF Frame
<1>5. PICK d \in Ids \cup {NoId} : d = Top.id BY <1>2 DEF Frame
<1>6. n \in 1 .. n BY <1>3
<1>7. frames[n].object = t /\ frames[n].id = d BY <1>3, <1>4, <1>5 DEF Top
<1>8. /\ memc[t] \in live \ configured /\ made_for[memc[t]] = d
      /\ \A o \in Objects : memc[o] = memc[t] => o = t
  BY <1>3, <1>6, <1>7 DEF HandlesInv, FramesOwn
<1>9. frames' \in Seq([object : Objects, id : Ids \cup {NoId}]) /\ Len(frames') = n - 1
  BY <1>2, <1>3 DEF Frame
<1>10. ASSUME NEW i \in 1 .. n - 1
       PROVE  /\ i \in 1 .. n /\ i # n /\ frames'[i] = frames[i]
              /\ frames[i].object \in Objects \ {t} /\ memc[frames[i].object] # memc[t]
  <2>1. i \in 1 .. n /\ i # n OBVIOUS
  <2>2. frames'[i] = frames[i] BY <1>2, <1>3
  <2>3. frames[i].object \in Objects BY <1>3, <2>1 DEF HandlesInv, TypeOK
  <2>4. frames[i].object # t BY <1>3, <1>6, <1>7, <2>1 DEF HandlesInv, FramesOwn
  <2> QED BY <2>1, <2>2, <2>3, <2>4, <1>8
<1>11. PICK h \in live \ configured : memc[t] = h BY <1>8
<1>12. /\ Top.object = t /\ Top.id = d /\ memc[t] = h /\ made_for[h] = d
       /\ Len(frames) = n /\ frames[n].object = t /\ frames[n].id = d
       /\ \A o \in Objects : memc[o] = h => o = t
       /\ frames' \in Seq([object : Objects, id : Ids \cup {NoId}]) /\ Len(frames') = n - 1
  BY <1>3, <1>4, <1>5, <1>7, <1>8, <1>9, <1>11
<1>13. \A i \in 1 .. n - 1 :
        /\ i \in 1 .. n /\ i # n /\ frames'[i] = frames[i]
        /\ frames[i].object \in Objects \ {t} /\ memc[frames[i].object] # h
  BY <1>10, <1>11
<1> QED BY <1>12, <1>13

\* The handle of the constructor that fails is its object's alone.
LEMMA CallbackThrowsInv ==
    ASSUME HandlesInv, CallbackThrows
    PROVE  HandlesInv'
<1>p. PICK n \in Nat \ {0}, t \in Objects, d \in Ids \cup {NoId}, h \in live \ configured :
            /\ Top.object = t /\ Top.id = d /\ memc[t] = h /\ made_for[h] = d
            /\ Len(frames) = n /\ frames[n].object = t /\ frames[n].id = d
            /\ \A o \in Objects : memc[o] = h => o = t
            /\ frames' \in Seq([object : Objects, id : Ids \cup {NoId}]) /\ Len(frames') = n - 1
            /\ \A i \in 1 .. n - 1 :
                /\ i \in 1 .. n /\ i # n /\ frames'[i] = frames[i]
                /\ frames[i].object \in Objects \ {t} /\ memc[frames[i].object] # h
  BY InnermostFacts DEF CallbackThrows
<1>a. live' = live \ {h} /\ credentials' \subseteq credentials /\ has_sasl_data' \subseteq has_sasl_data /\ SaslInv'
  BY DestroyFacts, <1>p DEF HandlesInv, CallbackThrows
<1>b. /\ memc' \in [Objects -> Handles \cup {NULL}] /\ memc'[t] = NULL
      /\ \A o \in Objects \ {t} : memc'[o] = memc[o]
  BY <1>p DEF CallbackThrows, HandlesInv, TypeOK
<1>u. UNCHANGED <<objects, is_pristine, persistent_list, made, made_for, configured, completed, overlapped, lost>>
  BY DEF CallbackThrows
<1>n. NULL \notin live' BY <1>a, NullIsNoHandle DEF HandlesInv
<1>1. TypeOK'
  <2>1. /\ live' \subseteq 1 .. made /\ credentials' \subseteq 1 .. made
        /\ has_sasl_data' \subseteq 1 .. made
    BY <1>a DEF HandlesInv, TypeOK
  <2>2. \A i \in 1 .. Len(frames') : frames'[i].object \in objects BY <1>p DEF HandlesInv, TypeOK
  <2> QED BY <1>p, <1>b, <1>u, <2>1, <2>2 DEF HandlesInv, TypeOK
<1>2. FramesOwn'
  <2>1. ASSUME NEW i \in 1 .. n - 1
        PROVE  /\ memc'[frames'[i].object] = memc[frames[i].object]
               /\ memc'[frames'[i].object] \in live' \ configured
               /\ made_for[memc'[frames'[i].object]] = frames'[i].id
               /\ \A o \in Objects : memc'[o] = memc'[frames'[i].object] => o = frames'[i].object
    <3>1. memc'[frames'[i].object] = memc[frames[i].object] BY <1>p, <1>b
    <3>2. /\ memc[frames[i].object] \in live \ configured
          /\ made_for[memc[frames[i].object]] = frames[i].id
          /\ \A o \in Objects : memc[o] = memc[frames[i].object] => o = frames[i].object
      BY <1>p DEF HandlesInv, FramesOwn
    <3>3. memc'[frames'[i].object] \in live' \ configured BY <1>a, <1>p, <3>1, <3>2
    <3> QED BY <1>p, <1>b, <1>n, <3>1, <3>2, <3>3
  <2>2. \A i, j \in 1 .. n - 1 : frames'[i].object = frames'[j].object => i = j
    BY <1>p DEF HandlesInv, FramesOwn
  <2> QED BY <1>p, <1>u, <2>1, <2>2 DEF FramesOwn
<1>3. ListOwns' BY <1>a, <1>u, <1>p DEF HandlesInv, ListOwns
<1>4. ObjectsOwn'
  <2>1. ASSUME NEW o \in Objects, memc'[o] # NULL
        PROVE  /\ memc'[o] = memc[o] /\ memc[o] # h /\ o # t
               /\ o \in objects /\ memc[o] \in 1 .. made
               /\ made_for[memc[o]] = NoId => memc[o] \in live' /\ \A p \in Objects : memc'[p] = memc[o] => p = o
               /\ made_for[memc[o]] # NoId =>
                     \/ UnderConstruction(o)'
                     \/ persistent_list[made_for[memc[o]]] = memc[o]
                     \/ made_for[memc[o]] \in overlapped
    <3>1. o # t /\ memc'[o] = memc[o] /\ memc[o] # h BY <1>b, <1>p, <2>1
    <3>2. o \in objects /\ memc[o] \in 1 .. made BY <2>1, <3>1 DEF HandlesInv, ObjectsOwn
    <3>3. made_for[memc[o]] = NoId => memc[o] \in live /\ \A p \in Objects : memc[p] = memc[o] => p = o
      BY <2>1, <3>1 DEF HandlesInv, ObjectsOwn, is_persistent
    <3>4. made_for[memc[o]] = NoId => memc[o] \in live' /\ \A p \in Objects : memc'[p] = memc[o] => p = o
      BY <1>a, <1>b, <2>1, <3>1, <3>3
    <3>5. UnderConstruction(o) => UnderConstruction(o)' BY <1>p, <3>1 DEF UnderConstruction
    <3>6. made_for[memc[o]] # NoId =>
             \/ UnderConstruction(o)
             \/ persistent_list[made_for[memc[o]]] = memc[o]
             \/ made_for[memc[o]] \in overlapped
      BY <2>1, <3>1 DEF HandlesInv, ObjectsOwn, is_persistent
    <3> QED BY <3>1, <3>2, <3>4, <3>5, <3>6
  <2> QED BY <1>u, <2>1 DEF ObjectsOwn, is_persistent
<1>5. OverlapsKnown' BY <1>p, <1>u DEF HandlesInv, OverlapsKnown
<1> QED BY <1>a, <1>1, <1>2, <1>3, <1>4, <1>5 DEF HandlesInv

\* The handles of the list are not among those freed with the objects.
LEMMA EndRequestInv ==
    ASSUME HandlesInv, EndRequest
    PROVE  HandlesInv'
<1> USE HandlesAssumption DEF Handles
<1>a. /\ live' = live \ FreedWith(objects)
      /\ credentials' \subseteq credentials /\ has_sasl_data' \subseteq has_sasl_data /\ SaslInv'
  BY DestroyFacts DEF HandlesInv, EndRequest
<1>1. TypeOK'
  <2>1. /\ live' \subseteq 1 .. made /\ credentials' \subseteq 1 .. made
        /\ has_sasl_data' \subseteq 1 .. made
    BY <1>a DEF HandlesInv, TypeOK
  <2>2. frames' \in Seq([object : Objects, id : Ids \cup {NoId}]) BY <1>a DEF HandlesInv, TypeOK, EndRequest
  <2>3. \A i \in 1 .. Len(frames') : frames'[i].object \in objects'
    BY <1>a DEF HandlesInv, TypeOK, EndRequest, UnderConstruction
  <2>4. \A i \in 1 .. Len(frames) : memc[frames[i].object] \in 1 .. made
    BY DEF HandlesInv, TypeOK, FramesOwn
  <2>5. lost' \subseteq 1 .. made
    <3>1. lost \subseteq 1 .. made BY DEF HandlesInv, TypeOK
    <3>2. {memc[frames[i].object] : i \in 1 .. Len(frames)} \subseteq 1 .. made BY <2>4
    <3> QED BY <3>1, <3>2 DEF EndRequest
  <2> QED BY <2>1, <2>2, <2>3, <2>5 DEF HandlesInv, TypeOK, EndRequest
<1>2. FramesOwn'
  BY <1>a, SMTT(60) DEF HandlesInv, TypeOK, FramesOwn, ListOwns, ObjectsOwn, EndRequest, FreedWith, is_persistent, UnderConstruction
<1>3. ListOwns'
  BY <1>a, SMTT(60) DEF HandlesInv, TypeOK, FramesOwn, ListOwns, ObjectsOwn, EndRequest, FreedWith, is_persistent, UnderConstruction
<1>4. ObjectsOwn'
  BY <1>a, SMTT(60) DEF HandlesInv, TypeOK, FramesOwn, ListOwns, ObjectsOwn, OverlapsKnown, EndRequest, FreedWith, is_persistent, UnderConstruction
<1>5. OverlapsKnown'
  BY <1>a, SMTT(60) DEF HandlesInv, TypeOK, FramesOwn, OverlapsKnown, EndRequest, FreedWith, is_persistent, UnderConstruction
<1>6. SaslInv' BY <1>a
<1> QED BY <1>1, <1>2, <1>3, <1>4, <1>5, <1>6 DEF HandlesInv

\* Without objects only the list refers to handles.
LEMMA EndProcessInv ==
    ASSUME HandlesInv, EndProcess
    PROVE  HandlesInv'
<1> USE HandlesAssumption DEF Handles
<1>a. /\ live' = live \ ({persistent_list[id] : id \in Ids} \ {NULL})
      /\ credentials' \subseteq credentials /\ has_sasl_data' \subseteq has_sasl_data /\ SaslInv'
  BY DestroyFacts DEF HandlesInv, EndProcess
<1>1. TypeOK'
  <2>1. /\ live' \subseteq 1 .. made /\ credentials' \subseteq 1 .. made
        /\ has_sasl_data' \subseteq 1 .. made
    BY <1>a DEF HandlesInv, TypeOK
  <2>2. frames' \in Seq([object : Objects, id : Ids \cup {NoId}]) BY <1>a DEF HandlesInv, TypeOK, EndProcess
  <2>3. \A i \in 1 .. Len(frames') : frames'[i].object \in objects'
    BY <1>a DEF HandlesInv, TypeOK, EndProcess, UnderConstruction
  <2> QED BY <2>1, <2>2, <2>3 DEF HandlesInv, TypeOK, EndProcess
<1>2. FramesOwn'
  BY <1>a, SMTT(60) DEF HandlesInv, TypeOK, FramesOwn, ListOwns, ObjectsOwn, EndProcess, is_persistent, UnderConstruction
<1>3. ListOwns'
  BY <1>a, SMTT(60) DEF HandlesInv, TypeOK, FramesOwn, ListOwns, ObjectsOwn, EndProcess, is_persistent, UnderConstruction
<1>4. ObjectsOwn'
  BY <1>a, SMTT(60) DEF HandlesInv, TypeOK, FramesOwn, ListOwns, ObjectsOwn, OverlapsKnown, EndProcess, is_persistent, UnderConstruction
<1>5. OverlapsKnown'
  BY <1>a, SMTT(60) DEF HandlesInv, TypeOK, FramesOwn, OverlapsKnown, EndProcess, is_persistent, UnderConstruction
<1>6. SaslInv' BY <1>a
<1> QED BY <1>1, <1>2, <1>3, <1>4, <1>5, <1>6 DEF HandlesInv

\* The list destroys the entry it had, if any: a configured handle of the same id, which has
\* overlapped then.
LEMMA CallbackReturnsInv ==
    ASSUME HandlesInv, CallbackReturns
    PROVE  HandlesInv'
<1>p. PICK n \in Nat \ {0}, t \in Objects, d \in Ids \cup {NoId}, h \in live \ configured :
            /\ Top.object = t /\ Top.id = d /\ memc[t] = h /\ made_for[h] = d
            /\ Len(frames) = n /\ frames[n].object = t /\ frames[n].id = d
            /\ \A o \in Objects : memc[o] = h => o = t
            /\ frames' \in Seq([object : Objects, id : Ids \cup {NoId}]) /\ Len(frames') = n - 1
            /\ \A i \in 1 .. n - 1 :
                /\ i \in 1 .. n /\ i # n /\ frames'[i] = frames[i]
                /\ frames[i].object \in Objects \ {t} /\ memc[frames[i].object] # h
  BY InnermostFacts DEF CallbackReturns
<1>u. /\ UNCHANGED <<objects, memc, is_pristine, made, made_for, overlapped, lost>>
      /\ configured' = configured \cup {h}
  BY <1>p DEF CallbackReturns
<1>n. NULL \notin live /\ NULL \notin 1 .. made /\ 1 .. made \subseteq Handles BY NullIsNoHandle DEF HandlesInv
\* What is destroyed: the entry the list had for the id, which was configured.
<1>a. /\ live' \subseteq live /\ credentials' \subseteq credentials /\ has_sasl_data' \subseteq has_sasl_data
      /\ SaslInv'
      /\ \A x \in live \ live' : d \in Ids /\ x = persistent_list[d] /\ x # NULL
  <2>1. CASE d \in Ids
    <3>1. php_memc_destroy({persistent_list[d]} \ {NULL}) BY <1>p, <2>1 DEF CallbackReturns
    <3>2. /\ live' = live \ ({persistent_list[d]} \ {NULL})
          /\ credentials' \subseteq credentials /\ has_sasl_data' \subseteq has_sasl_data /\ SaslInv'
      BY <3>1, DestroyFacts DEF HandlesInv
    <3> QED BY <2>1, <3>2
  <2>2. CASE d \notin Ids
    <3>1. UNCHANGED <<live, credentials, has_sasl_data>> BY <1>p, <2>2 DEF CallbackReturns
    <3> QED BY <3>1 DEF HandlesInv, SaslInv
  <2> QED BY <2>1, <2>2
<1>e. \A x \in live \ live' : x \in configured /\ made_for[x] = d /\ d \in Ids
  BY <1>a DEF HandlesInv, ListOwns
<1>l. /\ persistent_list' \in [Ids -> Handles \cup {NULL}]
      /\ completed' \in [Ids -> Nat]
      /\ \A id \in Ids : persistent_list'[id] = IF id = d THEN h ELSE persistent_list[id]
  <2>1. h \in Handles BY <1>n DEF HandlesInv, TypeOK
  <2>2. CASE d \in Ids
    <3>1. /\ persistent_list' = [persistent_list EXCEPT ![d] = h]
          /\ completed' = [completed EXCEPT ![d] = @ + 1]
      BY <1>p, <2>2 DEF CallbackReturns
    <3> QED BY <2>1, <2>2, <3>1 DEF HandlesInv, TypeOK
  <2>3. CASE d \notin Ids
    <3>1. UNCHANGED <<persistent_list, completed>> BY <1>p, <2>3 DEF CallbackReturns
    <3> QED BY <2>3, <3>1 DEF HandlesInv, TypeOK
  <2> QED BY <2>2, <2>3
<1>1. TypeOK'
  <2>1. /\ live' \subseteq 1 .. made /\ credentials' \subseteq 1 .. made
        /\ has_sasl_data' \subseteq 1 .. made /\ configured' \subseteq 1 .. made
    BY <1>a, <1>u DEF HandlesInv, TypeOK
  <2>2. \A i \in 1 .. Len(frames') : frames'[i].object \in objects BY <1>p DEF HandlesInv, TypeOK
  <2> QED BY <1>p, <1>l, <1>u, <2>1, <2>2 DEF HandlesInv, TypeOK
<1>2. FramesOwn'
  <2>1. ASSUME NEW i \in 1 .. n - 1
        PROVE  /\ memc[frames'[i].object] \in live' \ configured'
               /\ made_for[memc[frames'[i].object]] = frames'[i].id
               /\ \A o \in Objects : memc[o] = memc[frames'[i].object] => o = frames'[i].object
    <3>1. /\ memc[frames[i].object] \in live \ configured
          /\ made_for[memc[frames[i].object]] = frames[i].id
          /\ \A o \in Objects : memc[o] = memc[frames[i].object] => o = frames[i].object
      BY <1>p DEF HandlesInv, FramesOwn
    <3>2. frames'[i] = frames[i] /\ memc[frames[i].object] # h BY <1>p
    <3>3. memc[frames[i].object] \in live' \ configured' BY <1>e, <1>u, <3>1, <3>2
    <3> QED BY <3>1, <3>2, <3>3
  <2>2. \A i, j \in 1 .. n - 1 : frames'[i].object = frames'[j].object => i = j
    BY <1>p DEF HandlesInv, FramesOwn
  <2> QED BY <1>p, <1>u, <2>1, <2>2 DEF FramesOwn
<1>3. ListOwns'
  <2>1. ASSUME NEW id \in Ids, persistent_list'[id] # NULL
        PROVE  persistent_list'[id] \in live' \cap configured' /\ made_for[persistent_list'[id]] = id
    <3>1. CASE id = d BY <1>e, <1>l, <1>p, <1>u, <3>1
    <3>2. CASE id # d
      <4>1. persistent_list'[id] = persistent_list[id] BY <1>l, <3>2
      <4>2. persistent_list[id] \in live \cap configured /\ made_for[persistent_list[id]] = id
        BY <2>1, <4>1 DEF HandlesInv, ListOwns
      <4> QED BY <1>e, <1>u, <3>2, <4>1, <4>2
    <3> QED BY <3>1, <3>2
  <2> QED BY <1>u, <2>1 DEF ListOwns
<1>4. ObjectsOwn'
  <2>1. ASSUME NEW o \in Objects, memc[o] # NULL
        PROVE  /\ o \in objects /\ memc[o] \in 1 .. made
               /\ made_for[memc[o]] = NoId => memc[o] \in live' /\ \A p \in Objects : memc[p] = memc[o] => p = o
               /\ made_for[memc[o]] # NoId =>
                     \/ UnderConstruction(o)'
                     \/ persistent_list'[made_for[memc[o]]] = memc[o]
                     \/ made_for[memc[o]] \in overlapped
    <3>1. o \in objects /\ memc[o] \in 1 .. made BY <2>1 DEF HandlesInv, ObjectsOwn
    <3>2. made_for[memc[o]] = NoId => memc[o] \in live /\ \A p \in Objects : memc[p] = memc[o] => p = o
      BY <2>1 DEF HandlesInv, ObjectsOwn, is_persistent
    <3>3. made_for[memc[o]] = NoId => memc[o] \in live' BY <1>e, <3>2, HandlesAssumption
    <3>4. made_for[memc[o]] # NoId =>
             \/ UnderConstruction(o)
             \/ persistent_list[made_for[memc[o]]] = memc[o]
             \/ made_for[memc[o]] \in overlapped
      BY <2>1 DEF HandlesInv, ObjectsOwn, is_persistent
    <3>5. memc[o] \in Handles /\ made_for[memc[o]] \in Ids \cup {NoId} BY <1>n, <3>1 DEF HandlesInv, TypeOK
    <3>6. UnderConstruction(o) /\ o # t => UnderConstruction(o)'
      BY <1>p DEF UnderConstruction
    <3>7. o = t /\ made_for[memc[o]] # NoId => persistent_list'[made_for[memc[o]]] = memc[o]
      BY <1>l, <1>p, <3>5
    <3>8. ASSUME made_for[memc[o]] # NoId, persistent_list[made_for[memc[o]]] = memc[o]
          PROVE  persistent_list'[made_for[memc[o]]] = memc[o] \/ made_for[memc[o]] \in overlapped
      <4>1. CASE made_for[memc[o]] = d
        <5>1. n \in 1 .. n /\ d \in Ids BY <3>5, <3>8, <4>1
        <5>2. d \in overlapped BY <1>p, <2>1, <3>8, <4>1, <5>1 DEF HandlesInv, OverlapsKnown
        <5> QED BY <4>1, <5>2
      <4>2. CASE made_for[memc[o]] # d BY <1>l, <3>5, <3>8, <4>2
      <4> QED BY <4>1, <4>2
    <3> QED BY <3>1, <3>2, <3>3, <3>4, <3>6, <3>7, <3>8
  <2> QED BY <1>u, <2>1 DEF ObjectsOwn, is_persistent
<1>5. OverlapsKnown'
  <2>1. ASSUME NEW i \in 1 .. n - 1, frames[i].id \in Ids
        PROVE  /\ persistent_list'[frames[i].id] # NULL => frames[i].id \in overlapped
               /\ \A j \in 1 .. n - 1 : i # j /\ frames[i].id = frames[j].id => frames[i].id \in overlapped
    <3>1. i \in 1 .. n /\ n \in 1 .. n /\ i # n BY <1>p
    <3>2. /\ persistent_list[frames[i].id] # NULL => frames[i].id \in overlapped
          /\ \A j \in 1 .. n : i # j /\ frames[i].id = frames[j].id => frames[i].id \in overlapped
      BY <1>p, <2>1, <3>1 DEF HandlesInv, OverlapsKnown
    <3>3. frames[i].id = d => frames[i].id \in overlapped BY <1>p, <3>1, <3>2
    <3>4. frames[i].id # d => persistent_list'[frames[i].id] = persistent_list[frames[i].id] BY <1>l, <2>1
    <3> QED BY <1>p, <3>2, <3>3, <3>4
  <2> QED BY <1>p, <1>u, <2>1 DEF OverlapsKnown
<1> QED BY <1>a, <1>1, <1>2, <1>3, <1>4, <1>5 DEF HandlesInv

\* The handle of the list is configured, so no waiting constructor has it.
LEMMA TakeHandleInv ==
    ASSUME HandlesInv, NEW o \in Objects, NEW id \in Ids, persistent_list[id] # NULL,
           o \in objects, ~UnderConstruction(o),
           TakeHandle(o, id), Overwrites(o), UNCHANGED <<objects, has_sasl_data, credentials>>
    PROVE  HandlesInv'
<1>p. PICK h \in live \cap configured : h = persistent_list[id] /\ made_for[h] = id
  BY DEF HandlesInv, ListOwns
<1>u. UNCHANGED <<objects, has_sasl_data, credentials, persistent_list, frames, made, live, made_for,
                  configured, completed, overlapped>>
  BY DEF TakeHandle
<1>n. NULL \notin live /\ NULL \notin 1 .. made /\ 1 .. made \subseteq Handles BY NullIsNoHandle DEF HandlesInv
<1>m. h \in 1 .. made /\ h # NULL /\ id # NoId BY <1>n, HandlesAssumption DEF HandlesInv, TypeOK
<1>b. /\ memc' \in [Objects -> Handles \cup {NULL}] /\ memc'[o] = h
      /\ \A p \in Objects \ {o} : memc'[p] = memc[p]
  BY <1>p, <1>m, <1>n DEF TakeHandle, HandlesInv, TypeOK
<1>1. TypeOK'
  <2>1. lost' \subseteq 1 .. made BY DEF Overwrites, HandlesInv, TypeOK, ObjectsOwn
  <2>2. is_pristine' \in [Objects -> BOOLEAN] BY DEF TakeHandle, HandlesInv, TypeOK
  <2> QED BY <1>b, <1>u, <2>1, <2>2 DEF HandlesInv, TypeOK
<1>2. FramesOwn'
  <2>1. ASSUME NEW i \in 1 .. Len(frames)
        PROVE  /\ memc'[frames[i].object] = memc[frames[i].object]
               /\ \A p \in Objects : memc'[p] = memc[frames[i].object] => p = frames[i].object
    <3>1. frames[i].object \in Objects /\ frames[i].object # o BY DEF UnderConstruction, HandlesInv, TypeOK
    <3>2. /\ memc[frames[i].object] \notin configured
          /\ \A p \in Objects : memc[p] = memc[frames[i].object] => p = frames[i].object
      BY DEF HandlesInv, FramesOwn
    <3> QED BY <1>b, <1>p, <3>1, <3>2
  <2> QED BY <1>u, <2>1 DEF HandlesInv, FramesOwn
<1>3. ListOwns' BY <1>u DEF HandlesInv, ListOwns
<1>4. ObjectsOwn'
  <2>1. ASSUME NEW p \in Objects \ {o}, memc[p] # NULL
        PROVE  /\ p \in objects /\ memc[p] \in 1 .. made
               /\ made_for[memc[p]] = NoId => memc[p] \in live /\ \A q \in Objects : memc'[q] = memc[p] => q = p
               /\ made_for[memc[p]] # NoId =>
                     \/ UnderConstruction(p)
                     \/ persistent_list[made_for[memc[p]]] = memc[p]
                     \/ made_for[memc[p]] \in overlapped
    BY <1>b, <1>p, <1>m, <2>1 DEF HandlesInv, ObjectsOwn, is_persistent
  <2>2. \A p \in Objects : UnderConstruction(p)' <=> UnderConstruction(p) BY <1>u DEF UnderConstruction
  <2>3. /\ o \in objects /\ memc'[o] \in 1 .. made
        /\ made_for[memc'[o]] # NoId /\ persistent_list[made_for[memc'[o]]] = memc'[o]
    BY <1>b, <1>p, <1>m
  <2> QED BY <1>b, <1>u, <2>1, <2>2, <2>3 DEF ObjectsOwn, is_persistent
<1>5. OverlapsKnown' BY <1>u DEF HandlesInv, OverlapsKnown
<1>6. SaslInv' BY <1>u DEF HandlesInv, SaslInv
<1> QED BY <1>1, <1>2, <1>3, <1>4, <1>5, <1>6 DEF HandlesInv

\* The new handle is nobody's yet; it is registered only where the list had no entry.
LEMMA MakeHandleInv ==
    ASSUME HandlesInv, NEW o \in Objects, NEW id \in Ids \cup {NoId}, NEW on_new \in BOOLEAN,
           id \in Ids => persistent_list[id] = NULL,
           o \in objects, ~UnderConstruction(o),
           MakeHandle(o, id, on_new), Overwrites(o), UNCHANGED <<objects, has_sasl_data, credentials>>
    PROVE  HandlesInv'
<1>n. NULL \notin live /\ NULL \notin 1 .. made /\ 1 .. made \subseteq Handles BY NullIsNoHandle DEF HandlesInv
<1>p. PICK h \in Handles : h = made + 1 /\ h \notin 1 .. made /\ made' = h /\ 1 .. made' = (1 .. made) \cup {h}
  <2>1. made \in Nat /\ MaxHandles \in Nat /\ made < MaxHandles /\ made' = made + 1
    BY HandlesAssumption DEF HandlesInv, TypeOK, MakeHandle
  <2>2. made + 1 \in 1 .. MaxHandles /\ made + 1 \notin 1 .. made /\ 1 .. made + 1 = (1 .. made) \cup {made + 1}
    BY <2>1
  <2> QED BY <2>1, <2>2 DEF Handles
<1>m. h # NULL /\ h \notin live /\ h \notin configured BY <1>p, HandlesAssumption DEF HandlesInv, TypeOK, Handles
<1>u. /\ UNCHANGED <<objects, has_sasl_data, credentials, completed>>
      /\ live' = live \cup {h} /\ configured' \in {configured, configured \cup {h}}
  BY <1>p DEF MakeHandle
<1>b. /\ memc' \in [Objects -> Handles \cup {NULL}] /\ memc'[o] = h
      /\ \A p \in Objects \ {o} : memc'[p] = memc[p]
  BY <1>p DEF MakeHandle, HandlesInv, TypeOK
<1>f. /\ made_for' \in [Handles -> Ids \cup {NoId}] /\ made_for'[h] = id
      /\ \A x \in 1 .. made : made_for'[x] = made_for[x]
  BY <1>n, <1>p DEF MakeHandle, HandlesInv, TypeOK
<1>o. \A p \in Objects : memc[p] # NULL => memc[p] \in 1 .. made /\ memc[p] # h
  BY <1>p DEF HandlesInv, ObjectsOwn
<1>v. /\ overlapped \subseteq overlapped' /\ overlapped' \subseteq Ids
      /\ \A i \in 1 .. Len(frames) : frames[i].id = id /\ id \in Ids => id \in overlapped'
  BY DEF MakeHandle, HandlesInv, TypeOK
\* The frames that were there.
<1>g. ASSUME NEW i \in 1 .. Len(frames)
      PROVE  /\ frames[i].object \in Objects \ {o} /\ frames[i].object \in objects
             /\ memc'[frames[i].object] = memc[frames[i].object]
             /\ memc[frames[i].object] \in live' \ configured'
             /\ made_for'[memc[frames[i].object]] = frames[i].id
             /\ \A p \in Objects : memc'[p] = memc[frames[i].object] => p = frames[i].object
  <2>1. frames[i].object \in Objects \ {o} /\ frames[i].object \in objects
    BY DEF UnderConstruction, HandlesInv, TypeOK
  <2>2. /\ memc[frames[i].object] \in live \ configured
        /\ made_for[memc[frames[i].object]] = frames[i].id
        /\ \A p \in Objects : memc[p] = memc[frames[i].object] => p = frames[i].object
    BY DEF HandlesInv, FramesOwn
  <2>3. memc[frames[i].object] \in 1 .. made BY <2>2 DEF HandlesInv, TypeOK
  <2> QED BY <1>b, <1>f, <1>p, <1>u, <2>1, <2>2, <2>3
<1>s. frames \in Seq(Frame) /\ Len(frames) \in Nat BY LenProperties DEF HandlesInv, TypeOK, Frame
\* Either the object's frame is pushed and the list left alone, or the other way round.
<1>c. \/ /\ on_new /\ persistent_list' = persistent_list /\ configured' = configured
         /\ frames' \in Seq([object : Objects, id : Ids \cup {NoId}]) /\ Len(frames') = Len(frames) + 1
         /\ \A i \in 1 .. Len(frames) : frames'[i] = frames[i]
         /\ frames'[Len(frames) + 1].object = o /\ frames'[Len(frames) + 1].id = id
      \/ /\ ~on_new /\ frames' = frames /\ configured' = configured \cup {h}
         /\ persistent_list' \in [Ids -> Handles \cup {NULL}]
         /\ \A d \in Ids : persistent_list'[d] = IF d = id THEN h ELSE persistent_list[d]
  <2>1. CASE on_new
    <3>1. PICK f \in Frame : f.object = o /\ f.id = id /\ f = [object |-> o, id |-> id] BY DEF Frame
    <3>2. frames' = Append(frames, f) /\ UNCHANGED <<persistent_list, configured>>
      BY <2>1, <3>1 DEF MakeHandle
    <3>3. /\ frames' \in Seq(Frame) /\ Len(frames') = Len(frames) + 1
          /\ \A i \in 1 .. Len(frames) : frames'[i] = frames[i]
          /\ frames'[Len(frames) + 1] = f
      BY <1>s, <3>2, PushFacts
    <3> QED BY <2>1, <3>1, <3>2, <3>3 DEF Frame
  <2>2. CASE ~on_new
    <3>1. /\ frames' = frames /\ configured' = configured \cup {h}
          /\ persistent_list' = IF id \in Ids THEN [persistent_list EXCEPT ![id] = h] ELSE persistent_list
      BY <1>p, <2>2 DEF MakeHandle
    <3>2. /\ persistent_list' \in [Ids -> Handles \cup {NULL}]
          /\ \A d \in Ids : persistent_list'[d] = IF d = id THEN h ELSE persistent_list[d]
      BY <3>1 DEF HandlesInv, TypeOK
    <3> QED BY <2>2, <3>1, <3>2
  <2> QED BY <2>1, <2>2
<1>1. TypeOK'
  <2>1. lost' \subseteq 1 .. made'
    <3>1. lost \subseteq 1 .. made BY DEF HandlesInv, TypeOK
    <3>2. lost' \subseteq lost \cup ({memc[o]} \ {NULL}) BY DEF Overwrites
    <3> QED BY <1>o, <1>p, <3>1, <3>2
  <2>2. is_pristine' \in [Objects -> BOOLEAN] BY DEF MakeHandle, HandlesInv, TypeOK
  <2>3. /\ made' \in 0 .. MaxHandles /\ live' \subseteq 1 .. made' /\ configured' \subseteq 1 .. made'
        /\ has_sasl_data' \subseteq 1 .. made' /\ credentials' \subseteq 1 .. made'
    <3>1. made' \in 0 .. MaxHandles BY <1>p, HandlesAssumption DEF Handles
    <3> QED BY <1>p, <1>u, <3>1 DEF HandlesInv, TypeOK
  <2>4. /\ frames' \in Seq([object : Objects, id : Ids \cup {NoId}])
        /\ persistent_list' \in [Ids -> Handles \cup {NULL}]
    BY <1>c DEF HandlesInv, TypeOK
  <2>5. \A i \in 1 .. Len(frames') : frames'[i].object \in objects
    <3>1. CASE on_new
      <4>1. \A i \in 1 .. Len(frames) + 1 : i \in 1 .. Len(frames) \/ i = Len(frames) + 1 BY <1>s
      <4> QED BY <1>c, <1>g, <3>1, <4>1
    <3>2. CASE ~on_new BY <1>c, <1>g, <3>2
    <3> QED BY <3>1, <3>2
  <2> QED BY <1>b, <1>f, <1>u, <1>v, <2>1, <2>2, <2>3, <2>4, <2>5 DEF HandlesInv, TypeOK
<1>2. FramesOwn'
  <2>1. CASE on_new
    <3>1. \A i \in 1 .. Len(frames) + 1 : i \in 1 .. Len(frames) \/ i = Len(frames) + 1 BY <1>s
    <3>2. \A i, j \in 1 .. Len(frames) + 1 : frames'[i].object = frames'[j].object => i = j
      BY <1>c, <1>g, <2>1, <3>1 DEF HandlesInv, FramesOwn
    <3>3. ASSUME NEW i \in 1 .. Len(frames)
          PROVE  /\ memc'[frames'[i].object] \in live' \ configured'
                 /\ made_for'[memc'[frames'[i].object]] = frames'[i].id
                 /\ \A p \in Objects : memc'[p] = memc'[frames'[i].object] => p = frames'[i].object
      BY <1>c, <1>g, <2>1
    <3>4. \A p \in Objects : memc'[p] = h => p = o BY <1>b, <1>m, <1>o
    <3>5. /\ memc'[o] \in live' \ configured' /\ made_for'[memc'[o]] = id
          /\ \A p \in Objects : memc'[p] = memc'[o] => p = o
      BY <1>b, <1>c, <1>f, <1>m, <1>u, <2>1, <3>4
    <3>6. ASSUME NEW i \in 1 .. Len(frames) + 1
          PROVE  /\ memc'[frames'[i].object] \in live' \ configured'
                 /\ made_for'[memc'[frames'[i].object]] = frames'[i].id
                 /\ \A p \in Objects : memc'[p] = memc'[frames'[i].object] => p = frames'[i].object
      <4>1. CASE i \in 1 .. Len(frames) BY <3>3, <4>1
      <4>2. CASE i = Len(frames) + 1 BY <1>c, <2>1, <3>5, <4>2
      <4> QED BY <3>1, <4>1, <4>2
    <3> QED BY <1>c, <2>1, <3>2, <3>6 DEF FramesOwn
  <2>2. CASE ~on_new
    <3>1. frames' = frames BY <1>c, <2>2
    <3> QED BY <1>g, <3>1 DEF HandlesInv, FramesOwn
  <2> QED BY <2>1, <2>2
<1>3. ListOwns'
  <2>1. ASSUME NEW d \in Ids, persistent_list[d] # NULL
        PROVE  /\ persistent_list[d] \in live' \cap configured' /\ made_for'[persistent_list[d]] = d
    <3>1. persistent_list[d] \in live \cap configured /\ made_for[persistent_list[d]] = d
      BY <2>1 DEF HandlesInv, ListOwns
    <3>2. persistent_list[d] \in 1 .. made BY <3>1 DEF HandlesInv, TypeOK
    <3> QED BY <1>f, <1>u, <3>1, <3>2
  <2>2. CASE on_new BY <1>c, <2>1, <2>2 DEF ListOwns
  <2>3. CASE ~on_new
    <3>1. h \in live' \cap configured' /\ made_for'[h] = id BY <1>c, <1>f, <1>u, <2>3
    <3> QED BY <1>c, <2>1, <2>3, <3>1 DEF ListOwns
  <2> QED BY <2>2, <2>3
<1>4. ObjectsOwn'
  <2>1. ASSUME NEW p \in Objects \ {o}, memc[p] # NULL
        PROVE  /\ p \in objects /\ memc[p] \in 1 .. made'
               /\ made_for'[memc[p]] = NoId => memc[p] \in live' /\ \A q \in Objects : memc'[q] = memc[p] => q = p
               /\ made_for'[memc[p]] # NoId =>
                     \/ UnderConstruction(p)'
                     \/ persistent_list'[made_for'[memc[p]]] = memc[p]
                     \/ made_for'[memc[p]] \in overlapped'
    <3>1. p \in objects /\ memc[p] \in 1 .. made BY <2>1 DEF HandlesInv, ObjectsOwn
    <3>2. made_for'[memc[p]] = made_for[memc[p]] /\ memc[p] # h BY <1>f, <1>p, <3>1
    <3>3. made_for[memc[p]] = NoId => memc[p] \in live /\ \A q \in Objects : memc[q] = memc[p] => q = p
      BY <2>1 DEF HandlesInv, ObjectsOwn, is_persistent
    <3>4. made_for[memc[p]] # NoId =>
             \/ UnderConstruction(p)
             \/ persistent_list[made_for[memc[p]]] = memc[p]
             \/ made_for[memc[p]] \in overlapped
      BY <2>1 DEF HandlesInv, ObjectsOwn, is_persistent
    <3>5. UnderConstruction(p) => UnderConstruction(p)'
      <4>1. CASE on_new
        <5>1. \A i \in 1 .. Len(frames) : i \in 1 .. Len(frames) + 1 BY <1>s
        <5> QED BY <1>c, <4>1, <5>1 DEF UnderConstruction
      <4>2. CASE ~on_new BY <1>c, <4>2 DEF UnderConstruction
      <4> QED BY <4>1, <4>2
    <3>6. made_for[memc[p]] \in Ids \cup {NoId} BY <1>n, <3>1 DEF HandlesInv, TypeOK
    <3>7. made_for[memc[p]] # NoId /\ persistent_list[made_for[memc[p]]] = memc[p] =>
              persistent_list'[made_for[memc[p]]] = memc[p]
      <4>1. CASE on_new BY <1>c, <4>1
      <4>2. CASE ~on_new BY <1>c, <2>1, <3>6, <4>2
      <4> QED BY <4>1, <4>2
    <3>8. made_for[memc[p]] = NoId => memc[p] \in live' /\ \A q \in Objects : memc'[q] = memc[p] => q = p
      BY <1>b, <1>u, <3>2, <3>3
    <3>9. memc[p] \in 1 .. made' BY <1>p, <3>1
    <3> QED BY <1>v, <3>1, <3>2, <3>4, <3>5, <3>7, <3>8, <3>9
  <2>2. /\ o \in objects /\ memc'[o] \in 1 .. made'
        /\ memc'[o] \in live' /\ \A q \in Objects : memc'[q] = memc'[o] => q = o
    BY <1>b, <1>m, <1>o, <1>p, <1>u
  <2>3. made_for'[memc'[o]] # NoId => UnderConstruction(o)' \/ persistent_list'[made_for'[memc'[o]]] = memc'[o]
    <3>1. made_for'[memc'[o]] = id BY <1>b, <1>f
    <3>2. CASE on_new
      <4>1. Len(frames) + 1 \in 1 .. Len(frames) + 1 BY <1>s
      <4>2. UnderConstruction(o)' BY <1>c, <3>2, <4>1 DEF UnderConstruction
      <4> QED BY <4>2
    <3>3. CASE ~on_new BY <1>b, <1>c, <3>1, <3>3
    <3> QED BY <3>2, <3>3
  <2> QED BY <1>b, <1>u, <2>1, <2>2, <2>3 DEF ObjectsOwn, is_persistent
<1>5. OverlapsKnown'
  <2>1. CASE on_new
    <3>1. ASSUME NEW i \in 1 .. Len(frames) + 1, frames'[i].id \in Ids
          PROVE  persistent_list[frames'[i].id] # NULL => frames'[i].id \in overlapped'
      <4>1. CASE i \in 1 .. Len(frames) BY <1>c, <1>v, <2>1, <3>1, <4>1 DEF HandlesInv, OverlapsKnown
      <4>2. CASE i = Len(frames) + 1 BY <1>c, <2>1, <3>1, <4>2
      <4> QED BY <1>s, <4>1, <4>2
    <3>2. ASSUME NEW i \in 1 .. Len(frames) + 1, NEW j \in 1 .. Len(frames) + 1,
                 frames'[i].id \in Ids, i # j, frames'[i].id = frames'[j].id
          PROVE  frames'[i].id \in overlapped'
      <4>1. CASE i \in 1 .. Len(frames) /\ j \in 1 .. Len(frames)
        BY <1>c, <1>v, <2>1, <3>2, <4>1 DEF HandlesInv, OverlapsKnown
      <4>2. CASE i = Len(frames) + 1 /\ j \in 1 .. Len(frames) BY <1>c, <1>v, <2>1, <3>2, <4>2
      <4>3. CASE i \in 1 .. Len(frames) /\ j = Len(frames) + 1 BY <1>c, <1>v, <2>1, <3>2, <4>3
      <4> QED BY <1>s, <3>2, <4>1, <4>2, <4>3
    <3> QED BY <1>c, <2>1, <3>1, <3>2 DEF OverlapsKnown
  <2>2. CASE ~on_new
    <3>1. ASSUME NEW i \in 1 .. Len(frames), frames[i].id \in Ids
          PROVE  /\ persistent_list'[frames[i].id] # NULL => frames[i].id \in overlapped'
                 /\ \A j \in 1 .. Len(frames) : i # j /\ frames[i].id = frames[j].id => frames[i].id \in overlapped'
      BY <1>c, <1>v, <2>2, <3>1 DEF HandlesInv, OverlapsKnown
    <3> QED BY <1>c, <2>2, <3>1 DEF OverlapsKnown
  <2> QED BY <2>1, <2>2
<1>6. SaslInv' BY <1>u DEF HandlesInv, SaslInv
<1> QED BY <1>1, <1>2, <1>3, <1>4, <1>5, <1>6 DEF HandlesInv

\* Both ways of the constructor together.
LEMMA ConstructInv ==
    ASSUME HandlesInv, NEW o \in Objects, NEW id \in Ids \cup {NoId}, NEW on_new \in BOOLEAN,
           Construct(o, id, on_new)
    PROVE  HandlesInv'
<1>1. CASE id \in Ids /\ persistent_list[id] # NULL BY <1>1, TakeHandleInv DEF Construct
<1>2. CASE ~(id \in Ids /\ persistent_list[id] # NULL) BY <1>2, MakeHandleInv DEF Construct
<1> QED BY <1>1, <1>2

-----------------------------------------------------------------------------
\* A process starts without objects and handles.
LEMMA InitInv ==
    ASSUME Init
    PROVE  HandlesInv
<1>1. frames = << >> /\ Len(frames) = 0 /\ 1 .. Len(frames) = {} BY DEF Init
<1>2. frames \in Seq([object : Objects, id : Ids \cup {NoId}]) BY <1>1, EmptySeq
<1>3. made \in 0 .. MaxHandles BY HandlesAssumption DEF Init
<1>4. TypeOK BY <1>1, <1>2, <1>3 DEF Init, TypeOK, Handles
<1> QED BY <1>1, <1>4 DEF Init, HandlesInv, FramesOwn, ListOwns, ObjectsOwn, OverlapsKnown, SaslInv

\* The invariant is about the variables only.
LEMMA StutterInv ==
    ASSUME HandlesInv, UNCHANGED vars
    PROVE  HandlesInv'
BY DEF vars, HandlesInv, TypeOK, FramesOwn, ListOwns, ObjectsOwn, OverlapsKnown, SaslInv,
       is_persistent, UnderConstruction

\* Every step keeps the invariant.
LEMMA StepInv ==
    ASSUME HandlesInv, [Next]_vars
    PROVE  HandlesInv'
<1>1. ASSUME NEW o \in Objects, New(o) \/ SetSaslAuthData(o) \/ Drop(o)
      PROVE  HandlesInv'
  BY <1>1, NewInv, SetSaslAuthDataInv, DropInv
<1>2. ASSUME NEW o \in Objects, NEW id \in Ids \cup {NoId}, NEW on_new \in BOOLEAN, Construct(o, id, on_new)
      PROVE  HandlesInv'
  BY <1>2, ConstructInv
<1>3. CASE CallbackReturns BY <1>3, CallbackReturnsInv
<1>4. CASE CallbackThrows BY <1>4, CallbackThrowsInv
<1>5. CASE EndRequest BY <1>5, EndRequestInv
<1>6. CASE EndProcess BY <1>6, EndProcessInv
<1>7. CASE UNCHANGED vars BY <1>7, StutterInv
<1> QED BY <1>1, <1>2, <1>3, <1>4, <1>5, <1>6, <1>7 DEF Next

\* The inductive invariant of handles: who owns what, in every behaviour of __construct, its
\* callback, php_memc_object_free_storage and php_memc_dtor.
THEOREM Ownership == Spec => []HandlesInv
<1>1. Init => HandlesInv BY InitInv
<1>2. HandlesInv /\ [Next]_vars => HandlesInv' BY StepInv
<1> QED BY <1>1, <1>2, PTL DEF Spec

\* The objects and handles of a process keep their types, and no object under construction
\* goes away.
THEOREM TypeCorrect == Spec => []TypeOK
<1>1. HandlesInv => TypeOK BY DEF HandlesInv
<1> QED BY <1>1, Ownership, PTL

\* No reference to a freed handle, neither in an object nor in the list nor in a constructor
\* that comes back from on_new, unless constructors for an id overlapped.
THEOREM NothingDangles == Spec => []NoDangling
<1>1. HandlesInv => NoDangling
  <2> SUFFICES ASSUME HandlesInv PROVE NoDangling OBVIOUS
  <2>1. ASSUME NEW o \in objects, memc[o] # NULL
        PROVE  memc[o] \in live \/ made_for[memc[o]] \in overlapped
    <3>1. o \in Objects BY DEF HandlesInv, TypeOK
    <3>2. UnderConstruction(o) => memc[o] \in live BY DEF HandlesInv, FramesOwn, UnderConstruction
    <3>3. made_for[memc[o]] \in Ids \cup {NoId}
      <4>1. memc[o] \in Handles BY <2>1, <3>1 DEF HandlesInv, TypeOK
      <4> QED BY <4>1 DEF HandlesInv, TypeOK
    <3>4. made_for[memc[o]] \in Ids /\ persistent_list[made_for[memc[o]]] = memc[o] => memc[o] \in live
      BY <2>1 DEF HandlesInv, ListOwns
    <3> QED BY <2>1, <3>1, <3>2, <3>3, <3>4 DEF HandlesInv, ObjectsOwn, is_persistent
  <2>2. \A id \in Ids : persistent_list[id] # NULL => persistent_list[id] \in live BY DEF HandlesInv, ListOwns
  <2>3. \A i \in 1 .. Len(frames) : memc[frames[i].object] \in live BY DEF HandlesInv, FramesOwn
  <2> QED BY <2>1, <2>2, <2>3 DEF NoDangling
<1> QED BY <1>1, Ownership, PTL

\* php_memc_destroy leaves no credentials of a freed handle.
THEOREM CredentialsGo == Spec => []NoCredentialsLeft
<1>1. HandlesInv => NoCredentialsLeft BY DEF HandlesInv, SaslInv, NoCredentialsLeft
<1> QED BY <1>1, Ownership, PTL

-----------------------------------------------------------------------------
\* OnNewOnce is inductive relative to HandlesInv: a second callback that returns finds the id
\* registered, and then it has overlapped.
LEMMA OnNewOnceStep ==
    ASSUME HandlesInv, OnNewOnce, [Next]_vars
    PROVE  OnNewOnce'
<1>1. ASSUME NEW o \in Objects, New(o) \/ SetSaslAuthData(o) \/ Drop(o)
      PROVE  OnNewOnce'
  BY <1>1 DEF OnNewOnce, New, SetSaslAuthData, Drop
<1>2. ASSUME NEW o \in Objects, NEW id \in Ids \cup {NoId}, NEW on_new \in BOOLEAN, Construct(o, id, on_new)
      PROVE  OnNewOnce'
  <2>1. completed' = completed /\ overlapped \subseteq overlapped'
    BY <1>2 DEF Construct, TakeHandle, MakeHandle
  <2>2. \A d \in Ids : persistent_list[d] # NULL => persistent_list'[d] # NULL
    <3>1. CASE id \in Ids /\ persistent_list[id] # NULL BY <1>2, <3>1 DEF Construct, TakeHandle
    <3>2. CASE ~(id \in Ids /\ persistent_list[id] # NULL)
      <4>1. \/ persistent_list' = persistent_list
            \/ id \in Ids /\ persistent_list' = [persistent_list EXCEPT ![id] = made + 1]
        BY <1>2, <3>2 DEF Construct, MakeHandle
      <4> QED BY <3>2, <4>1 DEF HandlesInv, TypeOK
    <3> QED BY <3>1, <3>2
  <2> QED BY <2>1, <2>2 DEF OnNewOnce
<1>3. CASE CallbackReturns
  <2>p. PICK n \in Nat \ {0}, t \in Objects, d \in Ids \cup {NoId}, h \in live \ configured :
            /\ Top.object = t /\ Top.id = d /\ memc[t] = h
            /\ Len(frames) = n /\ frames[n].id = d
    BY <1>3, InnermostFacts DEF CallbackReturns
  <2>u. overlapped' = overlapped BY <1>3 DEF CallbackReturns
  <2>1. CASE d \in Ids
    <3>1. /\ persistent_list' = [persistent_list EXCEPT ![d] = h]
          /\ completed' = [completed EXCEPT ![d] = completed[d] + 1]
      BY <1>3, <2>p, <2>1 DEF CallbackReturns
    <3>2. /\ \A id \in Ids : persistent_list'[id] = IF id = d THEN h ELSE persistent_list[id]
          /\ \A id \in Ids : completed'[id] = IF id = d THEN completed[d] + 1 ELSE completed[id]
          /\ completed[d] \in Nat
      BY <2>1, <3>1 DEF HandlesInv, TypeOK
    <3>3. h # NULL BY NullIsNoHandle DEF HandlesInv
    <3>4. persistent_list[d] # NULL => d \in overlapped BY <2>p, <2>1 DEF HandlesInv, OverlapsKnown
    <3>5. completed[d] + 1 > 1 => d \in overlapped BY <2>1, <3>2, <3>4 DEF OnNewOnce
    <3> QED BY <2>u, <3>2, <3>3, <3>5 DEF OnNewOnce
  <2>2. CASE d \notin Ids
    <3>1. UNCHANGED <<persistent_list, completed>> BY <1>3, <2>p, <2>2 DEF CallbackReturns
    <3> QED BY <2>u, <3>1 DEF OnNewOnce
  <2> QED BY <2>1, <2>2
<1>4. CASE CallbackThrows BY <1>4 DEF OnNewOnce, CallbackThrows
<1>5. CASE EndRequest BY <1>5 DEF OnNewOnce, EndRequest
<1>6. CASE EndProcess BY <1>6 DEF OnNewOnce, EndProcess
<1>7. CASE UNCHANGED vars BY <1>7 DEF OnNewOnce, vars
<1> QED BY <1>1, <1>2, <1>3, <1>4, <1>5, <1>6, <1>7 DEF Next

\* on_new of a persistent id runs to its end once per process unless constructors for the id
\* overlapped, and then the id is registered.
THEOREM CallbackOnce == Spec => []OnNewOnce
<1>1. Init => OnNewOnce BY DEF Init, OnNewOnce
<1>2. HandlesInv /\ OnNewOnce /\ [Next]_vars => OnNewOnce' BY OnNewOnceStep
<1> QED BY <1>1, <1>2, Ownership, PTL DEF Spec

-----------------------------------------------------------------------------
\* The constructor's two ways of giving an object a handle.
LEMMA ConstructFacts ==
    ASSUME HandlesInv, NEW o \in Objects, NEW id \in Ids \cup {NoId}, NEW on_new \in BOOLEAN,
           Construct(o, id, on_new)
    PROVE  /\ o \in objects /\ ~UnderConstruction(o) /\ objects' = objects
           /\ configured \subseteq configured' /\ live \subseteq live' /\ lost \subseteq lost'
           /\ memc'[o] # NULL /\ memc'[o] \in Handles
           /\ \A p \in Objects \ {o} : memc'[p] = memc[p] /\ is_pristine'[p] = is_pristine[p]
           /\ \/ /\ ~is_pristine'[o] /\ memc'[o] \in configured /\ made_for' = made_for /\ live' = live
                 /\ frames' = frames /\ persistent_list' = persistent_list
              \/ /\ is_pristine'[o] /\ memc'[o] = made + 1 /\ live' = live \cup {memc'[o]}
                 /\ \A p \in Objects : memc[p] # memc'[o]
                 /\ \A x \in 1 .. made : made_for'[x] = made_for[x]
                 /\ made_for'[memc'[o]] = id
<1>n. NULL \notin 1 .. made /\ 1 .. made \subseteq Handles BY NullIsNoHandle DEF HandlesInv
<1>0. o \in objects /\ ~UnderConstruction(o) /\ objects' = objects /\ lost \subseteq lost'
  BY DEF Construct, Overwrites
<1>1. CASE id \in Ids /\ persistent_list[id] # NULL
  <2>1. /\ memc' = [memc EXCEPT ![o] = persistent_list[id]]
        /\ is_pristine' = [is_pristine EXCEPT ![o] = FALSE]
        /\ UNCHANGED <<frames, persistent_list, live, made_for, configured>>
    BY <1>1 DEF Construct, TakeHandle
  <2>2. persistent_list[id] \in configured /\ persistent_list[id] \in Handles
    BY <1>1, <1>n DEF HandlesInv, ListOwns, TypeOK
  <2>3. /\ memc'[o] = persistent_list[id] /\ ~is_pristine'[o]
        /\ \A p \in Objects \ {o} : memc'[p] = memc[p] /\ is_pristine'[p] = is_pristine[p]
    BY <2>1 DEF HandlesInv, TypeOK
  <2> QED BY <1>0, <1>1, <2>1, <2>2, <2>3
<1>2. CASE ~(id \in Ids /\ persistent_list[id] # NULL)
  <2>1. MakeHandle(o, id, on_new) BY <1>2 DEF Construct
  <2>2. PICK h \in Handles : h = made + 1 /\ h \notin 1 .. made
    <3>1. made \in Nat /\ MaxHandles \in Nat /\ made < MaxHandles
      BY <2>1, HandlesAssumption DEF HandlesInv, TypeOK, MakeHandle
    <3> QED BY <3>1 DEF Handles
  <2>3. h # NULL BY HandlesAssumption DEF Handles
  <2>4. /\ memc' = [memc EXCEPT ![o] = h] /\ is_pristine' = [is_pristine EXCEPT ![o] = TRUE]
        /\ live' = live \cup {h} /\ made_for' = [made_for EXCEPT ![h] = id]
        /\ configured \subseteq configured'
    BY <2>1, <2>2 DEF MakeHandle
  <2>5. /\ memc'[o] = h /\ is_pristine'[o] /\ made_for'[h] = id
        /\ \A p \in Objects \ {o} : memc'[p] = memc[p] /\ is_pristine'[p] = is_pristine[p]
        /\ \A x \in 1 .. made : made_for'[x] = made_for[x]
    BY <1>n, <2>2, <2>4 DEF HandlesInv, TypeOK
  <2>6. \A p \in Objects : memc[p] # h BY <2>2, <2>3 DEF HandlesInv, ObjectsOwn
  <2> QED BY <1>0, <2>2, <2>3, <2>4, <2>5, <2>6
<1> QED BY <1>1, <1>2

\* PristineMeansMine is inductive relative to HandlesInv.
LEMMA PristineStep ==
    ASSUME HandlesInv, PristineMeansMine, [Next]_vars
    PROVE  PristineMeansMine'
<1>0. \A o \in Objects : memc[o] # NULL => o \in objects BY DEF HandlesInv, ObjectsOwn
\* The invariant survives where no object gets a handle or changes its mind.
<1>a. ASSUME objects' \subseteq Objects, configured \subseteq configured',
             \A o \in objects' : memc'[o] # NULL => memc'[o] = memc[o] /\ is_pristine'[o] = is_pristine[o]
      PROVE  PristineMeansMine'
  BY <1>0, <1>a DEF PristineMeansMine
<1>t. objects \subseteq Objects /\ objects' \subseteq Objects
  <2>1. HandlesInv' BY StepInv
  <2> QED BY <2>1 DEF HandlesInv, TypeOK
<1>1. ASSUME NEW o \in Objects, New(o) \/ SetSaslAuthData(o) \/ Drop(o)
      PROVE  PristineMeansMine'
  <2>1. CASE New(o) BY <1>a, <1>t, <2>1 DEF New
  <2>2. CASE SetSaslAuthData(o) BY <1>a, <1>t, <2>2 DEF SetSaslAuthData
  <2>3. CASE Drop(o)
    <3>1. configured' = configured /\ \A p \in objects' : memc'[p] = memc[p] /\ is_pristine'[p] = is_pristine[p]
      BY <1>t, <2>3 DEF Drop, HandlesInv, TypeOK
    <3> QED BY <1>a, <1>t, <3>1
  <2> QED BY <1>1, <2>1, <2>2, <2>3
<1>2. ASSUME NEW o \in Objects, NEW id \in Ids \cup {NoId}, NEW on_new \in BOOLEAN, Construct(o, id, on_new)
      PROVE  PristineMeansMine'
  <2>1. /\ o \in objects /\ objects' = objects /\ configured \subseteq configured'
        /\ \A p \in Objects \ {o} : memc'[p] = memc[p] /\ is_pristine'[p] = is_pristine[p]
        /\ \/ ~is_pristine'[o] /\ memc'[o] \in configured
           \/ is_pristine'[o] /\ \A p \in Objects : memc[p] # memc'[o]
    BY <1>2, ConstructFacts
  <2> QED BY <1>t, <2>1 DEF PristineMeansMine
<1>3. CASE CallbackReturns
  <2>1. configured \subseteq configured' /\ memc' = memc /\ is_pristine' = is_pristine
    BY <1>3 DEF CallbackReturns
  <2> QED BY <1>a, <1>t, <2>1
<1>4. CASE CallbackThrows
  <2>1. \A o \in Objects : memc'[o] # NULL => memc'[o] = memc[o] BY <1>4 DEF CallbackThrows, HandlesInv, TypeOK
  <2> QED BY <1>4, <1>a, <1>t, <2>1 DEF CallbackThrows
<1>5. CASE EndRequest BY <1>5, <1>a, <1>t DEF EndRequest
<1>6. CASE EndProcess BY <1>6, <1>a, <1>t DEF EndProcess
<1>7. CASE UNCHANGED vars BY <1>7 DEF PristineMeansMine, vars
<1> QED BY <1>1, <1>2, <1>3, <1>4, <1>5, <1>6, <1>7 DEF Next

\* isPristine: FALSE only with a handle whose constructor ran to its end, TRUE for at most one
\* object of a handle.
THEOREM PristineTells == Spec => []PristineMeansMine
<1>1. Init => PristineMeansMine BY DEF Init, PristineMeansMine
<1>2. HandlesInv /\ PristineMeansMine /\ [Next]_vars => PristineMeansMine' BY PristineStep
<1> QED BY <1>1, <1>2, Ownership, PTL DEF Spec

-----------------------------------------------------------------------------
\* Those that will free a handle: the three cases of NoLeak.
Registered(h) == \E id \in Ids : persistent_list[id] = h
Private(h)    == made_for[h] = NoId /\ \E o \in objects : memc[o] = h
Waiting(h)    == \E i \in 1 .. Len(frames) : memc[frames[i].object] = h

\* NoLeak in these words.
LEMMA NoLeakMeans == NoLeak <=> \A h \in live \ lost : Registered(h) \/ Private(h) \/ Waiting(h)
BY DEF NoLeak, Registered, Private, Waiting, is_persistent

\* The constructor: the handle it overwrites is lost or persistent, and then somebody else
\* will free it.
LEMMA ConstructNoLeak ==
    ASSUME HandlesInv, NoLeak, NEW o \in Objects, NEW id \in Ids \cup {NoId}, NEW on_new \in BOOLEAN,
           Construct(o, id, on_new), NEW x \in live' \ lost'
    PROVE  Registered(x)' \/ Private(x)' \/ Waiting(x)'
<1>c. /\ o \in objects /\ ~UnderConstruction(o) /\ objects' = objects /\ lost \subseteq lost'
      /\ \A p \in Objects \ {o} : memc'[p] = memc[p]
  BY ConstructFacts
<1>s. frames \in Seq(Frame) /\ Len(frames) \in Nat BY LenProperties DEF HandlesInv, TypeOK, Frame
<1>g. \A i \in 1 .. Len(frames) : frames[i].object \in Objects \ {o} /\ memc'[frames[i].object] = memc[frames[i].object]
  BY <1>c DEF UnderConstruction, HandlesInv, TypeOK
<1>k. live \subseteq 1 .. made /\ objects \subseteq Objects BY DEF HandlesInv, TypeOK
\* The handle o held is thrown away, unless it is persistent.
<1>l. x \in live /\ made_for[x] = NoId => memc[o] # x
  <2>1. lost' = lost \cup {h \in {memc[o]} \ {NULL} : made_for[h] = NoId}
    BY DEF Construct, Overwrites, is_persistent
  <2>2. x # NULL \/ x \notin live BY NullIsNoHandle DEF HandlesInv
  <2> QED BY <2>1, <2>2
<1>1. CASE id \in Ids /\ persistent_list[id] # NULL
  <2>1. UNCHANGED <<live, made_for, frames, persistent_list>> BY <1>1 DEF Construct, TakeHandle
  <2>2. Registered(x) \/ Private(x) \/ Waiting(x) BY <1>c, <2>1, NoLeakMeans
  <2>3. Registered(x) => Registered(x)' BY <2>1 DEF Registered
  <2>4. Private(x) => Private(x)' BY <1>c, <1>k, <1>l, <2>1 DEF Private
  <2>5. Waiting(x) => Waiting(x)' BY <1>g, <2>1 DEF Waiting
  <2> QED BY <2>2, <2>3, <2>4, <2>5
<1>2. CASE ~(id \in Ids /\ persistent_list[id] # NULL)
  <2>1. MakeHandle(o, id, on_new) BY <1>2 DEF Construct
  <2>n. NULL \notin 1 .. made /\ 1 .. made \subseteq Handles BY NullIsNoHandle DEF HandlesInv
  <2>2. PICK h \in Handles : h = made + 1 /\ h \notin 1 .. made
    <3>1. made \in Nat /\ MaxHandles \in Nat /\ made < MaxHandles
      BY <2>1, HandlesAssumption DEF HandlesInv, TypeOK, MakeHandle
    <3> QED BY <3>1 DEF Handles
  <2>3. /\ memc'[o] = h /\ live' = live \cup {h} /\ made_for'[h] = id
        /\ \A y \in 1 .. made : made_for'[y] = made_for[y]
    <3>1. /\ memc' = [memc EXCEPT ![o] = h] /\ live' = live \cup {h} /\ made_for' = [made_for EXCEPT ![h] = id]
      BY <2>1, <2>2 DEF MakeHandle
    <3> QED BY <2>n, <2>2, <3>1 DEF HandlesInv, TypeOK
  <2>4. \/ /\ on_new /\ persistent_list' = persistent_list
           /\ Len(frames') = Len(frames) + 1
           /\ \A i \in 1 .. Len(frames) : frames'[i] = frames[i]
           /\ frames'[Len(frames) + 1].object = o
        \/ /\ ~on_new /\ frames' = frames
           /\ \A d \in Ids : persistent_list'[d] = IF d = id THEN h ELSE persistent_list[d]
    <3>1. CASE on_new
      <4>1. PICK f \in Frame : f.object = o /\ f = [object |-> o, id |-> id] BY DEF Frame
      <4>2. frames' = Append(frames, f) /\ persistent_list' = persistent_list
        BY <2>1, <3>1, <4>1 DEF MakeHandle
      <4> QED BY <1>s, <3>1, <4>1, <4>2, PushFacts
    <3>2. CASE ~on_new
      <4>1. /\ frames' = frames
            /\ persistent_list' = IF id \in Ids THEN [persistent_list EXCEPT ![id] = h] ELSE persistent_list
        BY <2>1, <2>2, <3>2 DEF MakeHandle
      <4> QED BY <3>2, <4>1 DEF HandlesInv, TypeOK
    <3> QED BY <3>1, <3>2
  <2>5. CASE x = h
    <3>1. CASE on_new
      <4>1. Len(frames) + 1 \in 1 .. Len(frames) + 1 BY <1>s
      <4> QED BY <2>3, <2>4, <2>5, <3>1, <4>1 DEF Waiting
    <3>2. CASE ~on_new /\ id \in Ids BY <2>4, <2>5, <3>2 DEF Registered
    <3>3. CASE id = NoId BY <1>c, <2>3, <2>5, <3>3 DEF Private
    <3> QED BY <3>1, <3>2, <3>3
  <2>6. CASE x # h
    <3>1. x \in live /\ x \in 1 .. made /\ x # NULL BY <1>k, <2>n, <2>3, <2>6
    <3>2. Registered(x) \/ Private(x) \/ Waiting(x) BY <1>c, <3>1, NoLeakMeans
    <3>3. Registered(x) => Registered(x)' BY <1>2, <2>4, <3>1 DEF Registered
    <3>4. Private(x) => Private(x)' BY <1>c, <1>k, <1>l, <2>3, <3>1 DEF Private
    <3>5. Waiting(x) => Waiting(x)'
      <4>1. \A i \in 1 .. Len(frames) : i \in 1 .. Len(frames) + 1 BY <1>s
      <4> QED BY <1>g, <2>4, <4>1 DEF Waiting
    <3> QED BY <3>2, <3>3, <3>4, <3>5
  <2> QED BY <2>5, <2>6
<1> QED BY <1>1, <1>2

\* The end of a callback: its handle is registered, private or freed.
LEMMA CallbackNoLeak ==
    ASSUME HandlesInv, NoLeak, CallbackReturns \/ CallbackThrows, NEW x \in live' \ lost'
    PROVE  Registered(x)' \/ Private(x)' \/ Waiting(x)'
<1>0. frames # << >> /\ frames' = Outer /\ UNCHANGED <<objects, made_for, lost>>
  BY DEF CallbackReturns, CallbackThrows
<1>p. PICK n \in Nat \ {0}, t \in Objects, d \in Ids \cup {NoId}, h \in live \ configured :
            /\ Top.object = t /\ Top.id = d /\ memc[t] = h /\ made_for[h] = d
            /\ Len(frames) = n /\ frames[n].object = t
            /\ Len(frames') = n - 1
            /\ \A i \in 1 .. n - 1 : frames'[i] = frames[i] /\ frames[i].object \in Objects \ {t}
  BY <1>0, InnermostFacts
<1>k. objects \subseteq Objects BY DEF HandlesInv, TypeOK
<1>i. \A i \in 1 .. n : i \in 1 .. n - 1 \/ i = n OBVIOUS
<1>1. CASE CallbackReturns
  <2>1. memc' = memc BY <1>1 DEF CallbackReturns
  <2>2. \/ d \in Ids /\ persistent_list' = [persistent_list EXCEPT ![d] = h]
           /\ live' = live \ ({persistent_list[d]} \ {NULL})
        \/ d = NoId /\ persistent_list' = persistent_list /\ live' = live
    <3>1. CASE d \in Ids BY <1>1, <1>p, <3>1 DEF CallbackReturns, php_memc_destroy
    <3>2. CASE d \notin Ids BY <1>1, <1>p, <3>2 DEF CallbackReturns
    <3> QED BY <3>1, <3>2
  <2>3. x \in live /\ x # NULL /\ x \notin lost BY <1>0, <2>2, NullIsNoHandle DEF HandlesInv
  <2>4. Registered(x) \/ Private(x) \/ Waiting(x) BY <2>3, NoLeakMeans
  <2>5. Registered(x) => Registered(x)' BY <2>2, <2>3 DEF Registered, HandlesInv, TypeOK
  <2>6. Private(x) => Private(x)' BY <1>0, <2>1 DEF Private
  <2>7. x # h => (Waiting(x) => Waiting(x)') BY <1>p, <1>i, <2>1 DEF Waiting
  <2>8. x = h => Registered(x)' \/ Private(x)'
    <3>1. d \in Ids => Registered(h)' BY <2>2, HandlesAssumption DEF Registered, HandlesInv, TypeOK
    <3>2. t \in objects BY <1>p DEF HandlesInv, TypeOK
    <3>3. d = NoId => Private(h)' BY <1>0, <1>p, <2>1, <3>2 DEF Private
    <3> QED BY <3>1, <3>3
  <2> QED BY <2>4, <2>5, <2>6, <2>7, <2>8
<1>2. CASE CallbackThrows
  <2>1. live' = live \ {h} /\ persistent_list' = persistent_list
    BY <1>2, <1>p DEF CallbackThrows, php_memc_destroy
  <2>2. \A o \in Objects \ {t} : memc'[o] = memc[o] BY <1>2, <1>p DEF CallbackThrows, HandlesInv, TypeOK
  <2>3. x \in live \ lost /\ x # h BY <1>0, <2>1
  <2>4. Registered(x) \/ Private(x) \/ Waiting(x) BY <2>3, NoLeakMeans
  <2>5. Registered(x) => Registered(x)' BY <2>1 DEF Registered
  <2>6. Private(x) => Private(x)' BY <1>0, <1>k, <1>p, <2>2, <2>3 DEF Private
  <2>7. Waiting(x) => Waiting(x)' BY <1>i, <1>p, <2>2, <2>3 DEF Waiting
  <2> QED BY <2>4, <2>5, <2>6, <2>7
<1> QED BY <1>1, <1>2

\* Objects, requests and processes end: what loses its owner is freed or lost.
LEMMA EndNoLeak ==
    ASSUME HandlesInv, NoLeak, (\E o \in Objects : Drop(o)) \/ EndRequest \/ EndProcess, NEW x \in live' \ lost'
    PROVE  Registered(x)' \/ Private(x)' \/ Waiting(x)'
<1>k. objects \subseteq Objects BY DEF HandlesInv, TypeOK
<1>w. \A i \in 1 .. Len(frames) : frames[i].object \in objects BY DEF HandlesInv, TypeOK
<1>0. x \in live \ lost BY DEF Drop, EndRequest, EndProcess, php_memc_destroy
<1>n. x # NULL BY <1>0, NullIsNoHandle DEF HandlesInv
<1>1. Registered(x) \/ Private(x) \/ Waiting(x) BY <1>0, NoLeakMeans
<1>2. ASSUME NEW o \in Objects, Drop(o)
      PROVE  Registered(x)' \/ Private(x)' \/ Waiting(x)'
  <2>1. UNCHANGED <<persistent_list, frames, made_for>> /\ objects' = objects \ {o} /\ ~UnderConstruction(o)
    BY <1>2 DEF Drop
  <2>2. \A p \in Objects \ {o} : memc'[p] = memc[p] BY <1>2 DEF Drop, HandlesInv, TypeOK
  <2>3. made_for[x] = NoId => memc[o] # x
    BY <1>2, <1>n DEF Drop, php_memc_destroy, FreedWith, is_persistent
  <2>4. Registered(x) => Registered(x)' BY <2>1 DEF Registered
  <2>5. Private(x) => Private(x)' BY <1>k, <2>1, <2>2, <2>3 DEF Private
  <2>6. Waiting(x) => Waiting(x)' BY <1>k, <1>w, <2>1, <2>2 DEF Waiting, UnderConstruction
  <2> QED BY <1>1, <2>4, <2>5, <2>6
<1>3. CASE EndRequest
  <2>1. persistent_list' = persistent_list BY <1>3 DEF EndRequest
  <2>2. made_for[x] = NoId => \A o \in objects : memc[o] # x
    BY <1>3, <1>n DEF EndRequest, php_memc_destroy, FreedWith, is_persistent
  <2>3. made_for[x] # NoId => ~Waiting(x) BY <1>3 DEF EndRequest, Waiting, is_persistent
  <2>4. ~Private(x) BY <2>2 DEF Private
  <2>5. ~Waiting(x) BY <1>w, <2>2, <2>3 DEF Waiting
  <2> QED BY <1>1, <2>1, <2>4, <2>5 DEF Registered
<1>4. CASE EndProcess
  <2>1. objects = {} /\ x \notin {persistent_list[id] : id \in Ids}
    BY <1>4, <1>n DEF EndProcess, php_memc_destroy
  <2> QED BY <1>1, <1>w, <2>1 DEF Registered, Private, Waiting
<1> QED BY <1>2, <1>3, <1>4

\* NoLeak is inductive relative to HandlesInv.
LEMMA NoLeakStep ==
    ASSUME HandlesInv, NoLeak, [Next]_vars
    PROVE  NoLeak'
<1>1. ASSUME NEW x \in live' \ lost'
      PROVE  Registered(x)' \/ Private(x)' \/ Waiting(x)'
  <2>1. ASSUME NEW o \in Objects, New(o) \/ SetSaslAuthData(o)
        PROVE  Registered(x)' \/ Private(x)' \/ Waiting(x)'
    <3>1. UNCHANGED <<live, lost, persistent_list, made_for, frames, memc>> /\ objects \subseteq objects'
      BY <2>1 DEF New, SetSaslAuthData
    <3>2. Registered(x) \/ Private(x) \/ Waiting(x) BY <3>1, NoLeakMeans
    <3> QED BY <3>1, <3>2 DEF Registered, Private, Waiting
  <2>2. ASSUME NEW o \in Objects, NEW id \in Ids \cup {NoId}, NEW on_new \in BOOLEAN, Construct(o, id, on_new)
        PROVE  Registered(x)' \/ Private(x)' \/ Waiting(x)'
    BY <2>2, ConstructNoLeak
  <2>3. CASE CallbackReturns \/ CallbackThrows BY <2>3, CallbackNoLeak
  <2>4. CASE (\E o \in Objects : Drop(o)) \/ EndRequest \/ EndProcess BY <2>4, EndNoLeak
  <2>5. CASE UNCHANGED vars
    <3>1. UNCHANGED <<live, lost, persistent_list, made_for, frames, memc, objects>> BY <2>5 DEF vars
    <3>2. Registered(x) \/ Private(x) \/ Waiting(x) BY <3>1, NoLeakMeans
    <3> QED BY <3>1, <3>2 DEF Registered, Private, Waiting
  <2> QED BY <2>1, <2>2, <2>3, <2>4, <2>5 DEF Next
<1> QED BY <1>1 DEF NoLeak, Registered, Private, Waiting, is_persistent

\* Every live handle will be freed by the list, by its object or by a waiting constructor, but
\* for those the script threw away.
THEOREM NothingLeaks == Spec => []NoLeak
<1>1. Init => NoLeak BY DEF Init, NoLeak
<1>2. HandlesInv /\ NoLeak /\ [Next]_vars => NoLeak' BY NoLeakStep
<1> QED BY <1>1, <1>2, Ownership, PTL DEF Spec
=============================================================================
