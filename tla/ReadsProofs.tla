----------------------------- MODULE ReadsProofs ----------------------------
(***************************************************************************)
(* Proofs about the read methods: for any keys, any nesting of methods and *)
(* callbacks, any failures and any values on the servers.                  *)
(***************************************************************************)
EXTENDS Reads, SequenceTheorems, FiniteSetTheorems, TLAPS

-----------------------------------------------------------------------------
(* The inductive invariant *)

\* What is true of a method in progress, wherever it is on the stack.
FrameTrue(f) ==
    /\ f.at = "callback" => f.op = "getDelayed"
    /\ f.op = "get" => \E k \in Keys : f.keys = {k} /\ f.found \subseteq {k}
    /\ f.with_cas /\ ~f.disturbed => ~f.tokenless
    \* it has not read anything yet
    /\ f.at \in {"request", "mget"} =>
          /\ f.op \in {"get", "getMulti", "getDelayed"}
          /\ ~f.count /\ f.status = "SUCCESS" /\ f.got = {} /\ ~f.tokenless
    /\ f.at \in {"results", "callback"} => f.status \in {"SUCCESS", "SOME_ERRORS"}
    /\ f.at \in {"results", "callback"} /\ ~f.count =>
          f.status = "SUCCESS" /\ f.got = {}
    \* it has read everything
    /\ f.at = "finish" /\ ~f.disturbed /\ f.op # "fetch"
          /\ f.status \in {"SUCCESS", "NOTFOUND"} => f.found = f.got
    /\ f.at = "cache" /\ ~f.disturbed => f.found = f.got

\* A method that reads without disturbance has what it asked for in the stream, or already.
ReadsItsOwn(f, results) ==
    f.at \in {"results", "callback"} /\ ~f.disturbed =>
        /\ f.with_cas => \A i \in DOMAIN results : results[i].cas
        /\ f.op # "fetch" /\ f.status = "SUCCESS" => f.found = f.got \cup KeysOf(results)

\* Only the innermost method is not in a callback, and the others know of it.
Nested ==
    \A i \in 1 .. Len(stack) - 1 : stack[i].at \in {"callback", "cache"} /\ stack[i].disturbed

\* CAS support is what the script has set, and a request has it on if it asks for tokens.
CasTrue ==
    IF at = "mget"
    THEN /\ top.orig_cas_flag = SupportCas
         /\ support_cas <=> SupportCas \/ top.with_cas
    ELSE support_cas = SupportCas

\* A method that has not been disturbed runs without an exception.
ExceptionTrue == at \in {"request", "mget", "results"} /\ exception => top.disturbed

\* A method whose own results are not in the stream.
Apart(f) == f.at \notin {"results", "callback"} \/ f.op \in {"fetch", "fetchAll"}

\* Unless a result callback runs, or a loop that is not that of fetch or fetchAll, or a
\* server has failed, the stream holds nothing but results for fetch and fetchAll.
OnlyDelayed ==
    \/ broken
    \/ \E i \in 1 .. Len(stack) - 1 : stack[i].at # "cache"
    \/ stack # << >> /\ ~Apart(top)
    \/ \A i \in DOMAIN stream : stream[i].delayed

\* Of the method that returned last, while PHP code runs and may look at its result.
LastTrue ==
    /\ at \in {"request", "mget", "results", "finish"} => last = NoFrame
    /\ last.with_cas /\ ~last.disturbed => ~last.tokenless
    /\ SuccessIsComplete

ReadsInv ==
    /\ \A i \in 1 .. Len(stack) : FrameTrue(stack[i])
    /\ stack # << >> => ReadsItsOwn(top, stream)
    /\ Nested /\ CasTrue /\ ExceptionTrue /\ OnlyDelayed /\ LastTrue

-----------------------------------------------------------------------------
(* The stream *)

\* What the servers send for some keys: one result for each record they have.
LEMMA Answered ==
    ASSUME NEW ks \in SUBSET Keys, NEW records \in [ks -> Values], NEW results \in Answers(records),
           support_cas \in BOOLEAN, Delayed(top) \in BOOLEAN
    PROVE  /\ results \in Seq(Results) /\ KeysOf(results) = ks
           /\ \A i \in DOMAIN results :
                 /\ results[i].cas <=> support_cas
                 /\ results[i].delayed <=> Delayed(top)
<1>1. PICK order \in SetToSeqs(ks) :
         results = [i \in DOMAIN order |->
                      [key |-> order[i], value |-> records[order[i]], cas |-> support_cas,
                       delayed |-> Delayed(top)]]
  BY DEF Answers
<1>2. IsFiniteSet(ks) /\ Cardinality(ks) \in Nat
  BY ConstantsAssumption, FS_Subset, FS_CardinalityType DEF ConstantsAssumption
<1>3. PICK n \in Nat : n = Cardinality(ks)
  BY <1>2
<1>4. order \in [1 .. n -> ks] /\ \A i, j \in 1 .. n : i # j => order[i] # order[j]
  BY <1>1, <1>3 DEF SetToSeqs
<1>5. \A k \in ks : \E i \in 1 .. n : order[i] = k
  <2>1. order \in Injection(1 .. n, ks)
    BY <1>4 DEF Injection, IsInjective
  <2>2. Cardinality(1 .. n) = n
    BY FS_Interval
  <2>3. order \in Surjection(1 .. n, ks)
    BY <1>2, <1>3, <2>1, <2>2, FS_Injection
  <2> QED BY <2>3 DEF Surjection
<1>6. DOMAIN results = 1 .. n
  BY <1>1, <1>4
<1>7. \A i \in 1 .. n :
         /\ results[i] \in Results /\ results[i].key = order[i]
         /\ results[i].cas = support_cas /\ results[i].delayed = Delayed(top)
  BY <1>1, <1>4 DEF Results
<1>8. results \in Seq(Results)
  BY <1>1, <1>4, <1>7
<1>9. KeysOf(results) = ks
  BY <1>4, <1>5, <1>6, <1>7 DEF KeysOf
<1> QED BY <1>6, <1>7, <1>8, <1>9

\* What is left of the stream was there before.
LEMMA KeptAreOld ==
    ASSUME stream \in Seq(Results), NEW ks, NEW results \in Kept(PositionsOf(ks))
    PROVE  /\ results \in Seq(Results)
           /\ \A i \in DOMAIN results : \E j \in DOMAIN stream : results[i] = stream[j]
<1>1. PICK order \in SetToSeqs(PositionsOf(ks)) : results = [i \in DOMAIN order |-> stream[order[i]]]
  BY DEF Kept
<1>2. PICK len \in Nat : len = Len(stream) /\ DOMAIN stream = 1 .. len
  OBVIOUS
<1>3. PICK n \in Nat : n = Cardinality(PositionsOf(ks))
  <2>1. PositionsOf(ks) \in SUBSET (1 .. len) /\ IsFiniteSet(1 .. len)
    BY <1>2, FS_Interval DEF PositionsOf
  <2>2. IsFiniteSet(PositionsOf(ks))
    BY <2>1, FS_Subset
  <2> QED BY <2>2, FS_CardinalityType
<1>4. order \in [1 .. n -> DOMAIN stream]
  BY <1>1, <1>3 DEF SetToSeqs, PositionsOf
<1>5. results = [i \in 1 .. n |-> stream[order[i]]]
  BY <1>1, <1>4
<1>6. \A i \in 1 .. n : stream[order[i]] \in Results
  BY <1>4
<1> QED BY <1>4, <1>5, <1>6

\* The keys of a stream are that of its first result and those of the others, and what is
\* true of all its results is true of the others.
LEMMA FirstResult ==
    ASSUME stream \in Seq(Results), stream # << >>
    PROVE  /\ stream[1] \in Results /\ 1 \in DOMAIN stream
           /\ Tail(stream) \in Seq(Results)
           /\ KeysOf(stream) = {stream[1].key} \cup KeysOf(Tail(stream))
           /\ \A i \in DOMAIN Tail(stream) : \E j \in DOMAIN stream : Tail(stream)[i] = stream[j]
<1>1. PICK n \in Nat \ {0} : n = Len(stream) /\ DOMAIN stream = 1 .. n
  OBVIOUS
<1>2. PICK rest : rest = Tail(stream)
  OBVIOUS
<1>3. rest \in Seq(Results) /\ Len(rest) = n - 1
  BY <1>1, <1>2
<1>4. DOMAIN rest = 1 .. n - 1 /\ \A i \in 1 .. n - 1 : rest[i] = stream[i + 1]
  BY <1>1, <1>2, <1>3
<1>5. KeysOf(stream) = {stream[1].key} \cup KeysOf(rest)
  <2>1. ASSUME NEW k \in KeysOf(stream) PROVE k = stream[1].key \/ k \in KeysOf(rest)
    <3>1. PICK i \in 1 .. n : k = stream[i].key
      BY <1>1 DEF KeysOf
    <3>2. CASE i = 1
      BY <3>1, <3>2
    <3>3. CASE i # 1
      <4>1. i - 1 \in 1 .. n - 1
        BY <3>3
      <4>2. rest[i - 1] = stream[(i - 1) + 1] /\ (i - 1) + 1 = i
        BY <1>4, <4>1
      <4> QED BY <1>4, <3>1, <4>1, <4>2 DEF KeysOf
    <3> QED BY <3>2, <3>3
  <2>2. ASSUME NEW k \in KeysOf(rest) PROVE k \in KeysOf(stream)
    <3>1. PICK i \in 1 .. n - 1 : k = rest[i].key
      BY <1>4 DEF KeysOf
    <3>2. i + 1 \in 1 .. n /\ k = stream[i + 1].key
      BY <1>4, <3>1
    <3> QED BY <1>1, <3>2 DEF KeysOf
  <2>3. stream[1].key \in KeysOf(stream)
    BY <1>1 DEF KeysOf
  <2> QED BY <2>1, <2>2, <2>3
<1>6. \A i \in 1 .. n - 1 : i + 1 \in 1 .. n /\ rest[i] = stream[i + 1]
  BY <1>4
<1> QED BY <1>1, <1>2, <1>3, <1>4, <1>5, <1>6

-----------------------------------------------------------------------------
(* The stack *)

\* The method in progress, when there is one.
LEMMA OnTop ==
    ASSUME TypeOK, ReadsInv, at # "script"
    PROVE  /\ stack # << >> /\ Len(stack) \in Nat \ {0}
           /\ top \in Frames /\ top = stack[Len(stack)] /\ top.at = at
           /\ FrameTrue(top) /\ ReadsItsOwn(top, stream)
<1>1. stack # << >>
  BY DEF at
<1>2. PICK n \in Nat \ {0} : n = Len(stack)
  BY <1>1 DEF TypeOK
<1> QED BY <1>1, <1>2 DEF TypeOK, ReadsInv, top, at

\* No method in progress is at "script".
LEMMA NotInScript ==
    ASSUME NEW f \in Frames
    PROVE  f.at \in {"request", "mget", "results", "callback", "finish", "cache"}
BY DEF Frames

\* No method, a frame nothing is known of.
LEMMA NoFrameFacts ==
    /\ NoFrame \in Frames /\ NoFrame.op = "quit" /\ ~NoFrame.with_cas
BY DEF NoFrame, Frame, Frames, Methods, Statuses

\* A method in progress takes a step of its own.
LEMMA TopSteps ==
    ASSUME TypeOK, ReadsInv, stack # << >>, NEW f \in Frames, SetTop(f),
           FrameTrue(f), ReadsItsOwn(f, stream'),
           stream' \in Seq(Results), support_cas' \in BOOLEAN, exception' \in BOOLEAN,
           rescode' \in Statuses, broken' \in BOOLEAN,
           last' = NoFrame, ret' \in Returns,
           IF f.at = "mget"
           THEN f.orig_cas_flag = SupportCas /\ (support_cas' <=> SupportCas \/ f.with_cas)
           ELSE support_cas' = SupportCas,
           f.at \in {"request", "mget", "results"} /\ exception' => f.disturbed,
           \/ broken' \/ ~Apart(f)
           \/ \E i \in 1 .. Len(stack) - 1 : stack[i].at # "cache"
           \/ \A i \in DOMAIN stream' : stream'[i].delayed
    PROVE  TypeOK' /\ ReadsInv'
<1>1. PICK n \in Nat \ {0} : n = Len(stack)
  BY DEF TypeOK
<1>2. /\ stack' \in Seq(Frames) /\ Len(stack') = n /\ stack' # << >>
      /\ stack'[n] = f /\ \A i \in 1 .. n - 1 : stack'[i] = stack[i]
  BY <1>1 DEF TypeOK, SetTop
<1>3. top' = f /\ at' = f.at
  BY <1>2 DEF top, at
<1>4. TypeOK'
  BY <1>2, NoFrameFacts DEF TypeOK
<1>5. \A i \in 1 .. n : FrameTrue(stack'[i])
  BY <1>1, <1>2 DEF ReadsInv
<1>6. Nested'
  BY <1>1, <1>2 DEF ReadsInv, Nested
<1>7. CasTrue' /\ ExceptionTrue'
  BY <1>3 DEF CasTrue, ExceptionTrue
<1>8. OnlyDelayed'
  BY <1>1, <1>2, <1>3 DEF OnlyDelayed
<1>9. LastTrue'
  BY NoFrameFacts DEF LastTrue, SuccessIsComplete
<1> QED BY <1>2, <1>3, <1>4, <1>5, <1>6, <1>7, <1>8, <1>9 DEF ReadsInv

\* A method returns: to the script, or to the callback it was called in.
LEMMA TopReturns ==
    ASSUME TypeOK, ReadsInv, stack # << >>, NEW f \in Frames, NEW rc \in Statuses,
           NEW r \in Returns, ReturnWith(f, rc, r),
           stream' \in Seq(Results), exception' \in BOOLEAN, broken' \in BOOLEAN,
           support_cas' = SupportCas,
           f.with_cas /\ ~f.disturbed => ~f.tokenless,
           \/ rc # "SUCCESS" \/ f.disturbed
           \/ f.op \in {"fetch", "quit"} \/ Delayed(f) \/ f.found = f.got,
           \/ broken'
           \/ \E i \in 1 .. Len(stack) - 1 : stack[i].at # "cache"
           \/ \A i \in DOMAIN stream' : stream'[i].delayed
    PROVE  TypeOK' /\ ReadsInv'
<1>1. PICK n \in Nat : n = Len(stack) - 1
  BY DEF TypeOK
<1>2. /\ stack' \in Seq(Frames) /\ Len(stack') = n
      /\ \A i \in 1 .. n : stack'[i] = stack[i]
  BY <1>1 DEF TypeOK, ReturnWith, Front
<1>3. /\ rescode' = rc /\ last' = f /\ ret' = r
  BY DEF ReturnWith
<1>4. TypeOK'
  BY <1>2, <1>3, ConstantsAssumption DEF TypeOK, ConstantsAssumption
<1>5. \A i \in 1 .. n : /\ FrameTrue(stack[i]) /\ stack[i].disturbed
                        /\ stack[i].at \in {"callback", "cache"}
  <2>1. Len(stack) \in Nat
    BY DEF TypeOK
  <2>2. 1 .. n \subseteq 1 .. Len(stack)
    BY <1>1, <2>1
  <2> QED BY <1>1, <2>2 DEF ReadsInv, Nested
<1>6. \/ stack' = << >> /\ n = 0 /\ at' = "script"
      \/ stack' # << >> /\ n \in 1 .. n /\ top' = stack[n] /\ at' = stack[n].at
  BY <1>2 DEF top, at
<1>7. \A i \in 1 .. n : FrameTrue(stack'[i])
  BY <1>2, <1>5
<1>8. stack' # << >> => ReadsItsOwn(top', stream')
  BY <1>5, <1>6 DEF ReadsItsOwn
<1>9. Nested'
  BY <1>2, <1>5 DEF Nested
<1>10. CasTrue' /\ ExceptionTrue'
  BY <1>5, <1>6 DEF CasTrue, ExceptionTrue
<1>11. OnlyDelayed'
  <2>1. ASSUME NEW i \in 1 .. n, stack[i].at # "cache"
        PROVE  \/ \E j \in 1 .. n - 1 : stack'[j].at # "cache"
               \/ stack' # << >> /\ ~Apart(top')
    <3>1. CASE i = n
      <4>1. stack[n].at = "callback" /\ stack[n].op = "getDelayed"
        BY <1>5, <2>1, <3>1 DEF FrameTrue
      <4>2. stack' # << >> /\ top' = stack[n]
        BY <1>6, <3>1
      <4> QED BY <4>1, <4>2 DEF Apart
    <3>2. CASE i # n
      BY <1>2, <2>1, <3>2
    <3> QED BY <3>1, <3>2
  <2> QED BY <1>1, <1>2, <2>1 DEF OnlyDelayed
<1>12. LastTrue'
  <2>1. at' \notin {"request", "mget", "results", "finish"}
    BY <1>5, <1>6
  <2> QED BY <1>3, <2>1 DEF LastTrue, SuccessIsComplete, Delayed
<1> QED BY <1>2, <1>4, <1>7, <1>8, <1>9, <1>10, <1>11, <1>12 DEF ReadsInv

\* The methods below learn that a callback uses the object, and nothing else.
LEMMA DisturbedFrames ==
    ASSUME TypeOK, ReadsInv, InPhp
    PROVE  /\ Disturbed(stack) \in Seq(Frames) /\ Len(Disturbed(stack)) = Len(stack)
           /\ \A i \in 1 .. Len(stack) :
                 /\ Disturbed(stack)[i].at = stack[i].at
                 /\ stack[i].at \in {"callback", "cache"}
                 /\ Disturbed(stack)[i].op = stack[i].op
                 /\ Disturbed(stack)[i].disturbed
                 /\ FrameTrue(Disturbed(stack)[i])
<1>1. PICK n \in Nat : n = Len(stack) /\ DOMAIN stack = 1 .. n
  BY DEF TypeOK
<1>2. \A f \in Frames :
         /\ [f EXCEPT !.disturbed = TRUE] \in Frames
         /\ FrameTrue(f) => FrameTrue([f EXCEPT !.disturbed = TRUE])
         /\ [f EXCEPT !.disturbed = TRUE].at = f.at
         /\ [f EXCEPT !.disturbed = TRUE].op = f.op
         /\ [f EXCEPT !.disturbed = TRUE].disturbed
  <2> SUFFICES ASSUME NEW f \in Frames, NEW g, g = [f EXCEPT !.disturbed = TRUE]
               PROVE  /\ g \in Frames /\ g.at = f.at /\ g.op = f.op /\ g.disturbed
                      /\ FrameTrue(f) => FrameTrue(g)
    OBVIOUS
  <2>1. g \in Frames
    BY DEF Frames
  <2>2. /\ g.at = f.at /\ g.op = f.op /\ g.keys = f.keys /\ g.found = f.found
        /\ g.with_cas = f.with_cas /\ g.tokenless = f.tokenless /\ g.count = f.count
        /\ g.status = f.status /\ g.got = f.got /\ g.disturbed
    BY DEF Frames
  <2> QED BY <2>1, <2>2 DEF FrameTrue
<1>3. \A i \in 1 .. n : stack[i] \in Frames /\ FrameTrue(stack[i])
  BY <1>1 DEF TypeOK, ReadsInv
<1>4. \A i \in 1 .. n : Disturbed(stack)[i] = [stack[i] EXCEPT !.disturbed = TRUE]
  BY <1>1 DEF Disturbed
<1>5. DOMAIN Disturbed(stack) = 1 .. n /\ \A i \in 1 .. n : Disturbed(stack)[i] \in Frames
  BY <1>1, <1>2, <1>3, <1>4 DEF Disturbed
<1>6. Disturbed(stack) \in Seq(Frames) /\ Len(Disturbed(stack)) = n
  BY <1>1, <1>5 DEF Disturbed
<1>7. \A i \in 1 .. n : stack[i].at \in {"callback", "cache"}
  <2>1. \A i \in 1 .. n - 1 : stack[i].at \in {"callback", "cache"}
    BY <1>1 DEF ReadsInv, Nested
  <2>2. n # 0 => stack[n].at \in {"script", "callback", "cache"}
    BY <1>1 DEF TypeOK, InPhp, at, top
  <2>3. n # 0 => stack[n].at # "script"
    BY <1>3, NotInScript
  <2> QED BY <2>1, <2>2, <2>3
<1>8. ASSUME NEW i \in 1 .. n
      PROVE  /\ Disturbed(stack)[i].at = stack[i].at
             /\ Disturbed(stack)[i].op = stack[i].op
             /\ Disturbed(stack)[i].disturbed
             /\ FrameTrue(Disturbed(stack)[i])
  <2>1. PICK f \in Frames : f = stack[i] /\ FrameTrue(f)
    BY <1>3
  <2>2. Disturbed(stack)[i] = [f EXCEPT !.disturbed = TRUE]
    BY <1>4, <2>1
  <2> QED BY <1>2, <2>1, <2>2
<1> QED BY <1>1, <1>6, <1>7, <1>8

\* A method is called and returns at once.
LEMMA ReturnsAtOnce ==
    ASSUME TypeOK, ReadsInv, InPhp, stack' = Disturbed(stack),
           UNCHANGED <<support_cas, exception>>, rescode' \in Statuses,
           \/ UNCHANGED <<stream, broken>>
           \/ stream' = << >> /\ broken' = FALSE,
           last' \in Frames, ~last'.tokenless, ret' \in Returns,
           rescode' # "SUCCESS" \/ last'.op = "quit"
    PROVE  TypeOK' /\ ReadsInv'
<1>1. PICK n \in Nat : n = Len(stack)
  BY DEF TypeOK
<1>2. /\ stack' \in Seq(Frames) /\ Len(stack') = n
      /\ \A i \in 1 .. n : /\ stack'[i].at = stack[i].at /\ stack'[i].disturbed
                           /\ stack[i].at \in {"callback", "cache"}
                           /\ stack'[i].op = stack[i].op
                           /\ FrameTrue(stack'[i])
  BY <1>1, DisturbedFrames
<1>3. \/ n = 0 /\ stack' = << >> /\ at' = "script" /\ stack = << >> /\ at = "script"
      \/ /\ n \in 1 .. n /\ stack' # << >> /\ stack # << >>
         /\ top' = stack'[n] /\ at' = stack[n].at /\ top = stack[n] /\ at = stack[n].at
  BY <1>1, <1>2 DEF top, at, TypeOK
<1>4. TypeOK'
  <2>1. stream' \in Seq(Results) /\ broken' \in BOOLEAN
    <3>1. CASE UNCHANGED <<stream, broken>>
      BY <3>1 DEF TypeOK
    <3>2. CASE stream' = << >> /\ broken' = FALSE
      <4>1. stream' \in Seq(Results)
        BY <3>2
      <4>2. broken' \in BOOLEAN
        BY <3>2, Zenon
      <4> QED BY <4>1, <4>2
    <3> QED BY <3>1, <3>2
  <2>2. support_cas' \in BOOLEAN /\ exception' \in BOOLEAN
    BY DEF TypeOK
  <2> QED BY <1>2, <2>1, <2>2 DEF TypeOK
<1>5. stack' # << >> => ReadsItsOwn(top', stream')
  BY <1>2, <1>3 DEF ReadsItsOwn
<1>6. Nested' /\ CasTrue' /\ ExceptionTrue'
  <2>1. Nested'
    BY <1>2 DEF Nested
  <2>2. at' # "mget" /\ at # "mget" /\ at' \notin {"request", "mget", "results"}
    BY <1>2, <1>3
  <2> QED BY <2>1, <2>2 DEF CasTrue, ExceptionTrue, ReadsInv
<1>7. OnlyDelayed'
  <2>1. CASE stream' = << >>
    BY <2>1 DEF OnlyDelayed
  <2>2. CASE UNCHANGED <<stream, broken>>
    <3>1. stack # << >> /\ ~Apart(top) => stack' # << >> /\ ~Apart(top')
      BY <1>2, <1>3 DEF Apart
    <3>2. (\E i \in 1 .. n - 1 : stack[i].at # "cache") => \E i \in 1 .. n - 1 : stack'[i].at # "cache"
      BY <1>2
    <3> QED BY <1>1, <1>2, <2>2, <3>1, <3>2 DEF OnlyDelayed, ReadsInv
  <2> QED BY <2>1, <2>2
<1>8. LastTrue'
  <2>1. at' \notin {"request", "mget", "results", "finish"}
    BY <1>2, <1>3
  <2> QED BY <2>1 DEF LastTrue, SuccessIsComplete
<1> QED BY <1>2, <1>4, <1>5, <1>6, <1>7, <1>8 DEF ReadsInv

\* A method is called and begins.
LEMMA Enters ==
    ASSUME TypeOK, ReadsInv, NEW f \in Frames, Enter(f), FrameTrue(f), ReadsItsOwn(f, stream),
           \/ f.at = "request"
           \/ f.at = "results" /\ f.op \in {"fetch", "fetchAll"}
    PROVE  TypeOK' /\ ReadsInv'
<1>1. PICK n \in Nat : n = Len(stack)
  BY DEF TypeOK
<1>2. PICK below \in Seq(Frames) :
         /\ below = Disturbed(stack) /\ Len(below) = n
         /\ \A i \in 1 .. n : /\ below[i].at = stack[i].at /\ below[i].disturbed
                              /\ below[i].at \in {"callback", "cache"}
                              /\ FrameTrue(below[i])
  BY <1>1, DisturbedFrames DEF Enter
<1>3. /\ stack' = Append(below, f) /\ rescode' = "SUCCESS" /\ last' = NoFrame /\ ret' = "NOTHING"
      /\ UNCHANGED <<stream, support_cas, exception, broken>> /\ ~exception
  BY <1>2 DEF Enter, Forget, InPhp
<1>4. /\ stack' \in Seq(Frames) /\ Len(stack') = n + 1 /\ stack' # << >>
      /\ stack'[n + 1] = f /\ \A i \in 1 .. n : stack'[i] = below[i]
  BY <1>2, <1>3
<1>5. top' = f /\ at' = f.at
  BY <1>4 DEF top, at
<1>6. TypeOK'
  BY <1>3, <1>4, NoFrameFacts DEF TypeOK, Statuses, Returns
<1>7. \A i \in 1 .. n + 1 : FrameTrue(stack'[i])
  BY <1>2, <1>4
<1>8. Nested'
  BY <1>2, <1>4 DEF Nested
<1>9. CasTrue' /\ ExceptionTrue'
  <2>1. at # "mget"
    BY DEF Enter, InPhp
  <2> QED BY <1>3, <1>5, <2>1 DEF CasTrue, ExceptionTrue, ReadsInv
<1>10. OnlyDelayed'
  <2>1. stack # << >> /\ ~Apart(top) => n \in 1 .. n /\ stack[n].at # "cache"
    BY <1>1 DEF Apart, top, TypeOK
  <2>2. (\E i \in 1 .. n : stack[i].at # "cache") => \E i \in 1 .. n : stack'[i].at # "cache"
    BY <1>2, <1>4
  <2>3. \/ broken \/ (\E i \in 1 .. n : stack[i].at # "cache")
        \/ \A i \in DOMAIN stream : stream[i].delayed
    BY <1>1, <2>1 DEF ReadsInv, OnlyDelayed
  <2> QED BY <1>3, <1>4, <2>2, <2>3 DEF OnlyDelayed
<1>11. LastTrue'
  BY <1>3, NoFrameFacts DEF LastTrue, SuccessIsComplete
<1> QED BY <1>3, <1>4, <1>5, <1>6, <1>7, <1>8, <1>9, <1>10, <1>11 DEF ReadsInv

-----------------------------------------------------------------------------
(* Calls *)

\* Every call of a method keeps the invariant.
LEMMA CallKeeps ==
    ASSUME TypeOK, ReadsInv, Call
    PROVE  TypeOK' /\ ReadsInv'
<1>1. ASSUME NEW op \in {"get", "getMulti", "getDelayed"}, NEW ks \in SUBSET Keys,
             NEW with_cas \in BOOLEAN, NEW callback \in BOOLEAN,
             op = "get" => \E k \in Keys : ks = {k},
             NEW f, f = Frame(op, ks, with_cas, callback, "request"),
             Enter(f) \/ Refuse(f, "BAD_KEY_PROVIDED", "FALSE") \/ Refuse(f, "NOTFOUND", "ARRAY")
      PROVE  TypeOK' /\ ReadsInv'
  <2>1. /\ f \in Frames /\ FrameTrue(f) /\ f.at = "request" /\ ~f.tokenless
    <3>1. f \in Frames
      BY <1>1 DEF Frame, Frames, Methods, Statuses
    <3>2. /\ f.at = "request" /\ f.op = op /\ f.keys = ks /\ f.found = {}
          /\ ~f.tokenless /\ f.got = {} /\ f.status = "SUCCESS" /\ ~f.count
      BY <1>1 DEF Frame
    <3> QED BY <1>1, <3>1, <3>2 DEF FrameTrue
  <2>2. CASE Enter(f)
    <3>1. ReadsItsOwn(f, stream)
      BY <2>1 DEF ReadsItsOwn
    <3> QED BY <2>1, <2>2, <3>1, Enters
  <2>3. CASE Refuse(f, "BAD_KEY_PROVIDED", "FALSE")
    BY <2>1, <2>3, ReturnsAtOnce DEF Refuse, Statuses, Returns
  <2>4. CASE Refuse(f, "NOTFOUND", "ARRAY")
    BY <2>1, <2>4, ReturnsAtOnce DEF Refuse, Statuses, Returns
  <2> QED BY <1>1, <2>2, <2>3, <2>4
<1>2. ASSUME NEW k \in Keys, NEW with_cas \in BOOLEAN, NEW callback \in BOOLEAN,
             CallGet(k, with_cas, callback)
      PROVE  TypeOK' /\ ReadsInv'
  BY <1>1, <1>2 DEF CallGet
<1>3. ASSUME NEW ks \in SUBSET Keys, NEW with_cas \in BOOLEAN, CallGetMulti(ks, with_cas)
      PROVE  TypeOK' /\ ReadsInv'
  BY <1>1, <1>3 DEF CallGetMulti
<1>4. ASSUME NEW ks \in SUBSET Keys, NEW with_cas \in BOOLEAN, NEW callback \in BOOLEAN,
             CallGetDelayed(ks, with_cas, callback)
      PROVE  TypeOK' /\ ReadsInv'
  BY <1>1, <1>4 DEF CallGetDelayed
<1>5. ASSUME NEW op \in {"fetch", "fetchAll"},
             Enter([Frame(op, {}, FALSE, FALSE, "results") EXCEPT !.found = KeysOf(stream)])
      PROVE  TypeOK' /\ ReadsInv'
  <2>1. PICK g : g = Frame(op, {}, FALSE, FALSE, "results")
    OBVIOUS
  <2>2. /\ g \in Frames /\ g.at = "results" /\ g.op = op
        /\ ~g.tokenless /\ g.got = {} /\ g.status = "SUCCESS" /\ ~g.count /\ ~g.with_cas
    BY <2>1 DEF Frame, Frames, Methods, Statuses
  <2>3. PICK f : f = [g EXCEPT !.found = KeysOf(stream)]
    OBVIOUS
  <2>4. KeysOf(stream) \in SUBSET Keys
    <3>1. \A i \in DOMAIN stream : stream[i] \in Results
      BY DEF TypeOK
    <3> QED BY <3>1 DEF KeysOf, Results
  <2>5. f \in Frames
    BY <2>2, <2>3, <2>4 DEF Frames
  <2>6. /\ f.at = "results" /\ f.op = op /\ f.found = KeysOf(stream) /\ ~f.with_cas
        /\ ~f.tokenless /\ f.got = {} /\ f.status = "SUCCESS" /\ ~f.count
    BY <2>2, <2>3 DEF Frames
  <2>7. FrameTrue(f) /\ ReadsItsOwn(f, stream)
    BY <2>6 DEF FrameTrue, ReadsItsOwn
  <2> QED BY <1>5, <2>1, <2>3, <2>5, <2>6, <2>7, Enters
<1>6. CASE CallQuit
  <2>1. ~NoFrame.tokenless
    BY DEF NoFrame, Frame
  <2> QED BY <1>6, <2>1, NoFrameFacts, ReturnsAtOnce DEF CallQuit, TypeOK, Returns
<1> QED BY <1>2, <1>3, <1>4, <1>5, <1>6 DEF Call, CallFetch, CallFetchAll

-----------------------------------------------------------------------------
(* Requests *)

\* A method whose own results are not in the stream finds only delayed ones there.
LEMMA FindsDelayed ==
    ASSUME ReadsInv, Apart(top)
    PROVE  \/ broken
           \/ \E i \in 1 .. Len(stack) - 1 : stack[i].at # "cache"
           \/ \A i \in DOMAIN stream : stream[i].delayed
BY DEF ReadsInv, OnlyDelayed

\* While a method is at work nothing is told of the one before it, and CAS support is as
\* the script has set it unless a request is being made.
LEMMA AtWork ==
    ASSUME ReadsInv
    PROVE  /\ at \in {"request", "mget", "results", "finish"} => last = NoFrame
           /\ at # "mget" => support_cas = SupportCas
           /\ at = "mget" => top.orig_cas_flag = SupportCas
           /\ at = "mget" => (support_cas <=> SupportCas \/ top.with_cas)
           /\ at \in {"request", "mget", "results"} /\ exception => top.disturbed
BY DEF ReadsInv, LastTrue, CasTrue, ExceptionTrue

\* CAS support is switched on for a request.
LEMMA SwitchCasKeeps ==
    ASSUME TypeOK, ReadsInv, SwitchCas
    PROVE  TypeOK' /\ ReadsInv'
<1>1. /\ at = "request" /\ stack # << >> /\ top \in Frames /\ FrameTrue(top) /\ top.at = "request"
      /\ support_cas = SupportCas /\ last = NoFrame
      /\ exception => top.disturbed
  BY OnTop, AtWork DEF SwitchCas
<1>2. PICK f : f = [top EXCEPT !.at = "mget", !.orig_cas_flag = support_cas]
  OBVIOUS
<1>3. f \in Frames
  BY <1>1, <1>2 DEF Frames, TypeOK
<1>4. /\ f.at = "mget" /\ f.orig_cas_flag = support_cas /\ f.op = top.op /\ f.keys = top.keys
      /\ f.with_cas = top.with_cas /\ f.status = top.status /\ f.count = top.count
      /\ f.found = top.found /\ f.got = top.got /\ f.tokenless = top.tokenless
      /\ f.disturbed = top.disturbed
  BY <1>1, <1>2 DEF Frames
<1>5. FrameTrue(f) /\ ReadsItsOwn(f, stream) /\ Apart(f) /\ Apart(top)
  BY <1>1, <1>4 DEF FrameTrue, ReadsItsOwn, Apart
<1>6. support_cas' \in BOOLEAN /\ (support_cas' <=> SupportCas \/ f.with_cas)
  <2>1. support_cas' = (support_cas \/ top.with_cas)
    BY DEF SwitchCas
  <2>2. support_cas' \in BOOLEAN
    BY <2>1, Zenon
  <2>3. support_cas' <=> support_cas \/ top.with_cas
    BY <2>1
  <2> QED BY <1>1, <1>4, <2>2, <2>3
<1>7. SetTop(f) /\ UNCHANGED <<stream, rescode, exception, last, ret, broken>>
  BY <1>2 DEF SwitchCas
<1>8. f.orig_cas_flag = SupportCas
  BY <1>1, <1>4
<1> QED BY <1>1, <1>3, <1>4, <1>5, <1>6, <1>7, <1>8, TopSteps, FindsDelayed DEF TypeOK

\* It is switched back.
LEMMA CasRestored ==
    ASSUME TypeOK, ReadsInv, at = "mget", NEW status, RestoreCas(status)
    PROVE  support_cas' = SupportCas
<1>1. top.orig_cas_flag = SupportCas /\ (support_cas <=> SupportCas \/ top.with_cas)
  BY AtWork, Zenon
<1>2. CASE top.with_cas
  BY <1>1, <1>2 DEF RestoreCas
<1>3. CASE ~top.with_cas
  <2>1. support_cas' = support_cas
    BY <1>3 DEF RestoreCas
  <2>2. support_cas <=> SupportCas
    BY <1>1, <1>3
  <2>3. support_cas = SupportCas
    BY <2>2, ConstantsAssumption, Zenon DEF ConstantsAssumption, TypeOK
  <2> QED BY <2>1, <2>3
<1> QED BY <1>2, <1>3

\* The servers have taken a request.
LEMMA MGetDoneKeeps ==
    ASSUME TypeOK, ReadsInv, MGetDone
    PROVE  TypeOK' /\ ReadsInv'
<1>1. /\ at = "mget" /\ stack # << >> /\ top \in Frames /\ FrameTrue(top) /\ top.at = "mget"
      /\ last = NoFrame
      /\ exception => top.disturbed
      /\ support_cas <=> SupportCas \/ top.with_cas
  <2>1. at = "mget"
    BY DEF MGetDone
  <2>2. support_cas <=> SupportCas \/ top.with_cas
    BY <2>1, AtWork, Zenon
  <2> QED BY <2>1, <2>2, OnTop, AtWork
<1>2. support_cas' = SupportCas /\ broken' = FALSE /\ exception' = exception
  BY <1>1, CasRestored DEF MGetDone
<1>3. PICK ks \in SUBSET top.keys : \E records \in [ks -> Values] :
         /\ stream' \in Answers(records)
         /\ LET f == [top EXCEPT !.found = ks] IN
            IF Delayed(top)
            THEN ReturnWith(f, "SUCCESS", "TRUE")
            ELSE SetTop([f EXCEPT !.at = "results"]) /\ rescode' = "SUCCESS" /\ UNCHANGED <<last, ret>>
  BY DEF MGetDone
<1>4. ks \in SUBSET Keys /\ Delayed(top) \in BOOLEAN /\ support_cas \in BOOLEAN
  <2>1. ks \in SUBSET Keys
    BY <1>1 DEF Frames
  <2>2. Delayed(top) \in BOOLEAN
    BY Zenon DEF Delayed
  <2> QED BY <2>1, <2>2 DEF TypeOK
<1>5. /\ stream' \in Seq(Results) /\ KeysOf(stream') = ks
      /\ \A i \in DOMAIN stream' : /\ stream'[i].cas <=> support_cas
                                   /\ stream'[i].delayed <=> Delayed(top)
  BY <1>3, <1>4, Answered
<1>6. PICK f : f = [top EXCEPT !.found = ks]
  OBVIOUS
<1>7. f \in Frames
  BY <1>1, <1>4, <1>6 DEF Frames
<1>8. /\ f.at = "mget" /\ f.op = top.op /\ f.keys = top.keys /\ f.callback = top.callback
      /\ f.with_cas = top.with_cas /\ f.status = top.status /\ f.count = top.count
      /\ f.found = ks /\ f.got = top.got /\ f.tokenless = top.tokenless
      /\ f.disturbed = top.disturbed
  BY <1>1, <1>6 DEF Frames
<1>9. broken' \in BOOLEAN /\ support_cas' \in BOOLEAN /\ exception' \in BOOLEAN
  BY <1>2, ConstantsAssumption, Zenon DEF ConstantsAssumption, TypeOK
<1>10. CASE Delayed(top)
  <2>1. ReturnWith(f, "SUCCESS", "TRUE")
    BY <1>3, <1>6, <1>10
  <2>2. Delayed(f) /\ ~f.tokenless
    BY <1>1, <1>8, <1>10 DEF Delayed, FrameTrue
  <2>3. "SUCCESS" \in Statuses /\ "TRUE" \in Returns
    BY DEF Statuses, Returns
  <2> QED BY <1>1, <1>2, <1>5, <1>7, <1>9, <1>10, <2>1, <2>2, <2>3, TopReturns
<1>11. CASE ~Delayed(top)
  <2>1. PICK g : g = [f EXCEPT !.at = "results"]
    OBVIOUS
  <2>2. SetTop(g) /\ rescode' = "SUCCESS" /\ UNCHANGED <<last, ret>>
    BY <1>3, <1>6, <1>11, <2>1
  <2>3. g \in Frames
    BY <1>7, <2>1 DEF Frames
  <2>4. /\ g.at = "results" /\ g.op = top.op /\ g.keys = top.keys
        /\ g.with_cas = top.with_cas /\ g.status = "SUCCESS" /\ ~g.count
        /\ g.found = ks /\ g.got = {} /\ ~g.tokenless /\ g.disturbed = top.disturbed
    BY <1>1, <1>7, <1>8, <2>1 DEF Frames, FrameTrue
  <2>5. FrameTrue(g) /\ ~Apart(g)
    BY <1>1, <2>4 DEF FrameTrue, Apart
  <2>6. ReadsItsOwn(g, stream')
    BY <1>1, <1>5, <2>4 DEF ReadsItsOwn
  <2>7. rescode' \in Statuses /\ last' = NoFrame /\ ret' \in Returns
    BY <1>1, <2>2 DEF Statuses, TypeOK
  <2>8. g.at # "mget" /\ (exception' => g.disturbed)
    BY <1>1, <1>2, <2>4
  <2> QED BY <1>1, <1>2, <1>5, <1>9, <2>2, <2>3, <2>5, <2>6, <2>7, <2>8, TopSteps
<1> QED BY <1>10, <1>11

\* A request has failed, and the method returns.
LEMMA MGetFails ==
    ASSUME TypeOK, ReadsInv, at = "mget", NEW status \in {"FAILURE", "SOME_ERRORS"},
           RestoreCas(status), MGetFailed(status), exception' = exception,
           stream' \in Seq(Results), broken' \in BOOLEAN,
           \/ broken' \/ UNCHANGED <<stream, broken>>
           \/ \A i \in DOMAIN stream' : stream'[i].delayed
    PROVE  TypeOK' /\ ReadsInv'
<1>1. /\ stack # << >> /\ top \in Frames /\ FrameTrue(top) /\ top.at = "mget"
  BY OnTop
<1>2. support_cas' = SupportCas
  BY CasRestored
<1>3. PICK r \in Returns : ReturnWith(top, status, r)
  BY DEF MGetFailed, Returns
<1>4. status \in Statuses /\ status # "SUCCESS" /\ exception' \in BOOLEAN
  BY DEF Statuses, TypeOK
<1>5. \/ broken'
      \/ \E i \in 1 .. Len(stack) - 1 : stack[i].at # "cache"
      \/ \A i \in DOMAIN stream' : stream'[i].delayed
  BY <1>1, FindsDelayed DEF Apart
<1>6. ~top.tokenless
  BY <1>1 DEF FrameTrue
<1> QED BY <1>1, <1>2, <1>3, <1>4, <1>5, <1>6, TopReturns

\* A request that no server, or not every server, has taken.
LEMMA MGetErrorKeeps ==
    ASSUME TypeOK, ReadsInv, MGetRefused \/ MGetSomeErrors
    PROVE  TypeOK' /\ ReadsInv'
<1>1. CASE MGetRefused
  <2>1. stream' \in Seq(Results)
    <3>1. stream' = stream \/ stream' = << >>
      BY <1>1 DEF MGetRefused
    <3>2. << >> \in Seq(Results)
      OBVIOUS
    <3> QED BY <3>1, <3>2 DEF TypeOK
  <2>2. broken' \in BOOLEAN
    BY <1>1, Zenon DEF MGetRefused, TypeOK
  <2>3. UNCHANGED <<stream, broken>> \/ \A i \in DOMAIN stream' : stream'[i].delayed
    BY <1>1 DEF MGetRefused
  <2>4. /\ at = "mget" /\ RestoreCas("FAILURE") /\ MGetFailed("FAILURE") /\ exception' = exception
    BY <1>1 DEF MGetRefused
  <2> QED BY <2>1, <2>2, <2>3, <2>4, MGetFails
<1>2. CASE MGetSomeErrors
  <2>1. /\ at = "mget" /\ RestoreCas("SOME_ERRORS") /\ MGetFailed("SOME_ERRORS")
        /\ exception' = exception /\ broken' = TRUE
    BY <1>2 DEF MGetSomeErrors
  <2>2. PICK ks \in SUBSET top.keys : \E records \in [ks -> Values] : stream' \in Answers(records)
    BY <1>2 DEF MGetSomeErrors
  <2>3. ks \in SUBSET Keys
    BY <2>1, OnTop DEF Frames
  <2>4. Delayed(top) \in BOOLEAN
    BY Zenon DEF Delayed
  <2>5. stream' \in Seq(Results)
    BY <2>2, <2>3, <2>4, Answered DEF TypeOK
  <2>6. broken' \in BOOLEAN
    BY <2>1, Zenon
  <2> QED BY <2>1, <2>5, <2>6, MGetFails
<1> QED BY <1>1, <1>2

-----------------------------------------------------------------------------
(* The loop over the results *)

\* The method that reads.
LEMMA InTheLoop ==
    ASSUME TypeOK, ReadsInv, InLoop
    PROVE  /\ stack # << >> /\ top \in Frames /\ FrameTrue(top) /\ top.at = "results"
           /\ ReadsItsOwn(top, stream) /\ support_cas = SupportCas /\ last = NoFrame
           /\ exception => top.disturbed
           /\ top.status \in {"SUCCESS", "SOME_ERRORS"}
BY OnTop, AtWork DEF InLoop, FrameTrue

\* A step of the loop, with what it leaves alone.
LEMMA LoopSteps ==
    ASSUME TypeOK, ReadsInv, InLoop, NEW f \in Frames, SetTop(f), FrameTrue(f),
           f.at \in {"results", "callback", "finish"},
           f.disturbed = top.disturbed, ReadsItsOwn(f, stream'), stream' \in Seq(Results),
           broken' \in BOOLEAN, exception' \in BOOLEAN,
           f.at = "finish" \/ exception' = exception,
           UNCHANGED <<support_cas, rescode, last, ret>>,
           \/ broken' \/ ~Apart(f)
           \/ \E i \in 1 .. Len(stack) - 1 : stack[i].at # "cache"
           \/ \A i \in DOMAIN stream' : stream'[i].delayed
    PROVE  TypeOK' /\ ReadsInv'
<1>1. /\ stack # << >> /\ support_cas = SupportCas /\ last = NoFrame
      /\ exception => top.disturbed
  BY InTheLoop
<1>2. /\ support_cas' = SupportCas /\ support_cas' \in BOOLEAN /\ rescode' \in Statuses
      /\ last' = NoFrame /\ ret' \in Returns
  BY <1>1 DEF TypeOK
<1>3. f.at \in {"request", "mget", "results"} /\ exception' => f.disturbed
  BY <1>1
<1> QED BY <1>1, <1>2, <1>3, TopSteps

\* There is no further result.
LEMMA NoResultKeeps ==
    ASSUME TypeOK, ReadsInv, NoResult
    PROVE  TypeOK' /\ ReadsInv'
<1>1. InLoop /\ stream = << >> /\ UNCHANGED <<stream, support_cas, rescode, exception, last, ret, broken>>
  BY DEF NoResult
<1>2. /\ top \in Frames /\ FrameTrue(top) /\ top.at = "results"
      /\ ReadsItsOwn(top, stream) /\ top.status \in {"SUCCESS", "SOME_ERRORS"}
  BY <1>1, InTheLoop
<1>3. PICK f : f = [top EXCEPT !.at = "finish", !.status = IF top.count THEN @ ELSE "NOTFOUND"]
  OBVIOUS
<1>4. SetTop(f)
  BY <1>3 DEF NoResult
<1>5. f \in Frames
  BY <1>2, <1>3 DEF Frames, Statuses
<1>6. /\ f.at = "finish" /\ f.op = top.op /\ f.keys = top.keys /\ f.found = top.found
      /\ f.with_cas = top.with_cas /\ f.got = top.got /\ f.tokenless = top.tokenless
      /\ f.disturbed = top.disturbed
      /\ f.status = IF top.count THEN top.status ELSE "NOTFOUND"
  BY <1>2, <1>3 DEF Frames
<1>7. KeysOf(stream) = {}
  BY <1>1 DEF KeysOf
<1>8. ~top.disturbed /\ top.op # "fetch" /\ top.status = "SUCCESS" => top.found = top.got
  BY <1>2, <1>7 DEF ReadsItsOwn
<1>9. FrameTrue(f) /\ ReadsItsOwn(f, stream')
  BY <1>2, <1>6, <1>8 DEF FrameTrue, ReadsItsOwn
<1>10. \A i \in DOMAIN stream' : stream'[i].delayed
  BY <1>1
<1> QED BY <1>1, <1>4, <1>5, <1>6, <1>9, <1>10, LoopSteps DEF TypeOK

\* A method stops reading because of an error or an exception.
LEMMA Stops ==
    ASSUME TypeOK, ReadsInv, InLoop, NEW status \in {"FAILURE", "PAYLOAD_FAILURE"},
           SetTop([top EXCEPT !.at = "finish", !.status = status]),
           stream' \in Seq(Results), broken' \in BOOLEAN, exception' \in BOOLEAN,
           UNCHANGED <<support_cas, rescode, last, ret>>,
           broken' \/ stream' = << >>
    PROVE  TypeOK' /\ ReadsInv'
<1>1. top \in Frames /\ FrameTrue(top) /\ top.at = "results"
  BY InTheLoop
<1>2. PICK f : f = [top EXCEPT !.at = "finish", !.status = status]
  OBVIOUS
<1>3. f \in Frames
  BY <1>1, <1>2 DEF Frames, Statuses
<1>4. /\ f.at = "finish" /\ f.op = top.op /\ f.keys = top.keys /\ f.found = top.found
      /\ f.with_cas = top.with_cas /\ f.got = top.got /\ f.tokenless = top.tokenless
      /\ f.disturbed = top.disturbed /\ f.status = status
  BY <1>1, <1>2 DEF Frames
<1>5. FrameTrue(f) /\ ReadsItsOwn(f, stream')
  BY <1>1, <1>4 DEF FrameTrue, ReadsItsOwn
<1>6. broken' \/ \A i \in DOMAIN stream' : stream'[i].delayed
  OBVIOUS
<1> QED BY <1>2, <1>3, <1>4, <1>5, <1>6, LoopSteps

\* A server fails, or decoding throws.
LEMMA StopKeeps ==
    ASSUME TypeOK, ReadsInv, ResultFails \/ ResultThrows
    PROVE  TypeOK' /\ ReadsInv'
<1>1. CASE ResultFails
  <2>1. PICK ks : stream' \in Kept(PositionsOf(ks))
    BY <1>1 DEF ResultFails
  <2>2. stream' \in Seq(Results)
    BY <2>1, KeptAreOld DEF TypeOK
  <2>3. broken' \in BOOLEAN /\ broken'
    BY <1>1, Zenon DEF ResultFails
  <2>4. exception' \in BOOLEAN
    BY <1>1 DEF ResultFails, TypeOK
  <2> QED BY <1>1, <2>2, <2>3, <2>4, Stops DEF ResultFails
<1>2. CASE ResultThrows
  <2>1. broken' \in BOOLEAN /\ exception' \in BOOLEAN
    BY <1>2, Zenon DEF ResultThrows
  <2>2. stream' = << >> /\ stream' \in Seq(Results)
    BY <1>2 DEF ResultThrows
  <2> QED BY <1>2, <2>1, <2>2, Stops DEF ResultThrows
<1> QED BY <1>1, <1>2

\* A result is handed on.
LEMMA HandedOn ==
    ASSUME TypeOK, ReadsInv, InLoop, stream # << >>, NEW pos \in {"results", "callback", "finish"},
           NEW f, f = [Given(top, stream[1]) EXCEPT !.at = pos]
    PROVE  /\ f \in Frames /\ f.at = pos /\ f.op = top.op /\ f.keys = top.keys
           /\ f.found = top.found /\ f.with_cas = top.with_cas /\ f.status = top.status
           /\ f.disturbed = top.disturbed
           /\ f.count /\ f.got = top.got \cup {stream[1].key}
           /\ f.with_cas /\ ~f.disturbed => ~f.tokenless
<1>1. /\ top \in Frames /\ FrameTrue(top) /\ top.at = "results" /\ ReadsItsOwn(top, stream)
  BY InTheLoop
<1>2. PICK r \in Results : r = stream[1] /\ 1 \in DOMAIN stream
  BY FirstResult DEF TypeOK
<1>3. PICK g : g = Given(top, r)
  OBVIOUS
<1>4. g \in Frames
  BY <1>1, <1>2, <1>3 DEF Given, Frames, Results
<1>5. /\ g.op = top.op /\ g.keys = top.keys /\ g.found = top.found
      /\ g.with_cas = top.with_cas /\ g.status = top.status /\ g.disturbed = top.disturbed
      /\ g.count /\ g.got = top.got \cup {r.key}
      /\ g.tokenless <=> top.tokenless \/ ~r.cas
  BY <1>1, <1>3 DEF Given, Frames
<1>6. f = [g EXCEPT !.at = pos]
  BY <1>2, <1>3
<1>7. f \in Frames
  BY <1>4, <1>6 DEF Frames
<1>8. /\ f.at = pos /\ f.op = g.op /\ f.keys = g.keys /\ f.found = g.found
      /\ f.with_cas = g.with_cas /\ f.status = g.status /\ f.disturbed = g.disturbed
      /\ f.count = g.count /\ f.got = g.got /\ f.tokenless = g.tokenless
  BY <1>4, <1>6 DEF Frames
<1>9. top.with_cas /\ ~top.disturbed => r.cas /\ ~top.tokenless
  BY <1>1, <1>2 DEF FrameTrue, ReadsItsOwn
<1> QED BY <1>2, <1>5, <1>7, <1>8, <1>9

\* A method that goes on reading has the rest of its results in the rest of the stream.
LEMMA ReadsOn ==
    ASSUME TypeOK, ReadsInv, InLoop, stream # << >>, NEW f,
           f.found = top.found, f.with_cas = top.with_cas, f.op = top.op,
           f.disturbed = top.disturbed,
           \/ f.status = "SOME_ERRORS"
           \/ f.status = top.status /\ f.got = top.got \cup {stream[1].key}
    PROVE  ReadsItsOwn(f, Tail(stream))
<1>1. /\ top.at = "results" /\ ReadsItsOwn(top, stream)
  BY InTheLoop
<1>2. /\ KeysOf(stream) = {stream[1].key} \cup KeysOf(Tail(stream))
      /\ \A i \in DOMAIN Tail(stream) : \E j \in DOMAIN stream : Tail(stream)[i] = stream[j]
  BY FirstResult DEF TypeOK
<1>3. ASSUME ~f.disturbed, f.with_cas
      PROVE  \A i \in DOMAIN Tail(stream) : Tail(stream)[i].cas
  <2>1. \A j \in DOMAIN stream : stream[j].cas
    BY <1>1, <1>3 DEF ReadsItsOwn
  <2> QED BY <1>2, <2>1
<1>4. ASSUME ~f.disturbed, f.op # "fetch", f.status = "SUCCESS"
      PROVE  f.found = f.got \cup KeysOf(Tail(stream))
  <2>1. top.found = top.got \cup KeysOf(stream)
    BY <1>1, <1>4 DEF ReadsItsOwn
  <2> QED BY <1>2, <1>4, <2>1
<1> QED BY <1>3, <1>4 DEF ReadsItsOwn

\* The rest of a stream of delayed results.
LEMMA RestIsDelayed ==
    ASSUME TypeOK, ReadsInv, stream # << >>, Apart(top)
    PROVE  \/ broken
           \/ \E i \in 1 .. Len(stack) - 1 : stack[i].at # "cache"
           \/ \A i \in DOMAIN Tail(stream) : Tail(stream)[i].delayed
<1>1. \A i \in DOMAIN Tail(stream) : \E j \in DOMAIN stream : Tail(stream)[i] = stream[j]
  BY FirstResult DEF TypeOK
<1> QED BY <1>1, FindsDelayed

\* A result is handed to the script or to the callback.
LEMMA ApplyResultKeeps ==
    ASSUME TypeOK, ReadsInv, ApplyResult
    PROVE  TypeOK' /\ ReadsInv'
<1>1. /\ InLoop /\ stream # << >>
      /\ UNCHANGED <<support_cas, rescode, exception, last, ret, broken>>
  BY DEF ApplyResult
<1>2. /\ top \in Frames /\ FrameTrue(top) /\ top.at = "results" /\ ReadsItsOwn(top, stream)
      /\ top.status \in {"SUCCESS", "SOME_ERRORS"}
  BY <1>1, InTheLoop
<1>3. /\ Tail(stream) \in Seq(Results) /\ stream[1].key \in KeysOf(stream)
      /\ << >> \in Seq(Results)
  BY <1>1, FirstResult DEF TypeOK
<1>4. broken' \in BOOLEAN /\ exception' \in BOOLEAN /\ exception' = exception /\ broken' = broken
  BY <1>1 DEF TypeOK
<1>5. CASE /\ top.op = "get"
           /\ SetTop([Given(top, stream[1]) EXCEPT !.at = "finish"])
           /\ stream' = << >>
  <2>1. PICK f : f = [Given(top, stream[1]) EXCEPT !.at = "finish"]
    OBVIOUS
  <2>2. /\ f \in Frames /\ f.at = "finish" /\ f.op = top.op /\ f.keys = top.keys
        /\ f.found = top.found /\ f.status = top.status /\ f.disturbed = top.disturbed
        /\ f.got = top.got \cup {stream[1].key}
        /\ f.with_cas /\ ~f.disturbed => ~f.tokenless
    BY <1>1, <2>1, HandedOn
  <2>3. ~f.disturbed /\ f.status = "SUCCESS" => f.found = f.got
    <3>1. PICK k \in Keys : top.found \subseteq {k}
      BY <1>2, <1>5 DEF FrameTrue
    <3>2. ~top.disturbed /\ top.status = "SUCCESS" => top.found = top.got \cup KeysOf(stream)
      BY <1>2, <1>5 DEF ReadsItsOwn
    <3> QED BY <1>3, <2>2, <3>1, <3>2
  <2>4. FrameTrue(f) /\ ReadsItsOwn(f, stream')
    BY <1>2, <2>2, <2>3 DEF FrameTrue, ReadsItsOwn
  <2>5. SetTop(f) /\ stream' \in Seq(Results) /\ \A i \in DOMAIN stream' : stream'[i].delayed
    BY <1>3, <1>5, <2>1
  <2> QED BY <1>1, <1>4, <2>2, <2>4, <2>5, LoopSteps
<1>6. CASE /\ top.op = "fetch"
           /\ SetTop([Given(top, stream[1]) EXCEPT !.at = "finish"])
           /\ stream' = Tail(stream)
  <2>1. PICK f : f = [Given(top, stream[1]) EXCEPT !.at = "finish"]
    OBVIOUS
  <2>2. /\ f \in Frames /\ f.at = "finish" /\ f.op = top.op /\ f.disturbed = top.disturbed
        /\ f.with_cas /\ ~f.disturbed => ~f.tokenless
    BY <1>1, <2>1, HandedOn
  <2>3. FrameTrue(f) /\ ReadsItsOwn(f, stream') /\ Apart(top)
    BY <1>2, <1>6, <2>2 DEF FrameTrue, ReadsItsOwn, Apart
  <2>4. SetTop(f) /\ stream' \in Seq(Results)
    BY <1>3, <1>6, <2>1
  <2>5. \/ broken'
        \/ \E i \in 1 .. Len(stack) - 1 : stack[i].at # "cache"
        \/ \A i \in DOMAIN stream' : stream'[i].delayed
    BY <1>1, <1>6, <2>3, RestIsDelayed
  <2> QED BY <1>1, <1>4, <2>2, <2>3, <2>4, <2>5, LoopSteps
<1>7. CASE /\ top.op \in {"getMulti", "fetchAll"}
           /\ SetTop(Given(top, stream[1]))
           /\ stream' = Tail(stream)
  <2>1. PICK f : f = [Given(top, stream[1]) EXCEPT !.at = "results"]
    OBVIOUS
  <2>2. /\ f \in Frames /\ f.at = "results" /\ f.op = top.op /\ f.keys = top.keys
        /\ f.found = top.found /\ f.with_cas = top.with_cas /\ f.status = top.status
        /\ f.disturbed = top.disturbed /\ f.count /\ f.got = top.got \cup {stream[1].key}
        /\ f.with_cas /\ ~f.disturbed => ~f.tokenless
    BY <1>1, <2>1, HandedOn
  <2>3. FrameTrue(f)
    BY <1>2, <2>2 DEF FrameTrue
  <2>4. ReadsItsOwn(f, stream')
    BY <1>1, <1>7, <2>2, ReadsOn
  <2>5. f = Given(top, stream[1])
    BY <1>2, <2>1 DEF Given, Frames
  <2>6. SetTop(f) /\ stream' \in Seq(Results)
    BY <1>3, <1>7, <2>5
  <2>7. \/ broken' \/ ~Apart(f)
        \/ \E i \in 1 .. Len(stack) - 1 : stack[i].at # "cache"
        \/ \A i \in DOMAIN stream' : stream'[i].delayed
    <3>1. Apart(f) => Apart(top)
      BY <1>2, <2>2 DEF Apart
    <3> QED BY <1>1, <1>7, <3>1, RestIsDelayed
  <2> QED BY <1>1, <1>4, <2>2, <2>3, <2>4, <2>6, <2>7, LoopSteps
<1>8. CASE /\ top.op = "getDelayed"
           /\ SetTop([Given(top, stream[1]) EXCEPT !.at = "callback"])
           /\ stream' = Tail(stream)
  <2>1. PICK f : f = [Given(top, stream[1]) EXCEPT !.at = "callback"]
    OBVIOUS
  <2>2. /\ f \in Frames /\ f.at = "callback" /\ f.op = top.op /\ f.keys = top.keys
        /\ f.found = top.found /\ f.with_cas = top.with_cas /\ f.status = top.status
        /\ f.disturbed = top.disturbed /\ f.count /\ f.got = top.got \cup {stream[1].key}
        /\ f.with_cas /\ ~f.disturbed => ~f.tokenless
    BY <1>1, <2>1, HandedOn
  <2>3. FrameTrue(f) /\ ~Apart(f)
    BY <1>2, <1>8, <2>2 DEF FrameTrue, Apart
  <2>4. ReadsItsOwn(f, stream')
    BY <1>1, <1>8, <2>2, ReadsOn
  <2>5. SetTop(f) /\ stream' \in Seq(Results)
    BY <1>3, <1>8, <2>1
  <2> QED BY <1>1, <1>4, <2>2, <2>3, <2>4, <2>5, LoopSteps
<1> QED BY <1>5, <1>6, <1>7, <1>8 DEF ApplyResult

\* A result is passed over: it cannot be decoded, or the callback is not called any more.
LEMMA PassedOverKeeps ==
    ASSUME TypeOK, ReadsInv, ResultBad \/ CallbackNotCalled
    PROVE  TypeOK' /\ ReadsInv'
<1>1. /\ InLoop /\ stream # << >>
      /\ UNCHANGED <<support_cas, rescode, exception, last, ret, broken>>
  BY DEF ResultBad, CallbackNotCalled
<1>2. /\ top \in Frames /\ FrameTrue(top) /\ top.at = "results"
      /\ top.status \in {"SUCCESS", "SOME_ERRORS"}
      /\ exception => top.disturbed
  BY <1>1, InTheLoop
<1>3. Tail(stream) \in Seq(Results) /\ << >> \in Seq(Results)
  BY <1>1, FirstResult DEF TypeOK
<1>4. broken' \in BOOLEAN /\ exception' \in BOOLEAN /\ exception' = exception /\ broken' = broken
  BY <1>1 DEF TypeOK
<1>5. CASE ResultBad
  <2>1. PICK f : f = [top EXCEPT !.count = TRUE, !.status = "SOME_ERRORS"]
    OBVIOUS
  <2>2. f \in Frames
    BY <1>2, <2>1 DEF Frames, Statuses
  <2>3. /\ f.at = "results" /\ f.op = top.op /\ f.keys = top.keys /\ f.found = top.found
        /\ f.with_cas = top.with_cas /\ f.got = top.got /\ f.tokenless = top.tokenless
        /\ f.disturbed = top.disturbed /\ f.count /\ f.status = "SOME_ERRORS"
    BY <1>2, <2>1 DEF Frames
  <2>4. FrameTrue(f)
    BY <1>2, <2>3 DEF FrameTrue
  <2>5. SetTop(f) /\ stream' = Tail(stream)
    BY <1>5, <2>1 DEF ResultBad
  <2>6. ReadsItsOwn(f, stream')
    BY <1>1, <2>3, <2>5, ReadsOn
  <2>7. \/ broken' \/ ~Apart(f)
        \/ \E i \in 1 .. Len(stack) - 1 : stack[i].at # "cache"
        \/ \A i \in DOMAIN stream' : stream'[i].delayed
    <3>1. Apart(f) => Apart(top)
      BY <1>2, <2>3 DEF Apart
    <3> QED BY <1>1, <2>5, <3>1, RestIsDelayed
  <2> QED BY <1>1, <1>3, <1>4, <2>2, <2>3, <2>4, <2>5, <2>6, <2>7, LoopSteps
<1>6. CASE CallbackNotCalled
  <2>1. top.op = "getDelayed" /\ top.disturbed
    BY <1>2, <1>6 DEF CallbackNotCalled
  <2>2. CASE SetTop([top EXCEPT !.count = TRUE]) /\ stream' = Tail(stream)
    <3>1. PICK f : f = [top EXCEPT !.count = TRUE]
      OBVIOUS
    <3>2. f \in Frames
      BY <1>2, <3>1 DEF Frames
    <3>3. /\ f.at = "results" /\ f.op = top.op /\ f.keys = top.keys /\ f.found = top.found
          /\ f.with_cas = top.with_cas /\ f.got = top.got /\ f.tokenless = top.tokenless
          /\ f.disturbed = top.disturbed /\ f.count /\ f.status = top.status
      BY <1>2, <3>1 DEF Frames
    <3>4. FrameTrue(f) /\ ReadsItsOwn(f, stream') /\ ~Apart(f)
      BY <1>2, <2>1, <3>3 DEF FrameTrue, ReadsItsOwn, Apart
    <3> QED BY <1>1, <1>3, <1>4, <2>2, <3>1, <3>2, <3>3, <3>4, LoopSteps
  <2>3. CASE SetTop([top EXCEPT !.at = "finish"]) /\ stream' = << >>
    <3>1. PICK f : f = [top EXCEPT !.at = "finish"]
      OBVIOUS
    <3>2. f \in Frames
      BY <1>2, <3>1 DEF Frames
    <3>3. /\ f.at = "finish" /\ f.op = top.op /\ f.keys = top.keys /\ f.found = top.found
          /\ f.disturbed = top.disturbed
      BY <1>2, <3>1 DEF Frames
    <3>4. FrameTrue(f) /\ ReadsItsOwn(f, stream')
      BY <1>2, <2>1, <3>3 DEF FrameTrue, ReadsItsOwn
    <3>5. \A i \in DOMAIN stream' : stream'[i].delayed
      BY <2>3
    <3> QED BY <1>1, <1>3, <1>4, <2>3, <3>1, <3>2, <3>3, <3>4, <3>5, LoopSteps
  <2> QED BY <1>6, <2>2, <2>3 DEF CallbackNotCalled
<1> QED BY <1>5, <1>6

-----------------------------------------------------------------------------
(* Callbacks end *)

\* The result callback returns or throws, and the loop goes on.
LEMMA CallbackKeeps ==
    ASSUME TypeOK, ReadsInv, CallbackReturns \/ CallbackThrows
    PROVE  TypeOK' /\ ReadsInv'
<1>1. /\ at = "callback" /\ last' = NoFrame /\ ret' = "NOTHING"
      /\ UNCHANGED <<stream, support_cas, rescode, broken>>
  BY DEF CallbackReturns, CallbackThrows, Forget
<1>2. /\ stack # << >> /\ top \in Frames /\ FrameTrue(top) /\ top.at = "callback"
      /\ ReadsItsOwn(top, stream) /\ support_cas = SupportCas
  BY <1>1, OnTop, AtWork
<1>3. PICK f : /\ SetTop(f)
               /\ \/ f = [top EXCEPT !.at = "results"] /\ exception' = exception /\ ~exception
                  \/ f = [top EXCEPT !.at = "results", !.disturbed = TRUE] /\ exception' = TRUE
  BY DEF CallbackReturns, CallbackThrows
<1>4. f \in Frames
  BY <1>2, <1>3 DEF Frames
<1>5. /\ f.at = "results" /\ f.op = top.op /\ f.keys = top.keys /\ f.found = top.found
      /\ f.with_cas = top.with_cas /\ f.got = top.got /\ f.tokenless = top.tokenless
      /\ f.count = top.count /\ f.status = top.status
      /\ top.disturbed => f.disturbed
      /\ exception' => f.disturbed
  <2>1. CASE f = [top EXCEPT !.at = "results"] /\ exception' = exception /\ ~exception
    BY <1>2, <2>1 DEF Frames
  <2>2. CASE f = [top EXCEPT !.at = "results", !.disturbed = TRUE] /\ exception' = TRUE
    BY <1>2, <2>2 DEF Frames
  <2> QED BY <1>3, <2>1, <2>2
<1>6. FrameTrue(f) /\ ReadsItsOwn(f, stream') /\ ~Apart(f)
  BY <1>1, <1>2, <1>5 DEF FrameTrue, ReadsItsOwn, Apart
<1>7. exception' \in BOOLEAN
  BY <1>3, Zenon DEF TypeOK
<1>8. /\ stream' \in Seq(Results) /\ support_cas' \in BOOLEAN /\ rescode' \in Statuses
      /\ broken' \in BOOLEAN /\ ret' \in Returns /\ support_cas' = SupportCas
  BY <1>1, <1>2 DEF TypeOK, Returns
<1> QED BY <1>1, <1>2, <1>3, <1>4, <1>5, <1>6, <1>7, <1>8, TopSteps

\* The cache callback ends, and get with it.
LEMMA CacheKeeps ==
    ASSUME TypeOK, ReadsInv, CacheStored \/ CacheNotStored \/ CacheDeclines
    PROVE  TypeOK' /\ ReadsInv'
<1>1. at = "cache" /\ UNCHANGED <<support_cas, broken>>
  BY DEF CacheStored, CacheNotStored, CacheDeclines
<1>2. /\ stack # << >> /\ top \in Frames /\ FrameTrue(top) /\ top.at = "cache"
      /\ support_cas = SupportCas
  BY <1>1, OnTop, AtWork
<1>3. PICK rc \in Statuses, r \in Returns : ReturnWith(top, rc, r)
  <2>1. CASE CacheStored
    BY <2>1 DEF CacheStored, Statuses, Returns
  <2>2. CASE CacheNotStored
    BY <2>2 DEF CacheNotStored, Statuses, Returns
  <2>3. CASE CacheDeclines
    BY <2>3 DEF CacheDeclines, TypeOK, Returns
  <2> QED BY <2>1, <2>2, <2>3
<1>4. exception' \in BOOLEAN
  BY Zenon DEF CacheStored, CacheNotStored, CacheDeclines, TypeOK
<1>5. /\ stream' \in Seq(Results)
      /\ \A i \in DOMAIN stream' : \E j \in DOMAIN stream : stream'[i] = stream[j]
  <2>1. CASE CacheStored \/ CacheNotStored
    <3>1. PICK ks : stream' \in Kept(PositionsOf(ks))
      BY <2>1 DEF CacheStored, CacheNotStored
    <3> QED BY <3>1, KeptAreOld DEF TypeOK
  <2>2. CASE CacheDeclines
    BY <2>2 DEF CacheDeclines, TypeOK
  <2> QED BY <2>1, <2>2
<1>6. \/ broken'
      \/ \E i \in 1 .. Len(stack) - 1 : stack[i].at # "cache"
      \/ \A i \in DOMAIN stream' : stream'[i].delayed
  <2>1. Apart(top)
    BY <1>2 DEF Apart
  <2> QED BY <1>1, <1>5, <2>1, FindsDelayed
<1>7. /\ top.with_cas /\ ~top.disturbed => ~top.tokenless
      /\ top.disturbed \/ top.found = top.got
  BY <1>2 DEF FrameTrue
<1>8. broken' \in BOOLEAN /\ support_cas' = SupportCas
  BY <1>1, <1>2 DEF TypeOK
<1> QED BY <1>2, <1>3, <1>4, <1>5, <1>6, <1>7, <1>8, TopReturns

\* An exception is caught.
LEMMA CatchKeeps ==
    ASSUME TypeOK, ReadsInv, Catch
    PROVE  TypeOK' /\ ReadsInv'
<1>1. exception' = FALSE /\ UNCHANGED <<stream, support_cas, rescode, stack, last, ret, broken>>
  BY DEF Catch
<1>2. exception' \in BOOLEAN
  BY <1>1, Zenon
<1>3. TypeOK'
  BY <1>1, <1>2 DEF TypeOK
<1>4. top' = top /\ at' = at
  BY <1>1 DEF top, at
<1>5. Nested' /\ CasTrue' /\ ExceptionTrue'
  BY <1>1, <1>4 DEF ReadsInv, Nested, CasTrue, ExceptionTrue
<1>6. OnlyDelayed' /\ LastTrue'
  BY <1>1, <1>4 DEF ReadsInv, OnlyDelayed, LastTrue, SuccessIsComplete
<1> QED BY <1>1, <1>3, <1>4, <1>5, <1>6 DEF ReadsInv

-----------------------------------------------------------------------------
(* Methods end *)

\* A method that has finished its loop returns.
LEMMA FinishReturns ==
    ASSUME TypeOK, ReadsInv, at = "finish", UNCHANGED <<stream, support_cas, exception, broken>>,
           NEW r \in Returns, ReturnWith(top, top.status, r)
    PROVE  TypeOK' /\ ReadsInv'
<1>1. /\ stack # << >> /\ top \in Frames /\ FrameTrue(top) /\ top.at = "finish"
      /\ support_cas = SupportCas
  BY OnTop, AtWork
<1>2. top.status \in Statuses
  BY <1>1 DEF Frames
<1>3. /\ stream' \in Seq(Results) /\ exception' \in BOOLEAN /\ broken' \in BOOLEAN
      /\ support_cas' = SupportCas
  BY <1>1 DEF TypeOK
<1>4. /\ top.with_cas /\ ~top.disturbed => ~top.tokenless
      /\ \/ top.status # "SUCCESS" \/ top.disturbed
         \/ top.op \in {"fetch", "quit"} \/ top.found = top.got
  BY <1>1 DEF FrameTrue
<1>5. \/ broken'
      \/ \E i \in 1 .. Len(stack) - 1 : stack[i].at # "cache"
      \/ \A i \in DOMAIN stream' : stream'[i].delayed
  BY <1>1, FindsDelayed DEF Apart
<1> QED BY <1>1, <1>2, <1>3, <1>4, <1>5, TopReturns

\* get turns to its cache callback.
LEMMA TurnsToCache ==
    ASSUME TypeOK, ReadsInv, at = "finish", UNCHANGED <<stream, support_cas, exception, broken>>,
           top.op = "get", top.status = "NOTFOUND",
           SetTop([top EXCEPT !.at = "cache"]), rescode' = top.status, UNCHANGED <<last, ret>>
    PROVE  TypeOK' /\ ReadsInv'
<1>1. /\ stack # << >> /\ top \in Frames /\ FrameTrue(top) /\ top.at = "finish"
      /\ support_cas = SupportCas /\ last = NoFrame
  BY OnTop, AtWork
<1>2. PICK f : f = [top EXCEPT !.at = "cache"]
  OBVIOUS
<1>3. f \in Frames
  BY <1>1, <1>2 DEF Frames
<1>4. /\ f.at = "cache" /\ f.op = top.op /\ f.keys = top.keys /\ f.found = top.found
      /\ f.with_cas = top.with_cas /\ f.got = top.got /\ f.tokenless = top.tokenless
      /\ f.disturbed = top.disturbed
  BY <1>1, <1>2 DEF Frames
<1>5. FrameTrue(f) /\ ReadsItsOwn(f, stream')
  BY <1>1, <1>4 DEF FrameTrue, ReadsItsOwn
<1>6. \/ broken'
      \/ \E i \in 1 .. Len(stack) - 1 : stack[i].at # "cache"
      \/ \A i \in DOMAIN stream' : stream'[i].delayed
  BY <1>1, FindsDelayed DEF Apart
<1>7. /\ stream' \in Seq(Results) /\ exception' \in BOOLEAN /\ broken' \in BOOLEAN
      /\ support_cas' = SupportCas /\ support_cas' \in BOOLEAN /\ rescode' \in Statuses
      /\ last' = NoFrame /\ ret' \in Returns
  BY <1>1 DEF TypeOK, Frames
<1> QED BY <1>1, <1>2, <1>3, <1>4, <1>5, <1>6, <1>7, TopSteps

\* Every method ends well.
LEMMA FinishKeeps ==
    ASSUME TypeOK, ReadsInv, Finish
    PROVE  TypeOK' /\ ReadsInv'
<1>1. at = "finish" /\ UNCHANGED <<stream, support_cas, exception, broken>>
  BY DEF Finish, FinishGet, FinishGetMulti, FinishGetDelayed, FinishFetch
<1>2. \/ \E r \in Returns : ReturnWith(top, top.status, r)
      \/ /\ top.op = "get" /\ top.status = "NOTFOUND"
         /\ SetTop([top EXCEPT !.at = "cache"]) /\ rescode' = top.status /\ UNCHANGED <<last, ret>>
  BY DEF Finish, FinishGet, FinishGetMulti, FinishGetDelayed, FinishFetch, MGetFailed, Returns
<1> QED BY <1>1, <1>2, FinishReturns, TurnsToCache

-----------------------------------------------------------------------------
(* Results *)

\* Every step keeps the invariant.
LEMMA ReadsStep ==
    ASSUME TypeOK, ReadsInv, [Next]_vars
    PROVE  TypeOK' /\ ReadsInv'
<1>1. CASE UNCHANGED vars
  <2>1. UNCHANGED <<stream, support_cas, rescode, exception, stack, last, ret, broken>>
    BY <1>1 DEF vars
  <2>2. top' = top /\ at' = at
    BY <2>1 DEF top, at
  <2>3. TypeOK'
    BY <2>1 DEF TypeOK
  <2> QED BY <2>1, <2>2, <2>3 DEF ReadsInv, Nested, CasTrue, ExceptionTrue, OnlyDelayed,
                                 LastTrue, SuccessIsComplete
<1>2. CASE Request
  BY <1>2, SwitchCasKeeps, MGetDoneKeeps, MGetErrorKeeps DEF Request
<1>3. CASE Loop
  BY <1>3, NoResultKeeps, StopKeeps, ApplyResultKeeps, PassedOverKeeps DEF Loop
<1>4. CASE EndOfCallback
  BY <1>4, CallbackKeeps, CacheKeeps DEF EndOfCallback
<1> QED BY <1>1, <1>2, <1>3, <1>4, CallKeeps, CatchKeeps, FinishKeeps DEF Next

\* The invariant holds in every state of the read methods.
THEOREM MethodsAreTrue == Spec => [](TypeOK /\ ReadsInv)
<1>1. ASSUME Init PROVE TypeOK /\ ReadsInv
  <2>1. /\ stream = << >> /\ support_cas = SupportCas /\ rescode = "SUCCESS" /\ exception = FALSE
        /\ stack = << >> /\ last = NoFrame /\ ret = "NOTHING" /\ broken = FALSE
    BY <1>1 DEF Init
  <2>2. support_cas \in BOOLEAN /\ exception \in BOOLEAN /\ broken \in BOOLEAN
    BY <2>1, ConstantsAssumption, Zenon DEF ConstantsAssumption
  <2>3. TypeOK
    BY <2>1, <2>2, NoFrameFacts DEF TypeOK, Statuses, Returns
  <2>4. at = "script" /\ Len(stack) = 0
    BY <2>1 DEF at
  <2> QED BY <2>1, <2>3, <2>4, NoFrameFacts
          DEF ReadsInv, Nested, CasTrue, ExceptionTrue, OnlyDelayed, LastTrue, SuccessIsComplete
<1> QED BY <1>1, ReadsStep, PTL DEF Spec

\* The types of the stream, of the object and of the methods in progress.
THEOREM TypeCorrect == Spec => []TypeOK
BY MethodsAreTrue, PTL

\* CAS support is on only while a request that asks for tokens is made, however requests
\* fail and methods nest; and a method that asked for tokens gets one with every result.
THEOREM TokensOnRequest == Spec => []CasOnRequest
<1>1. ReadsInv => CasOnRequest
  BY DEF ReadsInv, CasTrue, LastTrue, CasOnRequest
<1> QED BY <1>1, MethodsAreTrue, PTL

\* As long as no server fails, a method that returns to the script leaves nothing in the
\* stream but what getDelayed left there for fetch and fetchAll.
THEOREM NothingIsLeft == Spec => []NoLeftovers
<1>1. TypeOK /\ ReadsInv => NoLeftovers
  <2>1. stack = << >> => Len(stack) - 1 = -1
    OBVIOUS
  <2> QED BY <2>1 DEF ReadsInv, OnlyDelayed, NoLeftovers
<1> QED BY <1>1, MethodsAreTrue, PTL

\* A method that reports RES_SUCCESS has handed on everything the servers had for it, unless
\* its callbacks used the object or threw.
THEOREM SuccessMeansAll == Spec => []SuccessIsComplete
<1>1. ReadsInv => SuccessIsComplete
  BY DEF ReadsInv, LastTrue
<1> QED BY <1>1, MethodsAreTrue, PTL
=============================================================================
