--------------------------- MODULE SidecarIpcProofs ---------------------------
(***************************************************************************)
(* Proofs about one HTTP stream on the IPC.  First its credits: credit is  *)
(* conserved on its way between a counter, a frame in a channel and a      *)
(* chunk in a queue (CreditInv).  Then its end: what an End frame in either*)
(* direction stands for, and what alone cuts a stream off (EndsInv).       *)
(***************************************************************************)
EXTENDS SidecarIpc, FiniteSetTheorems, SequenceTheorems, TLAPS

Slots(channel, kind) ==
  {p \in (DOMAIN channel) \X (1 .. MaxStreamCredits) :
     channel[p[1]].kind = kind /\ p[2] <= channel[p[1]].credits}

\* What one frame weighs if it is of the kind.
Weight(frame, kind) == IF frame.kind = kind THEN frame.credits ELSE 0

------------------------------------------------------------------------------
(* Credits in a channel                                                    *)

LEMMA MaxType == MaxStreamCredits \in Nat
BY SidecarAssumption

LEMMA FrameType ==
  ASSUME NEW f \in Frame, NEW kind
  PROVE  /\ f.credits \in 0 .. MaxStreamCredits
         /\ Weight(f, kind) \in 0 .. MaxStreamCredits
         /\ f.kind = "Data" => f.credits = 1
         /\ f.kind = "Credit" => f.credits >= 1
BY SidecarAssumption, SMT DEF Frame, Plain, Data, Credit, Weight

LEMMA SlotsFinite ==
  ASSUME NEW channel \in Seq(Frame), NEW kind
  PROVE  /\ IsFiniteSet(Slots(channel, kind))
         /\ InFlight(channel, kind) = Cardinality(Slots(channel, kind))
         /\ InFlight(channel, kind) \in Nat
<1>1. DOMAIN channel = 1 .. Len(channel) /\ Len(channel) \in Nat
  OBVIOUS
<1>2. IsFiniteSet(DOMAIN channel)
  BY <1>1, FS_Interval
<1>3. IsFiniteSet(1 .. MaxStreamCredits)
  BY MaxType, FS_Interval
<1>4. IsFiniteSet((DOMAIN channel) \X (1 .. MaxStreamCredits))
  BY <1>2, <1>3, FS_Product
<1>5. Slots(channel, kind) \subseteq (DOMAIN channel) \X (1 .. MaxStreamCredits)
  BY DEF Slots
<1>6. IsFiniteSet(Slots(channel, kind))
  BY <1>4, <1>5, FS_Subset
<1>7. InFlight(channel, kind) = Cardinality(Slots(channel, kind))
  BY DEF InFlight, Slots
<1> QED
  BY <1>6, <1>7, FS_CardinalityType

\* A column of n credits has n members.
LEMMA ColumnSize ==
  ASSUME NEW i, NEW n \in Nat
  PROVE  LET column == {i} \X (1 .. n)
         IN IsFiniteSet(column) /\ Cardinality(column) = n
<1> DEFINE column == {i} \X (1 .. n)
           f == [j \in 1 .. n |-> <<i, j>>]
<1>1. f \in Bijection(1 .. n, column)
  BY DEF Bijection, Injection, Surjection, IsInjective
<1>2. ExistsBijection(1 .. n, column)
  BY <1>1 DEF ExistsBijection
<1>3. IsFiniteSet(column)
  BY <1>2, FS_NatBijection
<1> QED
  BY <1>2, <1>3, FS_CountingElements

LEMMA EmptyInFlight ==
  ASSUME NEW kind
  PROVE  InFlight(<<>>, kind) = 0
<1>1. InFlight(<<>>, kind) = Cardinality({})
  BY DEF InFlight
<1> QED
  BY <1>1, FS_EmptySet

\* A frame brings its own weight into a channel.
LEMMA AppendInFlight ==
  ASSUME NEW channel \in Seq(Frame), NEW f \in Frame, NEW kind
  PROVE  InFlight(Append(channel, f), kind) = InFlight(channel, kind) + Weight(f, kind)
<1> DEFINE last == Len(channel) + 1
           more == {last} \X (1 .. Weight(f, kind))
           old == Slots(channel, kind)
           new == Slots(Append(channel, f), kind)
<1>1. Append(channel, f) \in Seq(Frame) /\ Len(channel) \in Nat
  OBVIOUS
<1>2. Weight(f, kind) \in Nat /\ Weight(f, kind) <= MaxStreamCredits
  BY FrameType, MaxType
<1>3. new = old \union more
  <2>1. ASSUME NEW p \in new PROVE p \in old \union more
    <3>1. p[1] \in 1 .. last /\ p[2] \in 1 .. MaxStreamCredits /\ p = <<p[1], p[2]>>
      BY DEF Slots
    <3>2. CASE p[1] = last
      <4>1. Append(channel, f)[p[1]] = f
        BY <3>2
      <4>2. f.kind = kind /\ p[2] <= f.credits
        BY <4>1 DEF Slots
      <4> QED
        BY <3>1, <3>2, <4>2 DEF Weight
    <3>3. CASE p[1] # last
      <4>1. p[1] \in 1 .. Len(channel)
        BY <1>1, <3>1, <3>3
      <4>2. Append(channel, f)[p[1]] = channel[p[1]]
        BY <4>1
      <4> QED
        BY <3>1, <4>1, <4>2 DEF Slots
    <3> QED
      BY <3>2, <3>3
  <2>2. ASSUME NEW p \in old PROVE p \in new
    <3>1. p[1] \in 1 .. Len(channel) /\ p[2] \in 1 .. MaxStreamCredits /\ p = <<p[1], p[2]>>
      BY DEF Slots
    <3>2. Append(channel, f)[p[1]] = channel[p[1]]
      BY <3>1
    <3> QED
      BY <1>1, <3>1, <3>2 DEF Slots
  <2>3. ASSUME NEW p \in more PROVE p \in new
    <3>1. p[1] = last /\ p[2] \in 1 .. Weight(f, kind) /\ p = <<p[1], p[2]>>
      OBVIOUS
    <3>2. f.kind = kind /\ p[2] <= f.credits /\ p[2] \in 1 .. MaxStreamCredits
      BY <1>2, <3>1, MaxType DEF Weight
    <3>3. Append(channel, f)[p[1]] = f
      BY <3>1
    <3> QED
      BY <1>1, <3>1, <3>2, <3>3 DEF Slots
  <2> QED
    BY <2>1, <2>2, <2>3
<1>4. old \intersect more = {}
  BY <1>1 DEF Slots
<1>5. IsFiniteSet(more) /\ Cardinality(more) = Weight(f, kind)
  BY <1>2, ColumnSize
<1>6. IsFiniteSet(old) /\ Cardinality(old) \in Nat
  BY SlotsFinite, FS_CardinalityType
<1>7. Cardinality(new) = Cardinality(old) + Cardinality(more)
  <2>1. Cardinality(old \union more)
          = Cardinality(old) + Cardinality(more) - Cardinality(old \intersect more)
    BY <1>5, <1>6, FS_Union
  <2>2. Cardinality({}) = 0
    BY FS_EmptySet
  <2>3. Cardinality(old \intersect more) = 0
    BY <1>4, <2>2, Zenon
  <2>4. Cardinality(new) = Cardinality(old \union more)
    BY <1>3, Zenon
  <2> HIDE DEF old, more, new
  <2> QED
    BY <1>2, <1>5, <1>6, <2>1, <2>3, <2>4
<1> QED
  BY <1>1, <1>5, <1>7, SlotsFinite

\* The oldest frame takes its own weight out of a channel.
LEMMA TailInFlight ==
  ASSUME NEW channel \in Seq(Frame), channel # <<>>, NEW kind
  PROVE  /\ Head(channel) \in Frame /\ Tail(channel) \in Seq(Frame)
         /\ InFlight(channel, kind)
              = InFlight(Tail(channel), kind) + Weight(Head(channel), kind)
<1> DEFINE f == Head(channel)
           rest == Slots(Tail(channel), kind)
           all == Slots(channel, kind)
           first == {1} \X (1 .. Weight(f, kind))
           moved == {p \in all : p[1] # 1}
           shift == [p \in rest |-> <<p[1] + 1, p[2]>>]
<1>1. f \in Frame /\ Tail(channel) \in Seq(Frame) /\ Len(channel) \in Nat \ {0}
  OBVIOUS
<1>2. Len(Tail(channel)) = Len(channel) - 1
      /\ \A i \in 1 .. (Len(channel) - 1) : Tail(channel)[i] = channel[i + 1]
  OBVIOUS
<1>3. Weight(f, kind) \in Nat /\ Weight(f, kind) <= MaxStreamCredits
  BY <1>1, FrameType, MaxType
<1>4. all = moved \union first
  <2>1. ASSUME NEW p \in first PROVE p \in all
    <3>1. p[1] = 1 /\ p[2] \in 1 .. Weight(f, kind) /\ p = <<p[1], p[2]>>
      OBVIOUS
    <3>2. f.kind = kind /\ p[2] <= f.credits /\ p[2] \in 1 .. MaxStreamCredits
      BY <1>3, <3>1, MaxType DEF Weight
    <3> QED
      BY <1>1, <3>1, <3>2 DEF Slots
  <2>2. ASSUME NEW p \in all, p[1] = 1 PROVE p \in first
    <3>1. p[2] \in 1 .. MaxStreamCredits /\ p = <<p[1], p[2]>>
          /\ channel[1].kind = kind /\ p[2] <= channel[1].credits
      BY <2>2 DEF Slots
    <3> QED
      BY <1>1, <2>2, <3>1, MaxType DEF Weight
  <2> QED
    BY <2>1, <2>2
<1>5. shift \in Bijection(rest, moved)
  <2>1. ASSUME NEW p \in rest PROVE shift[p] \in moved
    <3>1. p[1] \in 1 .. (Len(channel) - 1) /\ p[2] \in 1 .. MaxStreamCredits
          /\ Tail(channel)[p[1]].kind = kind /\ p[2] <= Tail(channel)[p[1]].credits
      BY <1>1, <1>2 DEF Slots
    <3>2. p[1] + 1 \in 1 .. Len(channel) /\ p[1] + 1 # 1
      BY <1>1, <3>1
    <3>3. channel[p[1] + 1] = Tail(channel)[p[1]]
      BY <1>2, <3>1
    <3>4. <<p[1] + 1, p[2]>> \in all
      BY <1>1, <3>1, <3>2, <3>3 DEF Slots
    <3> QED
      BY <3>2, <3>4
  <2>2. ASSUME NEW q \in moved PROVE \E p \in rest : shift[p] = q
    <3>1. q[1] \in 1 .. Len(channel) /\ q[1] # 1 /\ q[2] \in 1 .. MaxStreamCredits
          /\ q = <<q[1], q[2]>>
          /\ channel[q[1]].kind = kind /\ q[2] <= channel[q[1]].credits
      BY <1>1 DEF Slots
    <3>2. q[1] - 1 \in 1 .. (Len(channel) - 1) /\ (q[1] - 1) + 1 = q[1]
      BY <1>1, <3>1
    <3>3. Tail(channel)[q[1] - 1] = channel[q[1]]
      BY <1>2, <3>2
    <3>4. <<q[1] - 1, q[2]>> \in rest
      BY <1>1, <1>2, <3>1, <3>2, <3>3 DEF Slots
    <3> QED
      BY <3>1, <3>2, <3>4
  <2>3. ASSUME NEW p \in rest, NEW q \in rest, shift[p] = shift[q] PROVE p = q
    <3>1. p[1] \in Int /\ q[1] \in Int /\ p = <<p[1], p[2]>> /\ q = <<q[1], q[2]>>
      BY <1>1, <1>2 DEF Slots
    <3> QED
      BY <2>3, <3>1
  <2>4. shift \in [rest -> moved]
    BY <2>1
  <2> HIDE DEF shift, rest, moved
  <2> QED
    BY <2>2, <2>3, <2>4 DEF Bijection, Injection, Surjection, IsInjective
<1>6. IsFiniteSet(rest) /\ Cardinality(rest) \in Nat
  BY <1>1, SlotsFinite, FS_CardinalityType
<1>7. IsFiniteSet(moved) /\ Cardinality(moved) = Cardinality(rest)
  BY <1>5, <1>6, FS_Bijection DEF ExistsBijection
<1>8. IsFiniteSet(first) /\ Cardinality(first) = Weight(f, kind)
  BY <1>3, ColumnSize
<1>9. Cardinality(all) = Cardinality(moved) + Cardinality(first)
  <2>1. moved \intersect first = {}
    OBVIOUS
  <2>2. Cardinality(moved \union first)
          = Cardinality(moved) + Cardinality(first) - Cardinality(moved \intersect first)
    BY <1>7, <1>8, FS_Union
  <2>3. Cardinality({}) = 0
    BY FS_EmptySet
  <2>4. Cardinality(moved \intersect first) = 0
    BY <2>1, <2>3, Zenon
  <2>5. Cardinality(all) = Cardinality(moved \union first)
    BY <1>4, Zenon
  <2> HIDE DEF all, moved, first, rest
  <2> QED
    BY <1>3, <1>6, <1>7, <1>8, <2>2, <2>4, <2>5
<1> QED
  BY <1>1, <1>7, <1>8, <1>9, SlotsFinite

\* A frame without credits changes no account.
LEMMA PlainInFlight ==
  ASSUME NEW channel \in Seq(Frame),
         NEW word \in {"Request", "End", "Cancel", "Response", "Failure"},
         NEW kind \in {"Data", "Credit"}
  PROVE  /\ Append(channel, Plain(word)) \in Seq(Frame)
         /\ InFlight(Append(channel, Plain(word)), kind) = InFlight(channel, kind)
<1>1. Plain(word) \in Frame
  BY DEF Frame
<1>2. Weight(Plain(word), kind) = 0
  BY DEF Weight, Plain
<1>3. InFlight(channel, kind) \in Nat
  BY SlotsFinite
<1> QED
  BY <1>1, <1>2, <1>3, AppendInFlight

LEMMA DataInFlight ==
  ASSUME NEW channel \in Seq(Frame)
  PROVE  /\ Append(channel, Data) \in Seq(Frame)
         /\ InFlight(Append(channel, Data), "Data") = InFlight(channel, "Data") + 1
         /\ InFlight(Append(channel, Data), "Credit") = InFlight(channel, "Credit")
<1>1. Data \in Frame
  BY DEF Frame
<1>2. Weight(Data, "Data") = 1 /\ Weight(Data, "Credit") = 0
  BY DEF Weight, Data
<1>3. InFlight(channel, "Credit") \in Nat
  BY SlotsFinite
<1> QED
  BY <1>1, <1>2, <1>3, AppendInFlight

LEMMA CreditInFlight ==
  ASSUME NEW channel \in Seq(Frame), NEW n \in 1 .. MaxStreamCredits
  PROVE  /\ Append(channel, Credit(n)) \in Seq(Frame)
         /\ InFlight(Append(channel, Credit(n)), "Data") = InFlight(channel, "Data")
         /\ InFlight(Append(channel, Credit(n)), "Credit") = InFlight(channel, "Credit") + n
<1>1. Credit(n) \in Frame
  BY DEF Frame
<1>2. Weight(Credit(n), "Credit") = n /\ Weight(Credit(n), "Data") = 0
  BY DEF Weight, Credit
<1>3. InFlight(channel, "Data") \in Nat
  BY SlotsFinite
<1> QED
  BY <1>1, <1>2, <1>3, AppendInFlight

------------------------------------------------------------------------------
(* The inductive invariant                                                 *)

\* Until the reader has handled the Request frame no upload credit exists.
NewStream ==
  active = "new" =>
    /\ up # <<>> /\ Head(up) = Plain("Request") /\ down = <<>>
    /\ request_credits = 0 /\ pump # "writing"
    /\ InFlight(up, "Data") = 0
    /\ input = 0 /\ granted = 0 /\ ~ accepting
    /\ run = "none" /\ task = "none"

CreditInv == TypeOK /\ NewStream /\ UploadCreditBounded /\ ResponseCreditBounded

InChunk == IF pump = "writing" THEN 1 ELSE 0

\* The two accounts: upload credit that exists, response credit that the sidecar
\* has or will get or has spent on its way.
Uploads == request_credits + InChunk + InFlight(up, "Data") + input + granted
             + InFlight(down, "Credit")

Responses == permits + InFlight(up, "Credit") + InFlight(down, "Data")

LEMMA InitCredit == Init => CreditInv
<1> SUFFICES ASSUME Init PROVE CreditInv
  OBVIOUS
<1> USE SidecarAssumption
<1>1. <<Plain("Request")>> \in Seq(Frame) /\ BodyCapacity \in 1 .. MaxStreamCredits
  BY DEF Frame, Plain
<1>2. up = Append(<<Plain("Request")>>, Credit(BodyCapacity))
  BY DEF Init
<1>3. /\ <<Plain("Request")>> = Append(<<>>, Plain("Request"))
      /\ <<>> \in Seq(Frame)
  OBVIOUS
<1>4. /\ InFlight(<<Plain("Request")>>, "Data") = 0
      /\ InFlight(<<Plain("Request")>>, "Credit") = 0
  BY <1>3, PlainInFlight, EmptyInFlight
<1>5. /\ up \in Seq(Frame)
      /\ InFlight(up, "Data") = 0
      /\ InFlight(up, "Credit") = BodyCapacity
  BY <1>1, <1>2, <1>4, CreditInFlight
<1>6. down = <<>> /\ down \in Seq(Frame) /\ events \in Seq(Event)
  BY DEF Init
<1>7. InFlight(down, "Data") = 0 /\ InFlight(down, "Credit") = 0
  BY <1>6, EmptyInFlight
<1>8. TypeOK
  BY <1>5, <1>6 DEF Init, TypeOK, Pumps, Runs
<1>9. NewStream
  BY <1>2, <1>5, <1>6 DEF Init, NewStream
<1>10. UploadCreditBounded
  BY <1>5, <1>7 DEF Init, UploadCreditBounded
<1>11. ResponseCreditBounded
  BY <1>5, <1>7 DEF Init, ResponseCreditBounded
<1> QED
  BY <1>8, <1>9, <1>10, <1>11 DEF CreditInv

\* Every term of the accounts is a natural number.
Numbers ==
  /\ InFlight(up, "Data") \in Nat /\ InFlight(up, "Credit") \in Nat
  /\ InFlight(down, "Data") \in Nat /\ InFlight(down, "Credit") \in Nat
  /\ request_credits \in Nat /\ InChunk \in {0, 1} /\ input \in Nat /\ granted \in Nat
  /\ permits \in Nat /\ response_credits \in Nat /\ queued \in Nat
  /\ InputCapacity \in Nat /\ BodyCapacity \in Nat

LEMMA NumbersType == TypeOK => Numbers
<1> SUFFICES ASSUME TypeOK PROVE Numbers
  OBVIOUS
<1>1. up \in Seq(Frame) /\ down \in Seq(Frame)
  BY DEF TypeOK
<1>2. /\ InFlight(up, "Data") \in Nat /\ InFlight(up, "Credit") \in Nat
      /\ InFlight(down, "Data") \in Nat /\ InFlight(down, "Credit") \in Nat
  BY <1>1, SlotsFinite
<1>3. InChunk \in {0, 1}
  BY DEF InChunk
<1> QED
  BY <1>2, <1>3, SidecarAssumption DEF TypeOK, Numbers

LEMMA NumbersTypeNext == TypeOK' => Numbers'
BY NumbersType, PTL

LEMMA AccountTypes == Numbers => Uploads \in Nat /\ Responses \in Nat
BY DEF Numbers, Uploads, Responses

LEMMA AccountTypesNext == Numbers' => (Uploads \in Nat /\ Responses \in Nat)'
BY AccountTypes, PTL

\* What a step must do to the accounts for the credit to stay bounded.
LEMMA AccountsSuffice ==
  ASSUME CreditInv, TypeOK', NewStream',
         \/ Uploads' <= Uploads
         \/ Uploads = 0 /\ Uploads' <= InputCapacity,
         Responses' + response_credits <= Responses + response_credits',
         response_credits' + queued' <= BodyCapacity
  PROVE  CreditInv'
<1>1. Uploads <= InputCapacity /\ Responses <= response_credits
  BY DEF CreditInv, UploadCreditBounded, ResponseCreditBounded, Uploads, InChunk, Responses
<1>2. Numbers /\ Numbers'
  BY NumbersType, NumbersTypeNext DEF CreditInv
<1>3. /\ Uploads \in Nat /\ Responses \in Nat /\ response_credits \in Nat
      /\ InputCapacity \in Nat /\ response_credits' \in Nat
  BY <1>2, AccountTypes DEF Numbers
<1>4. Uploads' \in Nat /\ Responses' \in Nat
  BY <1>2, AccountTypesNext
<1>5. Uploads' <= InputCapacity /\ Responses' <= response_credits'
  <2>1. PICK u \in Nat, v \in Nat, n \in Nat :
               u = Uploads /\ v = Uploads' /\ n = InputCapacity
    BY <1>3, <1>4
  <2>2. u <= n /\ (v <= u \/ (u = 0 /\ v <= n))
    BY <1>1, <2>1
  <2>3. PICK r \in Nat, q \in Nat, c \in Nat, d \in Nat :
               /\ r = Responses /\ q = Responses'
               /\ c = response_credits /\ d = response_credits'
    BY <1>3, <1>4
  <2>4. r <= c /\ q + c <= r + d
    BY <1>1, <2>3
  <2>5. v <= n /\ q <= d
    BY <2>2, <2>4
  <2> QED
    BY <2>1, <2>3, <2>5
<1> QED
  BY <1>5 DEF CreditInv, UploadCreditBounded, ResponseCreditBounded, Uploads, InChunk, Responses

\* A step that moves no credit except within Electron's or the sidecar's part.
Quiet ==
  /\ request_credits' + InChunk' <= request_credits + InChunk
  /\ InFlight(up', "Data") <= InFlight(up, "Data")
  /\ input' + granted' <= input + granted
  /\ InFlight(down', "Credit") <= InFlight(down, "Credit")
  /\ permits' <= permits
  /\ InFlight(up', "Credit") <= InFlight(up, "Credit")
  /\ InFlight(down', "Data") <= InFlight(down, "Data")
  /\ response_credits' = response_credits
  /\ queued' <= queued

LEMMA QuietAccounts ==
  ASSUME Numbers, Numbers', Quiet, response_credits + queued <= BodyCapacity
  PROVE  /\ Uploads' <= Uploads
         /\ Responses' + response_credits <= Responses + response_credits'
         /\ response_credits' + queued' <= BodyCapacity
<1>1. Uploads' <= Uploads
  <2>1. PICK a \in Nat, b \in Nat, c \in Nat, d \in Nat, e \in Nat, f \in Nat :
          /\ a = request_credits /\ b = InChunk /\ c = InFlight(up, "Data")
          /\ d = input /\ e = granted /\ f = InFlight(down, "Credit")
    BY DEF Numbers
  <2>2. PICK q \in Nat, r \in Nat, s \in Nat, t \in Nat, u \in Nat, v \in Nat :
          /\ q = request_credits' /\ r = InChunk' /\ s = InFlight(up', "Data")
          /\ t = input' /\ u = granted' /\ v = InFlight(down', "Credit")
    BY DEF Numbers
  <2>3. q + r <= a + b /\ s <= c /\ t + u <= d + e /\ v <= f
    BY <2>1, <2>2 DEF Quiet
  <2>4. q + r + s + t + u + v <= a + b + c + d + e + f
    BY <2>3
  <2> QED
    BY <2>1, <2>2, <2>4 DEF Uploads
<1>2. PICK a \in Nat, b \in Nat, c \in Nat, d \in Nat, e \in Nat :
        /\ a = permits /\ b = InFlight(up, "Credit") /\ c = InFlight(down, "Data")
        /\ d = response_credits /\ e = queued
  BY DEF Numbers
<1>3. PICK q \in Nat, r \in Nat, s \in Nat, t \in Nat, u \in Nat :
        /\ q = permits' /\ r = InFlight(up', "Credit") /\ s = InFlight(down', "Data")
        /\ t = response_credits' /\ u = queued'
  BY DEF Numbers
<1>4. q <= a /\ r <= b /\ s <= c /\ t = d /\ u <= e
  BY <1>2, <1>3 DEF Quiet
<1>5. q + r + s + d <= a + b + c + t
  BY <1>4
<1>6. Responses' + response_credits <= Responses + response_credits'
  BY <1>2, <1>3, <1>5 DEF Responses
<1>7. PICK n \in Nat : n = BodyCapacity
  BY DEF Numbers
<1>8. t + u <= n
  BY <1>2, <1>4, <1>7
<1> QED
  BY <1>1, <1>3, <1>6, <1>7, <1>8

LEMMA QuietKeeps ==
  ASSUME CreditInv, TypeOK', NewStream', Quiet
  PROVE  CreditInv'
<1>1. Numbers /\ Numbers'
  BY NumbersType, NumbersTypeNext DEF CreditInv
<1>2. response_credits + queued <= BodyCapacity
  BY DEF CreditInv, ResponseCreditBounded
<1> QED
  BY <1>1, <1>2, QuietAccounts, AccountsSuffice

------------------------------------------------------------------------------
(* Steps that move no credit between the processes                         *)

USE DEF electronVars, pageVars, pumpVars, entryVars, runVars, sidecarVars, runEnv

\* Nothing happens to the credits.
LEMMA SameAccounts ==
  ASSUME CreditInv,
         UNCHANGED <<request_credits, response_credits, up, down, permits, input, granted>>,
         InChunk' = InChunk, queued' = queued
  PROVE  Quiet
<1>1. Numbers
  BY NumbersType DEF CreditInv
<1>2. /\ InFlight(up', "Data") = InFlight(up, "Data")
      /\ InFlight(up', "Credit") = InFlight(up, "Credit")
      /\ InFlight(down', "Data") = InFlight(down, "Data")
      /\ InFlight(down', "Credit") = InFlight(down, "Credit")
  OBVIOUS
<1> QED
  BY <1>1, <1>2 DEF Numbers, Quiet

LEMMA TransactionKeeps ==
  ASSUME CreditInv,
         \/ RunOpens \/ RunFinishesInput \/ RunOffers \/ RunSends
         \/ RunSucceeds \/ RunFails \/ RunDisconnects \/ RunReports
  PROVE  CreditInv'
<1>1. TypeOK
  BY DEF CreditInv
<1>2. UNCHANGED <<electronVars, up, down, entryVars, task, input, granted>>
  BY DEF RunOpens, RunFinishesInput, RunOffers, RunSends, RunSucceeds, RunFails,
         RunDisconnects, RunReports, RunEnds
<1>3. /\ run' \in Runs /\ request_finished' \in BOOLEAN /\ verdict' \in {"none", "ok", "error"}
      /\ taken' \in Nat /\ produced' \in Nat /\ events' \in Seq(Event)
      /\ run # "none"
  <2>1. run' \in Runs /\ request_finished' \in BOOLEAN /\ verdict' \in {"none", "ok", "error"}
        /\ run # "none"
    BY <1>1 DEF TypeOK, Runs, RunOpens, RunFinishesInput, RunOffers, RunSends,
                RunSucceeds, RunFails, RunDisconnects, RunReports, RunEnds
  <2>2. taken' \in Nat /\ produced' \in Nat
    BY <1>1 DEF TypeOK, RunOpens, RunFinishesInput, RunOffers, RunSends,
                RunSucceeds, RunFails, RunDisconnects, RunReports, RunEnds
  <2>3. events' = events \/ \E event \in Event : events' = Append(events, event)
    BY DEF Event, RunOpens, RunFinishesInput, RunOffers, RunSends,
           RunSucceeds, RunFails, RunDisconnects, RunReports, RunEnds
  <2>4. events' \in Seq(Event)
    BY <1>1, <2>3 DEF TypeOK
  <2> QED
    BY <2>1, <2>2, <2>4
<1>4. TypeOK'
  BY <1>1, <1>2, <1>3 DEF TypeOK
<1>5. NewStream'
  BY <1>2, <1>3 DEF CreditInv, NewStream
<1>6. InChunk' = InChunk
  BY <1>2 DEF InChunk
<1>7. Quiet
  BY <1>2, <1>6, SameAccounts
<1> QED
  BY <1>4, <1>5, <1>7, QuietKeeps

\* A chunk taken from the input is a credit on its way back.
LEMMA RunTakesKeeps == ASSUME CreditInv, RunTakes PROVE CreditInv'
<1>1. TypeOK /\ Numbers
  BY NumbersType DEF CreditInv
<1>2. TypeOK'
  BY <1>1 DEF TypeOK, RunTakes
<1>3. NewStream'
  BY DEF CreditInv, NewStream, RunTakes
<1>4. /\ UNCHANGED <<request_credits, pump, up, down, permits, response_credits, queued>>
      /\ input' = input - 1 /\ granted' = granted + 1
  BY DEF RunTakes
<1>5. input' + granted' <= input + granted
  BY <1>1, <1>4 DEF Numbers
<1>6. InChunk' = InChunk
  BY <1>4 DEF InChunk
<1>7. Quiet
  BY <1>1, <1>4, <1>5, <1>6 DEF Quiet, Numbers
<1> QED
  BY <1>2, <1>3, <1>7, QuietKeeps

LEMMA TaskKeeps ==
  ASSUME CreditInv, TaskStops \/ TaskFinishes
  PROVE  CreditInv'
<1>1. TypeOK
  BY DEF CreditInv
<1>2. TypeOK'
  <2>1. events' \in Seq(Event)
    <3>1. events' = events \/ events' = <<>>
      BY DEF TaskStops, TaskFinishes
    <3>2. events \in Seq(Event) /\ <<>> \in Seq(Event)
      BY <1>1 DEF TypeOK
    <3> QED
      BY <3>1, <3>2
  <2>2. active' \in {"new", "live", "gone"} /\ accepting' \in BOOLEAN /\ closed' \in BOOLEAN
        /\ cancel' \in BOOLEAN /\ permits' \in Nat
        /\ task' \in {"none", "receiving", "holding", "finishing", "done"}
    BY <1>1 DEF TypeOK, TaskStops, TaskFinishes, Remove
  <2>3. UNCHANGED <<electronVars, up, down, input, granted, runVars>>
    BY DEF TaskStops, TaskFinishes
  <2> QED
    BY <1>1, <2>1, <2>2, <2>3 DEF TypeOK
<1>3. NewStream'
  BY DEF CreditInv, NewStream, TaskStops, TaskFinishes, Remove
<1>4. UNCHANGED <<request_credits, response_credits, up, down, permits, input, granted,
                  pump, queued>>
  BY DEF TaskStops, TaskFinishes, Remove
<1>5. InChunk' = InChunk
  BY <1>4 DEF InChunk
<1> QED
  BY <1>2, <1>3, <1>4, <1>5, SameAccounts, QuietKeeps

\* An event turns into a frame without credits, or is held for its credit.
LEMMA TaskForwardsKeeps ==
  ASSUME CreditInv, TaskForwards \/ TaskEndsStream
  PROVE  CreditInv'
<1>1. TypeOK /\ Numbers
  BY NumbersType DEF CreditInv
<1>2. /\ UNCHANGED <<electronVars, up, entryVars, input, granted, runVars>>
      /\ task = "receiving" /\ task' \in {"receiving", "holding", "finishing"}
      /\ events # <<>> /\ events' = Tail(events)
      /\ \/ down' = down
         \/ \E word \in {"Response", "End", "Cancel", "Failure"} : down' = Append(down, Plain(word))
  BY DEF TaskForwards, TaskEndsStream, TaskHead, TaskHolds, TaskEnds, TaskFails, Pop, Answer
<1>3. /\ down' \in Seq(Frame)
      /\ InFlight(down', "Data") = InFlight(down, "Data")
      /\ InFlight(down', "Credit") = InFlight(down, "Credit")
  <2>1. CASE down' = down
    BY <1>1, <2>1 DEF TypeOK
  <2>2. ASSUME NEW word \in {"Response", "End", "Cancel", "Failure"},
               down' = Append(down, Plain(word))
        PROVE  /\ down' \in Seq(Frame)
               /\ InFlight(down', "Data") = InFlight(down, "Data")
               /\ InFlight(down', "Credit") = InFlight(down, "Credit")
    <3>1. down \in Seq(Frame)
      BY <1>1 DEF TypeOK
    <3> QED
      BY <2>2, <3>1, PlainInFlight
  <2> QED
    BY <1>2, <2>1, <2>2
<1>4. events' \in Seq(Event)
  BY <1>1, <1>2 DEF TypeOK
<1>5. TypeOK'
  BY <1>1, <1>2, <1>3, <1>4 DEF TypeOK
<1>6. NewStream'
  BY <1>2 DEF CreditInv, NewStream
<1>7. InChunk' = InChunk
  BY <1>2 DEF InChunk
<1>8. Quiet
  BY <1>1, <1>2, <1>3, <1>7 DEF Quiet, Numbers
<1> QED
  BY <1>5, <1>6, <1>8, QuietKeeps

------------------------------------------------------------------------------
(* The steps of Electron                                                   *)

\* A credit leaves the counter with the chunk that will be written.
LEMMA PumpReadsKeeps == ASSUME CreditInv, PumpReads PROVE CreditInv'
<1>1. TypeOK /\ Numbers
  BY NumbersType DEF CreditInv
<1>2. TypeOK'
  BY <1>1 DEF TypeOK, Pumps, PumpReads
<1>3. NewStream'
  BY <1>1 DEF CreditInv, NewStream, PumpReads, TypeOK
<1>4. UNCHANGED <<response_credits, up, down, permits, input, granted, queued>>
  BY DEF PumpReads
<1>5. CASE pump' = "writing"
  <2>1. request_credits' = request_credits - 1 /\ InChunk = 0 /\ InChunk' = 1
    BY <1>5 DEF PumpReads, InChunk
  <2>2. request_credits' + InChunk' <= request_credits + InChunk
    BY <1>1, <2>1 DEF Numbers
  <2>3. Quiet
    BY <1>1, <1>4, <2>2 DEF Numbers, Quiet
  <2> QED
    BY <1>2, <1>3, <2>3, QuietKeeps
<1>6. CASE pump' # "writing"
  <2>1. request_credits' = request_credits /\ InChunk' = InChunk
    BY <1>6 DEF PumpReads, InChunk
  <2> QED
    BY <1>2, <1>3, <1>4, <2>1, SameAccounts, QuietKeeps
<1> QED
  BY <1>5, <1>6

\* The chunk in hand becomes a frame.
LEMMA PumpWritesKeeps == ASSUME CreditInv, PumpWrites PROVE CreditInv'
<1>1. TypeOK /\ Numbers
  BY NumbersType DEF CreditInv
<1>2. /\ up' \in Seq(Frame)
      /\ InFlight(up', "Data") = InFlight(up, "Data") + 1
      /\ InFlight(up', "Credit") = InFlight(up, "Credit")
  BY <1>1, DataInFlight DEF TypeOK, PumpWrites
<1>3. /\ UNCHANGED <<request_credits, response_credits, queued, down, permits, input, granted>>
      /\ pump = "writing" /\ pump' = "reading"
  BY DEF PumpWrites
<1>4. TypeOK'
  BY <1>1, <1>2, <1>3 DEF TypeOK, Pumps, PumpWrites
<1>5. NewStream'
  BY <1>3 DEF CreditInv, NewStream, PumpWrites
<1>6. Uploads' <= Uploads
  <2>1. InChunk = 1 /\ InChunk' = 0
    BY <1>3 DEF InChunk
  <2>2. Uploads' = request_credits + 0 + (InFlight(up, "Data") + 1) + input + granted
                     + InFlight(down, "Credit")
    BY <1>2, <1>3, <2>1 DEF Uploads
  <2> QED
    BY <1>1, <2>1, <2>2 DEF Uploads, Numbers
<1>7. Responses' + response_credits <= Responses + response_credits'
  BY <1>1, <1>2, <1>3 DEF Responses, Numbers
<1>8. response_credits' + queued' <= BodyCapacity
  BY <1>3 DEF CreditInv, ResponseCreditBounded
<1> QED
  BY <1>4, <1>5, <1>6, <1>7, <1>8, AccountsSuffice

\* A frame without credits follows what is already on its way.
LEMMA PlainUp ==
  ASSUME CreditInv, NEW word \in {"End", "Cancel"}, up' = Append(up, Plain(word))
  PROVE  /\ up' \in Seq(Frame)
         /\ InFlight(up', "Data") = InFlight(up, "Data")
         /\ InFlight(up', "Credit") = InFlight(up, "Credit")
         /\ up # <<>> => up' # <<>> /\ Head(up') = Head(up)
<1>1. up \in Seq(Frame)
  BY DEF CreditInv, TypeOK
<1>2. Plain(word) \in Frame
  BY DEF Frame
<1> QED
  BY <1>1, <1>2, PlainInFlight

\* An end of the stream, or of its body, at Electron.
LEMMA ElectronEndsKeeps ==
  ASSUME CreditInv, PumpEnds \/ PumpFails \/ Abort
  PROVE  CreditInv'
<1>1. TypeOK /\ Numbers
  BY NumbersType DEF CreditInv
<1>2. \E word \in {"End", "Cancel"} : up' = Append(up, Plain(word))
  BY DEF PumpEnds, PumpFails, Abort
<1>3. /\ up' \in Seq(Frame)
      /\ InFlight(up', "Data") = InFlight(up, "Data")
      /\ InFlight(up', "Credit") = InFlight(up, "Credit")
      /\ up # <<>> => up' # <<>> /\ Head(up') = Head(up)
  BY <1>2, PlainUp
<1>4. /\ UNCHANGED <<request_credits, response_credits, down, sidecarVars, head_resolved, shown, written>>
      /\ queued' \in {0, queued}
      /\ pump' \in Pumps /\ (pump' = "writing" <=> pump = "writing")
  BY <1>1 DEF TypeOK, Pumps, PumpEnds, PumpFails, Abort, Settle
<1>5. pending' \in {"live", "closed", "failed"} /\ aborted' \in BOOLEAN /\ end_written' \in BOOLEAN
  BY <1>1 DEF TypeOK, PumpEnds, PumpFails, Abort, Settle
<1>6. TypeOK'
  BY <1>1, <1>3, <1>4, <1>5 DEF TypeOK
<1>7. NewStream'
  BY <1>3, <1>4 DEF CreditInv, NewStream
<1>8. InChunk' = InChunk
  BY <1>4 DEF InChunk
<1>9. queued' <= queued
  BY <1>1, <1>4 DEF Numbers
<1>10. Quiet
  BY <1>1, <1>3, <1>4, <1>8, <1>9 DEF Numbers, Quiet
<1> QED
  BY <1>6, <1>7, <1>10, QuietKeeps

\* What Electron grants it counts as given out.
LEMMA GrantKeeps == ASSUME CreditInv, Grant PROVE CreditInv'
<1>1. TypeOK /\ Numbers
  BY NumbersType DEF CreditInv
<1>2. PICK n \in Nat : n = Desired /\ n <= BodyCapacity /\ response_credits < n
                       /\ n + queued <= BodyCapacity
  <2>1. Desired \in Nat /\ Desired <= BodyCapacity
    BY <1>1 DEF Desired, Numbers
  <2>2. response_credits < Desired
    BY DEF Grant
  <2>3. Desired + queued <= BodyCapacity
    BY <1>1, <2>1, <2>2 DEF Desired, Numbers
  <2> QED
    BY <2>1, <2>2, <2>3
<1>3. n - response_credits \in 1 .. MaxStreamCredits
  BY <1>1, <1>2, SidecarAssumption DEF Numbers
<1>4. up' = Append(up, Credit(n - response_credits)) /\ response_credits' = n
  BY <1>2 DEF Grant
<1>5. /\ up' \in Seq(Frame)
      /\ InFlight(up', "Data") = InFlight(up, "Data")
      /\ InFlight(up', "Credit") = InFlight(up, "Credit") + (n - response_credits)
  BY <1>1, <1>3, <1>4, CreditInFlight DEF TypeOK
<1>6. UNCHANGED <<pending, aborted, pump, head_resolved, queued, shown, pumpVars, down, sidecarVars>>
  BY DEF Grant
<1>7. TypeOK'
  BY <1>1, <1>2, <1>4, <1>5, <1>6 DEF TypeOK
<1>8. NewStream'
  <2>1. up # <<>> => up' # <<>> /\ Head(up') = Head(up)
    <3>1. up \in Seq(Frame) /\ Credit(n - response_credits) \in Frame
      BY <1>1, <1>3 DEF TypeOK, Frame
    <3> QED
      BY <1>4, <3>1
  <2> QED
    BY <1>5, <1>6, <2>1 DEF CreditInv, NewStream
<1>9. Uploads' = Uploads
  BY <1>5, <1>6 DEF Uploads, InChunk
<1>10. Uploads' <= Uploads
  BY <1>1, <1>9, AccountTypes
<1>11. Responses' + response_credits <= Responses + response_credits'
  <2>1. Responses' = permits + (InFlight(up, "Credit") + (n - response_credits))
                       + InFlight(down, "Data")
    BY <1>5, <1>6 DEF Responses
  <2> QED
    BY <1>1, <1>2, <1>4, <2>1 DEF Responses, Numbers
<1>12. response_credits' + queued' <= BodyCapacity
  BY <1>2, <1>4, <1>6
<1> QED
  BY <1>7, <1>8, <1>10, <1>11, <1>12, AccountsSuffice

LEMMA PageReadsKeeps == ASSUME CreditInv, PageReads PROVE CreditInv'
<1>1. TypeOK /\ Numbers
  BY NumbersType DEF CreditInv
<1>2. /\ UNCHANGED <<request_credits, response_credits, pump, up, down, permits, input, granted>>
      /\ queued > 0 /\ queued' = queued - 1
  BY DEF PageReads
<1>3. TypeOK'
  BY <1>1, <1>2 DEF TypeOK, PageReads, Numbers
<1>4. NewStream'
  BY <1>2 DEF CreditInv, NewStream, PageReads
<1>5. InChunk' = InChunk
  BY <1>2 DEF InChunk
<1>6. queued' <= queued
  BY <1>1, <1>2 DEF Numbers
<1>7. Quiet
  BY <1>1, <1>2, <1>5, <1>6 DEF Numbers, Quiet
<1> QED
  BY <1>3, <1>4, <1>7, QuietKeeps

------------------------------------------------------------------------------
(* The steps of the sidecar that move credit                               *)

\* A credit given back becomes a frame.
LEMMA ForwardKeeps == ASSUME CreditInv, Forward PROVE CreditInv'
<1>1. TypeOK /\ Numbers
  BY NumbersType DEF CreditInv
<1>2. 1 \in 1 .. MaxStreamCredits
  BY SidecarAssumption
<1>3. /\ down' \in Seq(Frame)
      /\ InFlight(down', "Data") = InFlight(down, "Data")
      /\ InFlight(down', "Credit") = InFlight(down, "Credit") + 1
  BY <1>1, <1>2, CreditInFlight DEF TypeOK, Forward
<1>4. /\ UNCHANGED <<request_credits, response_credits, queued, pump, up, permits, input>>
      /\ granted > 0 /\ granted' = granted - 1
  BY DEF Forward
<1>5. TypeOK'
  BY <1>1, <1>3, <1>4 DEF TypeOK, Forward, Numbers
<1>6. NewStream'
  BY <1>1, <1>4 DEF CreditInv, NewStream, Forward, Numbers
<1>7. Uploads' <= Uploads
  <2>1. Uploads' = request_credits + InChunk + InFlight(up, "Data") + input + (granted - 1)
                     + (InFlight(down, "Credit") + 1)
    BY <1>3, <1>4 DEF Uploads, InChunk
  <2> QED
    BY <1>1, <2>1 DEF Uploads, Numbers
<1>8. Responses' + response_credits <= Responses + response_credits'
  BY <1>1, <1>3, <1>4 DEF Responses, Numbers
<1>9. response_credits' + queued' <= BodyCapacity
  BY <1>4 DEF CreditInv, ResponseCreditBounded
<1> QED
  BY <1>5, <1>6, <1>7, <1>8, <1>9, AccountsSuffice

\* The permit goes with the chunk.
LEMMA TaskSendsKeeps == ASSUME CreditInv, TaskSends PROVE CreditInv'
<1>1. TypeOK /\ Numbers
  BY NumbersType DEF CreditInv
<1>2. /\ down' \in Seq(Frame)
      /\ InFlight(down', "Data") = InFlight(down, "Data") + 1
      /\ InFlight(down', "Credit") = InFlight(down, "Credit")
  BY <1>1, DataInFlight DEF TypeOK, TaskSends
<1>3. /\ UNCHANGED <<request_credits, response_credits, queued, pump, up, input, granted>>
      /\ permits > 0 /\ permits' = permits - 1
  BY DEF TaskSends
<1>4. TypeOK'
  BY <1>1, <1>2, <1>3 DEF TypeOK, TaskSends, Numbers
<1>5. NewStream'
  BY DEF CreditInv, NewStream, TaskSends
<1>6. Uploads' = Uploads
  BY <1>2, <1>3 DEF Uploads, InChunk
<1>7. Uploads' <= Uploads
  BY <1>1, <1>6, AccountTypes
<1>8. Responses' + response_credits <= Responses + response_credits'
  <2>1. Responses' = (permits - 1) + InFlight(up, "Credit") + (InFlight(down, "Data") + 1)
    BY <1>2, <1>3 DEF Responses
  <2> QED
    BY <1>1, <1>3, <2>1 DEF Responses, Numbers
<1>9. response_credits' + queued' <= BodyCapacity
  BY <1>3 DEF CreditInv, ResponseCreditBounded
<1> QED
  BY <1>4, <1>5, <1>7, <1>8, <1>9, AccountsSuffice

------------------------------------------------------------------------------
(* The frames that arrive                                                  *)

\* The weight of the oldest frame of a channel, one of each kind of credit.
LEMMA OldestFrame ==
  ASSUME NEW channel \in Seq(Frame), channel # <<>>
  PROVE  /\ Head(channel) \in Frame /\ Tail(channel) \in Seq(Frame)
         /\ InFlight(Tail(channel), "Data") \in Nat /\ InFlight(Tail(channel), "Credit") \in Nat
         /\ InFlight(Tail(channel), "Data") <= InFlight(channel, "Data")
         /\ InFlight(Tail(channel), "Credit") <= InFlight(channel, "Credit")
         /\ Head(channel).kind = "Data"
              => InFlight(channel, "Data") = InFlight(Tail(channel), "Data") + 1
         /\ Head(channel).kind = "Credit"
              => /\ Head(channel).credits \in 1 .. MaxStreamCredits
                 /\ InFlight(channel, "Credit")
                      = InFlight(Tail(channel), "Credit") + Head(channel).credits
<1>1. Head(channel) \in Frame /\ Tail(channel) \in Seq(Frame)
  BY TailInFlight
<1>2. InFlight(Tail(channel), "Data") \in Nat /\ InFlight(Tail(channel), "Credit") \in Nat
  BY <1>1, SlotsFinite
<1>3. PICK w \in Nat, v \in Nat : w = Weight(Head(channel), "Data")
                                  /\ v = Weight(Head(channel), "Credit")
  BY <1>1, FrameType, MaxType
<1>4. /\ InFlight(channel, "Data") = InFlight(Tail(channel), "Data") + w
      /\ InFlight(channel, "Credit") = InFlight(Tail(channel), "Credit") + v
  BY <1>3, TailInFlight
<1>5. Head(channel).kind = "Data" => w = 1
  BY <1>1, <1>3, FrameType DEF Weight
<1>6. Head(channel).kind = "Credit"
        => v = Head(channel).credits /\ Head(channel).credits \in 1 .. MaxStreamCredits
  BY <1>1, <1>3, FrameType, MaxType DEF Weight
<1> QED
  BY <1>1, <1>2, <1>3, <1>4, <1>5, <1>6

\* A frame that Electron drops, or that ends the stream.
LEMMA ReceiveQuiet ==
  ASSUME CreditInv, Receive,
         request_credits' = request_credits, response_credits' = response_credits,
         queued' \in {0, queued}, pump' = "writing" <=> pump = "writing", pump' \in Pumps,
         pending' \in {"live", "closed", "failed"}, head_resolved' \in BOOLEAN,
         UNCHANGED <<aborted, shown, written, end_written>>,
         up' = up \/ up' = Append(up, Plain("Cancel"))
  PROVE  CreditInv'
<1>1. TypeOK /\ Numbers
  BY NumbersType DEF CreditInv
<1>2. down \in Seq(Frame) /\ down # <<>> /\ down' = Tail(down)
  BY <1>1 DEF TypeOK, Receive
<1>3. UNCHANGED sidecarVars
  BY DEF Receive
<1>4. /\ down' \in Seq(Frame)
      /\ InFlight(down', "Data") <= InFlight(down, "Data")
      /\ InFlight(down', "Credit") <= InFlight(down, "Credit")
  BY <1>2, OldestFrame
<1>5. /\ up' \in Seq(Frame)
      /\ InFlight(up', "Data") = InFlight(up, "Data")
      /\ InFlight(up', "Credit") = InFlight(up, "Credit")
  BY <1>1, PlainUp DEF TypeOK
<1>6. TypeOK'
  BY <1>1, <1>3, <1>4, <1>5 DEF TypeOK
<1>7. active # "new"
  BY <1>2 DEF CreditInv, NewStream
<1>8. NewStream'
  BY <1>3, <1>7 DEF NewStream
<1>9. InChunk' = InChunk
  BY DEF InChunk
<1>10. queued' <= queued
  BY <1>1 DEF Numbers
<1>11. Quiet
  BY <1>1, <1>3, <1>4, <1>5, <1>9, <1>10 DEF Numbers, Quiet
<1> QED
  BY <1>6, <1>8, <1>11, QuietKeeps

\* Credits that arrive become chunks the pump may send.
LEMMA ReceiveCredits ==
  ASSUME CreditInv, Receive, Head(down).kind = "Credit",
         \/ /\ pump = "waiting" /\ pump' = "writing"
            /\ request_credits' = request_credits + (Head(down).credits - 1)
         \/ /\ pump # "waiting" /\ pump' = pump
            /\ request_credits' = request_credits + Head(down).credits,
         UNCHANGED <<pending, queued, up, aborted, head_resolved, response_credits, shown,
                     written, end_written>>
  PROVE  CreditInv'
<1>1. TypeOK /\ Numbers
  BY NumbersType DEF CreditInv
<1>2. down \in Seq(Frame) /\ down # <<>> /\ down' = Tail(down)
  BY <1>1 DEF TypeOK, Receive
<1>3. UNCHANGED sidecarVars
  BY DEF Receive
<1>4. PICK n \in 1 .. MaxStreamCredits : n = Head(down).credits
  BY <1>2, OldestFrame
<1>5. /\ down' \in Seq(Frame)
      /\ InFlight(Tail(down), "Data") \in Nat /\ InFlight(Tail(down), "Credit") \in Nat
      /\ InFlight(Tail(down), "Data") <= InFlight(down, "Data")
      /\ InFlight(down, "Credit") = InFlight(Tail(down), "Credit") + n
  BY <1>2, <1>4, OldestFrame
<1>6. PICK c \in Nat : c = request_credits' /\ c + InChunk' = request_credits + InChunk + n
                       /\ InChunk' \in {0, 1}
  BY <1>1, <1>4, MaxType DEF Numbers, InChunk
<1>7. TypeOK'
  BY <1>1, <1>3, <1>5, <1>6 DEF TypeOK, Pumps
<1>8. NewStream'
  BY <1>2, <1>3 DEF CreditInv, NewStream
<1>9. Uploads' <= Uploads
  <2>1. PICK i \in {0, 1} : i = InChunk'
    BY <1>6
  <2>2. Uploads' = c + i + InFlight(up, "Data") + input + granted + InFlight(Tail(down), "Credit")
    BY <1>2, <1>3, <1>6, <2>1 DEF Uploads
  <2>3. PICK a \in Nat, b \in Nat, d \in Nat, e \in Nat, f \in Nat, g \in Nat :
          /\ a = request_credits /\ b = InChunk /\ d = InFlight(up, "Data")
          /\ e = input /\ f = granted /\ g = InFlight(Tail(down), "Credit")
    BY <1>1, <1>5 DEF Numbers
  <2>4. c + i = a + b + n
    BY <1>6, <2>1, <2>3
  <2>5. Uploads = a + b + d + e + f + (g + n)
    BY <1>5, <2>3 DEF Uploads
  <2>6. c + i + d + e + f + g <= a + b + d + e + f + (g + n)
    BY <1>4, <2>4, MaxType
  <2> QED
    BY <2>2, <2>3, <2>5, <2>6
<1>10. Responses' + response_credits <= Responses + response_credits'
  <2>1. Responses' = permits + InFlight(up, "Credit") + InFlight(Tail(down), "Data")
    BY <1>2, <1>3 DEF Responses
  <2> QED
    BY <1>1, <1>5, <2>1 DEF Responses, Numbers
<1>11. response_credits' + queued' <= BodyCapacity
  BY DEF CreditInv, ResponseCreditBounded
<1> QED
  BY <1>7, <1>8, <1>9, <1>10, <1>11, AccountsSuffice

\* A chunk that arrives takes its credit with it.
LEMMA ReceiveChunk ==
  ASSUME CreditInv, Receive, Head(down).kind = "Data",
         response_credits > 0, response_credits' = response_credits - 1,
         queued' = queued + 1, shown' = shown + 1,
         UNCHANGED <<pending, pump, up, aborted, head_resolved, pumpVars>>
  PROVE  CreditInv'
<1>1. TypeOK /\ Numbers
  BY NumbersType DEF CreditInv
<1>2. down \in Seq(Frame) /\ down # <<>> /\ down' = Tail(down)
  BY <1>1 DEF TypeOK, Receive
<1>3. UNCHANGED sidecarVars
  BY DEF Receive
<1>4. /\ down' \in Seq(Frame)
      /\ InFlight(Tail(down), "Data") \in Nat /\ InFlight(Tail(down), "Credit") \in Nat
      /\ InFlight(Tail(down), "Credit") <= InFlight(down, "Credit")
      /\ InFlight(down, "Data") = InFlight(Tail(down), "Data") + 1
  BY <1>2, OldestFrame
<1>5. TypeOK'
  BY <1>1, <1>3, <1>4 DEF TypeOK
<1>6. NewStream'
  BY <1>2, <1>3 DEF CreditInv, NewStream
<1>7. Uploads' <= Uploads
  <2>1. Uploads' = request_credits + InChunk + InFlight(up, "Data") + input + granted
                     + InFlight(Tail(down), "Credit")
    BY <1>2, <1>3 DEF Uploads, InChunk
  <2> QED
    BY <1>1, <1>4, <2>1 DEF Uploads, Numbers
<1>8. Responses' + response_credits <= Responses + response_credits'
  <2>1. Responses' = permits + InFlight(up, "Credit") + InFlight(Tail(down), "Data")
    BY <1>2, <1>3 DEF Responses
  <2> QED
    BY <1>1, <1>4, <2>1 DEF Responses, Numbers
<1>9. response_credits' + queued' <= BodyCapacity
  <2>1. response_credits + queued <= BodyCapacity
    BY DEF CreditInv, ResponseCreditBounded
  <2> QED
    BY <1>1, <2>1 DEF Numbers
<1> QED
  BY <1>5, <1>6, <1>7, <1>8, <1>9, AccountsSuffice

LEMMA ReceiveKeeps == ASSUME CreditInv, Receive PROVE CreditInv'
<1>1. TypeOK
  BY DEF CreditInv
<1>2. CASE pending # "live"
  <2>1. UNCHANGED <<electronVars, up>>
    BY <1>2 DEF Receive
  <2> QED
    BY <1>1, <2>1, ReceiveQuiet DEF TypeOK
<1>3. CASE pending = "live" /\ Head(down).kind = "Credit"
  <2>1. /\ AddRequestCredits(Head(down).credits)
        /\ UNCHANGED <<aborted, head_resolved, response_credits, shown, written, end_written>>
    BY <1>3 DEF Receive
  <2>2. CASE Settle("failed") /\ up' = Append(up, Plain("Cancel")) /\ UNCHANGED request_credits
    BY <1>1, <2>1, <2>2, ReceiveQuiet DEF TypeOK, Settle, Pumps
  <2>3. CASE ~ (Settle("failed") /\ up' = Append(up, Plain("Cancel")) /\ UNCHANGED request_credits)
    BY <1>3, <2>1, <2>3, ReceiveCredits DEF AddRequestCredits
  <2> QED
    BY <2>2, <2>3
<1>4. CASE pending = "live" /\ Head(down).kind = "Data"
  <2>1. ReceiveData /\ UNCHANGED <<aborted, head_resolved, pumpVars>>
    BY <1>4 DEF Receive
  <2>2. CASE response_credits > 0
    BY <1>4, <2>1, <2>2, ReceiveChunk DEF ReceiveData
  <2>3. CASE ~ (response_credits > 0)
    BY <1>1, <2>1, <2>3, ReceiveQuiet DEF TypeOK, ReceiveData, Settle, Pumps
  <2> QED
    BY <2>2, <2>3
<1>5. CASE pending = "live" /\ Head(down).kind \notin {"Credit", "Data"}
  BY <1>1, <1>5, ReceiveQuiet DEF TypeOK, Receive, Settle, Pumps
<1> QED
  BY <1>2, <1>3, <1>4, <1>5

\* A frame the reader takes changes nothing at Electron, and is the first of all
\* frames when the entry is new.
LEMMA Handled ==
  ASSUME CreditInv, Handle
  PROVE  /\ up \in Seq(Frame) /\ up # <<>> /\ up' = Tail(up) /\ UNCHANGED electronVars
         /\ active = "new" => Head(up).kind = "Request"
BY DEF CreditInv, TypeOK, Handle, NewStream, Plain

\* A frame that moves no credit into the sidecar.
LEMMA HandleQuiet ==
  ASSUME CreditInv, Handle, active # "new", active' \in {"live", "gone"},
         accepting' \in BOOLEAN, closed' \in BOOLEAN, cancel' \in BOOLEAN,
         UNCHANGED <<permits, input, task, granted, events, runVars>>,
         down' = down \/ down' = Append(down, Plain("Cancel"))
  PROVE  CreditInv'
<1>1. TypeOK /\ Numbers
  BY NumbersType DEF CreditInv
<1>2. up \in Seq(Frame) /\ up # <<>> /\ up' = Tail(up) /\ UNCHANGED electronVars
  BY Handled
<1>3. /\ up' \in Seq(Frame)
      /\ InFlight(up', "Data") <= InFlight(up, "Data")
      /\ InFlight(up', "Credit") <= InFlight(up, "Credit")
  BY <1>2, OldestFrame
<1>4. /\ down' \in Seq(Frame)
      /\ InFlight(down', "Data") = InFlight(down, "Data")
      /\ InFlight(down', "Credit") = InFlight(down, "Credit")
  BY <1>1, PlainInFlight DEF TypeOK
<1>5. TypeOK'
  BY <1>1, <1>2, <1>3, <1>4 DEF TypeOK
<1>6. NewStream'
  BY DEF NewStream
<1>7. InChunk' = InChunk
  BY <1>2 DEF InChunk
<1>8. Quiet
  BY <1>1, <1>2, <1>3, <1>4, <1>7 DEF Numbers, Quiet
<1> QED
  BY <1>5, <1>6, <1>8, QuietKeeps

\* A chunk goes from the channel into the input channel.
LEMMA HandleChunk ==
  ASSUME CreditInv, Handle, Head(up).kind = "Data", active # "new", input' = input + 1,
         UNCHANGED <<entryVars, down, task, granted, events, runVars>>
  PROVE  CreditInv'
<1>1. TypeOK /\ Numbers
  BY NumbersType DEF CreditInv
<1>2. up \in Seq(Frame) /\ up # <<>> /\ up' = Tail(up) /\ UNCHANGED electronVars
  BY Handled
<1>3. /\ up' \in Seq(Frame)
      /\ InFlight(Tail(up), "Data") \in Nat /\ InFlight(Tail(up), "Credit") \in Nat
      /\ InFlight(up, "Data") = InFlight(Tail(up), "Data") + 1
      /\ InFlight(Tail(up), "Credit") <= InFlight(up, "Credit")
  BY <1>2, OldestFrame
<1>4. TypeOK'
  BY <1>1, <1>2, <1>3 DEF TypeOK
<1>5. NewStream'
  BY DEF NewStream
<1>6. Uploads' <= Uploads
  <2>1. Uploads' = request_credits + InChunk + InFlight(Tail(up), "Data") + (input + 1)
                     + granted + InFlight(down, "Credit")
    BY <1>2 DEF Uploads, InChunk
  <2> QED
    BY <1>1, <1>3, <2>1 DEF Uploads, Numbers
<1>7. Responses' + response_credits <= Responses + response_credits'
  <2>1. Responses' = permits + InFlight(Tail(up), "Credit") + InFlight(down, "Data")
    BY <1>2 DEF Responses
  <2> QED
    BY <1>1, <1>2, <1>3, <2>1 DEF Responses, Numbers
<1>8. response_credits' + queued' <= BodyCapacity
  BY <1>2 DEF CreditInv, ResponseCreditBounded
<1> QED
  BY <1>4, <1>5, <1>6, <1>7, <1>8, AccountsSuffice

\* A grant of Electron becomes permits of the semaphore.
LEMMA HandleGrant ==
  ASSUME CreditInv, Handle, Head(up).kind = "Credit", active # "new",
         permits' = permits + Head(up).credits,
         UNCHANGED <<active, accepting, closed, cancel, down, input, task, granted, events, runVars>>
  PROVE  CreditInv'
<1>1. TypeOK /\ Numbers
  BY NumbersType DEF CreditInv
<1>2. up \in Seq(Frame) /\ up # <<>> /\ up' = Tail(up) /\ UNCHANGED electronVars
  BY Handled
<1>3. PICK n \in 1 .. MaxStreamCredits : n = Head(up).credits
  BY <1>2, OldestFrame
<1>4. /\ up' \in Seq(Frame)
      /\ InFlight(Tail(up), "Data") \in Nat /\ InFlight(Tail(up), "Credit") \in Nat
      /\ InFlight(Tail(up), "Data") <= InFlight(up, "Data")
      /\ InFlight(up, "Credit") = InFlight(Tail(up), "Credit") + n
  BY <1>2, <1>3, OldestFrame
<1>5. TypeOK'
  BY <1>1, <1>2, <1>3, <1>4, MaxType DEF TypeOK
<1>6. NewStream'
  BY DEF NewStream
<1>7. Uploads' <= Uploads
  <2>1. Uploads' = request_credits + InChunk + InFlight(Tail(up), "Data") + input
                     + granted + InFlight(down, "Credit")
    BY <1>2 DEF Uploads, InChunk
  <2> QED
    BY <1>1, <1>4, <2>1 DEF Uploads, Numbers
<1>8. Responses' + response_credits <= Responses + response_credits'
  <2>1. Responses' = (permits + n) + InFlight(Tail(up), "Credit") + InFlight(down, "Data")
    BY <1>2, <1>3 DEF Responses
  <2>2. PICK a \in Nat, b \in Nat, c \in Nat :
          /\ a = permits /\ b = InFlight(Tail(up), "Credit") /\ c = InFlight(down, "Data")
    BY <1>1, <1>4 DEF Numbers
  <2>3. (a + n) + b + c = a + (b + n) + c
    BY MaxType
  <2>4. Responses' = Responses
    BY <1>4, <2>1, <2>2, <2>3 DEF Responses
  <2>5. Responses \in Nat /\ response_credits \in Nat
    BY <1>1, AccountTypes DEF Numbers
  <2> QED
    BY <1>2, <2>4, <2>5
<1>9. response_credits' + queued' <= BodyCapacity
  BY <1>2 DEF CreditInv, ResponseCreditBounded
<1> QED
  BY <1>5, <1>6, <1>7, <1>8, <1>9, AccountsSuffice

\* The first grant starts the account of the upload.
LEMMA HandleRequestKeeps == ASSUME CreditInv, Handle, HandleRequest PROVE CreditInv'
<1>1. TypeOK /\ Numbers
  BY NumbersType DEF CreditInv
<1>2. up \in Seq(Frame) /\ up # <<>> /\ up' = Tail(up) /\ UNCHANGED electronVars
  BY Handled
<1>3. /\ up' \in Seq(Frame)
      /\ InFlight(Tail(up), "Data") \in Nat
      /\ InFlight(Tail(up), "Data") <= InFlight(up, "Data")
      /\ InFlight(up', "Credit") <= InFlight(up, "Credit")
  BY <1>2, OldestFrame
<1>4. /\ request_credits = 0 /\ InChunk = 0 /\ InFlight(up, "Data") = 0
      /\ input = 0 /\ granted = 0 /\ down = <<>>
  BY DEF CreditInv, NewStream, HandleRequest, InChunk
<1>5. InFlight(down, "Data") = 0 /\ InFlight(down, "Credit") = 0
  BY <1>4, EmptyInFlight
<1>6. InputCapacity \in 1 .. MaxStreamCredits
  BY SidecarAssumption
<1>7. /\ down' \in Seq(Frame)
      /\ InFlight(down', "Data") = 0
      /\ InFlight(down', "Credit") \in {0, InputCapacity}
  <2>1. down \in Seq(Frame)
    BY <1>1 DEF TypeOK
  <2>2. \/ down' = down
        \/ down' = Append(down, Credit(InputCapacity))
        \/ down' = Append(down, Plain("Failure"))
    BY DEF HandleRequest, Answer
  <2>3. CASE down' = Append(down, Credit(InputCapacity))
    <3>1. InFlight(down', "Credit") = 0 + InputCapacity
      BY <1>5, <1>6, <2>1, <2>3, CreditInFlight
    <3> QED
      BY <1>1, <1>5, <1>6, <2>1, <2>3, <3>1, CreditInFlight DEF Numbers
  <2>4. CASE down' = Append(down, Plain("Failure"))
    BY <1>5, <2>1, <2>4, PlainInFlight
  <2> QED
    BY <1>5, <2>1, <2>2, <2>3, <2>4
<1>8. /\ active' \in {"live", "gone"} /\ accepting' \in BOOLEAN
      /\ run' \in Runs /\ task' \in {"none", "receiving", "holding", "finishing", "done"}
      /\ UNCHANGED <<permits, closed, cancel, input, granted, events, request_finished, verdict,
                     taken, produced>>
  BY <1>1 DEF HandleRequest, TypeOK, Runs
<1>9. TypeOK'
  BY <1>1, <1>2, <1>3, <1>7, <1>8 DEF TypeOK
<1>10. NewStream'
  BY <1>8 DEF NewStream
<1>11. Uploads = 0 /\ Uploads' <= InputCapacity
  <2>1. InFlight(Tail(up), "Data") = 0
    BY <1>3, <1>4
  <2>2. Uploads' = 0 + 0 + 0 + 0 + 0 + InFlight(down', "Credit")
    BY <1>2, <1>4, <1>8, <2>1 DEF Uploads, InChunk
  <2>3. Uploads' = 0 \/ Uploads' = InputCapacity
    BY <1>1, <1>7, <2>2 DEF Numbers
  <2> QED
    BY <1>1, <1>4, <1>5, <2>3 DEF Uploads, Numbers
<1>12. Responses' + response_credits <= Responses + response_credits'
  <2>1. PICK a \in Nat, b \in Nat, c \in Nat, d \in Nat :
          /\ a = permits /\ b = InFlight(up, "Credit") /\ c = response_credits
          /\ d = InFlight(up', "Credit") /\ d <= b
    BY <1>1, <1>2, <1>3, OldestFrame DEF Numbers
  <2>2. a + d + 0 + c <= a + b + 0 + c
    BY <2>1
  <2> QED
    BY <1>2, <1>5, <1>7, <1>8, <2>1, <2>2 DEF Responses
<1>13. response_credits' + queued' <= BodyCapacity
  BY <1>2 DEF CreditInv, ResponseCreditBounded
<1> QED
  BY <1>9, <1>10, <1>11, <1>12, <1>13, AccountsSuffice

LEMMA HandleKeeps == ASSUME CreditInv, Handle PROVE CreditInv'
<1>1. TypeOK
  BY DEF CreditInv
<1>2. CASE HandleRequest
  BY <1>2, HandleRequestKeeps
<1>3. ASSUME Head(up).kind # "Request"
      PROVE  active \in {"live", "gone"} /\ active # "new"
  BY <1>1, <1>3, Handled DEF TypeOK
<1>4. CASE HandleData
  <2>1. Head(up).kind = "Data" /\ active \in {"live", "gone"} /\ active # "new"
    BY <1>3, <1>4 DEF HandleData
  <2>2. CASE input' = input + 1 /\ UNCHANGED <<entryVars, down>>
    BY <1>4, <2>1, <2>2, HandleChunk DEF HandleData
  <2>3. CASE ~ (input' = input + 1 /\ UNCHANGED <<entryVars, down>>)
    <3>1. /\ active' \in {"live", "gone"} /\ accepting' \in BOOLEAN /\ closed' \in BOOLEAN
          /\ cancel' \in BOOLEAN
          /\ UNCHANGED <<permits, input, task, granted, events, runVars>>
          /\ down' = Append(down, Plain("Cancel"))
      BY <1>1, <1>4, <2>1, <2>3 DEF HandleData, Remove, Answer, TypeOK
    <3> QED
      BY <2>1, <3>1, HandleQuiet
  <2> QED
    BY <2>2, <2>3
<1>5. CASE HandleEnd
  <2>1. active \in {"live", "gone"} /\ active # "new"
    BY <1>3, <1>5 DEF HandleEnd
  <2> QED
    BY <1>1, <1>5, <2>1, HandleQuiet DEF HandleEnd, Answer, TypeOK
<1>6. CASE HandleCredit
  <2>1. Head(up).kind = "Credit" /\ active \in {"live", "gone"} /\ active # "new"
    BY <1>3, <1>6 DEF HandleCredit
  <2>2. CASE permits' = permits + Head(up).credits /\ UNCHANGED <<closed, down>>
    BY <1>6, <2>1, <2>2, HandleGrant DEF HandleCredit
  <2>3. CASE ~ (permits' = permits + Head(up).credits /\ UNCHANGED <<closed, down>>)
    <3>1. /\ active' \in {"live", "gone"} /\ accepting' \in BOOLEAN /\ closed' \in BOOLEAN
          /\ cancel' \in BOOLEAN
          /\ UNCHANGED <<permits, input, task, granted, events, runVars>>
          /\ down' = Append(down, Plain("Cancel"))
      BY <1>1, <1>6, <2>1, <2>3 DEF HandleCredit, Answer, TypeOK
    <3> QED
      BY <2>1, <3>1, HandleQuiet
  <2> QED
    BY <2>2, <2>3
<1>7. CASE HandleCancel
  <2>1. active \in {"live", "gone"} /\ active # "new"
    BY <1>3, <1>7 DEF HandleCancel
  <2> QED
    BY <1>1, <1>7, <2>1, HandleQuiet DEF HandleCancel, Remove, TypeOK
<1> QED
  BY <1>2, <1>4, <1>5, <1>6, <1>7 DEF Handle

------------------------------------------------------------------------------
(* The theorems                                                            *)

LEMMA StepKeeps == CreditInv /\ [Next]_vars => CreditInv'
<1> SUFFICES ASSUME CreditInv, [Next]_vars PROVE CreditInv'
  OBVIOUS
<1>1. CASE Next
  BY <1>1, PumpReadsKeeps, PumpWritesKeeps, ElectronEndsKeeps, GrantKeeps, PageReadsKeeps,
     ReceiveKeeps, HandleKeeps, ForwardKeeps, TaskForwardsKeeps, TaskSendsKeeps, TaskKeeps,
     TransactionKeeps, RunTakesKeeps DEF Next
<1>2. CASE UNCHANGED vars
  BY <1>2 DEF vars, CreditInv, TypeOK, NewStream, UploadCreditBounded, ResponseCreditBounded
<1> QED
  BY <1>1, <1>2

LEMMA CreditInvariant == Spec => []CreditInv
BY InitCredit, StepKeeps, PTL DEF Spec

\* Every variable of the two processes keeps its type, and the counters of
\* credits never become negative, whatever the capacities.
THEOREM SidecarTypes == Spec => []TypeOK
BY CreditInvariant, PTL DEF CreditInv

\* Upload credit is conserved: the first grant of start_http_request is all there
\* is of it, so no interleaving of pumpRequestBody, serve_connection and
\* forward_request_credits overruns the request input channel.
THEOREM UploadsBounded == Spec => []UploadCreditBounded
BY CreditInvariant, PTL DEF CreditInv

\* Response credit is conserved between grantResponseCredits, the semaphore of the
\* stream and the chunks on their way to the page.
THEOREM ResponsesBounded == Spec => []ResponseCreditBounded
BY CreditInvariant, PTL DEF CreditInv

------------------------------------------------------------------------------
(* How a stream ends                                                       *)

Carries(channel, kinds) == \E i \in DOMAIN channel : channel[i].kind \in kinds

\* Nothing of these kinds comes after an End frame.
EndsWith(channel, kinds) ==
  \A i, j \in DOMAIN channel : i < j /\ channel[i].kind = "End" => channel[j].kind \notin kinds

\* What cuts a stream off has been sent behind its End frame.
Covered(channel) ==
  \A j \in DOMAIN channel : channel[j].kind \in {"Cancel", "Failure"} =>
    \E i \in DOMAIN channel : i < j /\ channel[i].kind = "End"

\* The stream was refused, so there is no transaction.
Refused == active = "gone" /\ run = "none"

\* The page cannot expect a success any more.
Doomed == aborted \/ verdict = "error" \/ Refused

EndSent == pending = "closed" \/ Carries(down, {"End"})

\* The entry of the sidecar follows the Request frame, the transaction the entry.
EntryInv ==
  /\ accepting => active = "live" /\ ~ request_finished
  /\ run # "none" => active # "new"
  /\ active = "live" => run # "none"
  /\ verdict = "none" <=> run \notin {"ending", "over"}
  /\ verdict = "ok" => request_finished /\ produced > 0

\* Unless it was cancelled or refused, a request loses no chunk, and what the
\* sidecar takes for its end is the End frame behind the last one.
UploadInv ==
  /\ end_written => pump = "done"
  /\ Carries(up, {"End"}) => end_written
  /\ EndsWith(up, {"Data", "End"})
  /\ active = "new" /\ request_finished => end_written /\ ~ Carries(up, {"Data", "End"})
  /\ ~ cancel /\ ~ Refused => written = taken + input + InFlight(up, "Data")
  /\ ~ cancel /\ ~ Refused /\ active # "new" /\ ~ accepting =>
       end_written /\ ~ Carries(up, {"Data", "End"})
  /\ request_finished => cancel \/ (end_written /\ taken = written)

\* The response events: the head comes first, and the terminal event ends them.
EventsInv ==
  /\ \A i \in DOMAIN events :
       /\ events[i] = "Head" => i = 1
       /\ events[i] \in {"End", "Error"} => i = Len(events) /\ run = "over"
       /\ events[i] = "End" => verdict = "ok"
       /\ events[i] = "Error" => verdict = "error"
       /\ produced = 0 => events[i] \in {"End", "Error"}
  /\ run = "over" /\ events # <<>> => events[Len(events)] \in {"End", "Error"}
  /\ task = "done" => events = <<>>
  /\ active = "new" => events = <<>> /\ produced = 0 /\ shown = 0

HeadWaits == IF events # <<>> /\ Head(events) = "Head" THEN 1 ELSE 0
LastWaits == IF events # <<>> /\ run = "over" THEN 1 ELSE 0
Held == IF task = "holding" THEN 1 ELSE 0

\* Chunks of the response that are shown or on their way.
Downloads ==
  shown + InFlight(down, "Data") + Held + Len(events) - HeadWaits - LastWaits

\* As long as the page may still see the end of the response, no chunk is lost.
ResponseInv ==
  /\ Carries(down, {"End"}) \/ pending = "closed" =>
       run = "over" /\ verdict = "ok" /\ events = <<>> /\ task \in {"finishing", "done"}
  /\ EndsWith(down, {"Response", "Data", "End"})
  /\ pending = "live" /\ (task \in {"receiving", "holding"} \/ Carries(down, {"End"})) =>
       /\ Downloads = IF produced = 0 THEN 0 ELSE produced - 1
       /\ produced > 0 => head_resolved \/ Carries(down, {"Response"}) \/ HeadWaits = 1
  /\ pending = "closed" => head_resolved /\ shown + 1 = produced

\* A cancellation has a reason: the page gave up, the transaction failed, or the
\* End frame comes first.
ReasonInv ==
  /\ pending = "failed" => Doomed
  /\ Doomed \/ pending # "live" \/ Covered(down)
  /\ cancel \/ closed \/ active = "gone" \/ task \in {"finishing", "done"} => Doomed \/ EndSent
  /\ Carries(up, {"Cancel"}) => Doomed

EndsInv == EntryInv /\ UploadInv /\ EventsInv /\ ResponseInv /\ ReasonInv

------------------------------------------------------------------------------
(* Frames in a channel                                                     *)

LEMMA EmptyCarries ==
  ASSUME NEW kinds
  PROVE  ~ Carries(<<>>, kinds) /\ EndsWith(<<>>, kinds) /\ Covered(<<>>)
BY DEF Carries, EndsWith, Covered

\* The indices of a channel that grows, or loses its oldest frame.
LEMMA Indices ==
  ASSUME NEW channel \in Seq(Frame), NEW f \in Frame
  PROVE  /\ Len(channel) \in Nat /\ DOMAIN channel = 1 .. Len(channel)
         /\ DOMAIN Append(channel, f) = 1 .. (Len(channel) + 1)
         /\ Append(channel, f)[Len(channel) + 1] = f
         /\ \A i \in 1 .. Len(channel) : Append(channel, f)[i] = channel[i]
         /\ channel # <<>> =>
              /\ Len(channel) >= 1 /\ channel[1] = Head(channel)
              /\ Tail(channel) \in Seq(Frame)
              /\ DOMAIN Tail(channel) = 1 .. (Len(channel) - 1)
              /\ \A i \in 1 .. (Len(channel) - 1) : Tail(channel)[i] = channel[i + 1]
<1>1. /\ Len(channel) \in Nat /\ DOMAIN channel = 1 .. Len(channel)
      /\ Append(channel, f) \in Seq(Frame) /\ Len(Append(channel, f)) = Len(channel) + 1
  OBVIOUS
<1>2. DOMAIN Append(channel, f) = 1 .. (Len(channel) + 1)
  BY <1>1
<1>3. /\ Append(channel, f)[Len(channel) + 1] = f
      /\ \A i \in 1 .. Len(channel) : Append(channel, f)[i] = channel[i]
  BY <1>1
<1>4. ASSUME channel # <<>>
      PROVE  /\ Len(channel) >= 1 /\ channel[1] = Head(channel)
             /\ Tail(channel) \in Seq(Frame)
             /\ DOMAIN Tail(channel) = 1 .. (Len(channel) - 1)
             /\ \A i \in 1 .. (Len(channel) - 1) : Tail(channel)[i] = channel[i + 1]
  <2>1. Len(channel) >= 1 /\ channel[1] = Head(channel)
    BY <1>4
  <2>2. Tail(channel) \in Seq(Frame) /\ Len(Tail(channel)) = Len(channel) - 1
    BY <1>4
  <2>3. \A i \in 1 .. (Len(channel) - 1) : Tail(channel)[i] = channel[i + 1]
    BY <1>4
  <2> QED
    BY <2>1, <2>2, <2>3
<1> QED
  BY <1>1, <1>2, <1>3, <1>4

LEMMA AppendCarries ==
  ASSUME NEW channel \in Seq(Frame), NEW f \in Frame
  PROVE  /\ \A kinds : Carries(Append(channel, f), kinds)
                         <=> Carries(channel, kinds) \/ f.kind \in kinds
         /\ \A kinds : EndsWith(Append(channel, f), kinds)
                         <=> /\ EndsWith(channel, kinds)
                             /\ Carries(channel, {"End"}) => f.kind \notin kinds
         /\ Covered(Append(channel, f))
              <=> /\ Covered(channel)
                  /\ f.kind \in {"Cancel", "Failure"} => Carries(channel, {"End"})
<1> DEFINE n == Len(channel)
           more == Append(channel, f)
<1>1. /\ n \in Nat /\ DOMAIN channel = 1 .. n
      /\ DOMAIN more = 1 .. (n + 1) /\ more[n + 1] = f
      /\ \A i \in 1 .. n : more[i] = channel[i]
  BY Indices
<1> HIDE DEF n, more
<1>2. ASSUME NEW kinds PROVE Carries(more, kinds) <=> Carries(channel, kinds) \/ f.kind \in kinds
  BY <1>1 DEF Carries
<1>3. ASSUME NEW kinds
      PROVE  EndsWith(more, kinds) <=> /\ EndsWith(channel, kinds)
                                       /\ Carries(channel, {"End"}) => f.kind \notin kinds
  <2>1. ASSUME EndsWith(more, kinds)
        PROVE  EndsWith(channel, kinds) /\ (Carries(channel, {"End"}) => f.kind \notin kinds)
    BY <1>1, <2>1 DEF EndsWith, Carries
  <2>2. ASSUME EndsWith(channel, kinds), Carries(channel, {"End"}) => f.kind \notin kinds,
               NEW i \in DOMAIN more, NEW j \in DOMAIN more, i < j, more[i].kind = "End"
        PROVE  more[j].kind \notin kinds
    BY <1>1, <2>2 DEF EndsWith, Carries
  <2> QED
    BY <2>1, <2>2 DEF EndsWith
<1>4. Covered(more) <=> /\ Covered(channel)
                        /\ f.kind \in {"Cancel", "Failure"} => Carries(channel, {"End"})
  <2>1. ASSUME Covered(more), NEW j \in DOMAIN channel, channel[j].kind \in {"Cancel", "Failure"}
        PROVE  \E i \in DOMAIN channel : i < j /\ channel[i].kind = "End"
    BY <1>1, <2>1 DEF Covered
  <2>2. ASSUME Covered(more), f.kind \in {"Cancel", "Failure"}
        PROVE  Carries(channel, {"End"})
    BY <1>1, <2>2 DEF Covered, Carries
  <2>3. ASSUME Covered(channel),
               f.kind \in {"Cancel", "Failure"} => Carries(channel, {"End"}),
               NEW j \in DOMAIN more, more[j].kind \in {"Cancel", "Failure"}
        PROVE  \E i \in DOMAIN more : i < j /\ more[i].kind = "End"
    <3>1. CASE j = n + 1
      BY <1>1, <2>3, <3>1 DEF Carries
    <3>2. CASE j # n + 1
      BY <1>1, <2>3, <3>2 DEF Covered
    <3> QED
      BY <3>1, <3>2
  <2> QED
    BY <2>1, <2>2, <2>3 DEF Covered
<1> QED
  BY <1>2, <1>3, <1>4 DEF more

LEMMA TailCarries ==
  ASSUME NEW channel \in Seq(Frame), channel # <<>>
  PROVE  /\ \A kinds : Carries(channel, kinds)
                         <=> Head(channel).kind \in kinds \/ Carries(Tail(channel), kinds)
         /\ \A kinds : EndsWith(channel, kinds) =>
              /\ EndsWith(Tail(channel), kinds)
              /\ Head(channel).kind = "End" => ~ Carries(Tail(channel), kinds)
         /\ Covered(channel) =>
              /\ Head(channel).kind \notin {"Cancel", "Failure"}
              /\ Head(channel).kind # "End" => Covered(Tail(channel))
<1> DEFINE n == Len(channel)
           rest == Tail(channel)
           first == Head(channel)
<1>1. first \in Frame
  OBVIOUS
<1>2. /\ n \in Nat /\ n >= 1 /\ DOMAIN channel = 1 .. n /\ channel[1] = first
      /\ DOMAIN rest = 1 .. (n - 1)
      /\ \A i \in 1 .. (n - 1) : rest[i] = channel[i + 1]
  BY <1>1, Indices
<1>3. \A i \in 1 .. n : i = 1 \/ (i - 1 \in 1 .. (n - 1) /\ rest[i - 1] = channel[i])
  BY <1>2
<1> HIDE DEF n, rest, first
<1>4. ASSUME NEW kinds
      PROVE  Carries(channel, kinds) <=> first.kind \in kinds \/ Carries(rest, kinds)
  <2>1. ASSUME Carries(channel, kinds) PROVE first.kind \in kinds \/ Carries(rest, kinds)
    BY <1>2, <1>3, <2>1 DEF Carries
  <2>2. ASSUME first.kind \in kinds \/ Carries(rest, kinds) PROVE Carries(channel, kinds)
    BY <1>2, <2>2 DEF Carries
  <2> QED
    BY <2>1, <2>2
<1>5. ASSUME NEW kinds, EndsWith(channel, kinds)
      PROVE  EndsWith(rest, kinds) /\ (first.kind = "End" => ~ Carries(rest, kinds))
  <2>1. ASSUME NEW i \in DOMAIN rest, NEW j \in DOMAIN rest, i < j, rest[i].kind = "End"
        PROVE  rest[j].kind \notin kinds
    BY <1>2, <1>5, <2>1 DEF EndsWith
  <2>2. ASSUME first.kind = "End", NEW j \in DOMAIN rest PROVE rest[j].kind \notin kinds
    BY <1>2, <1>5, <2>2 DEF EndsWith
  <2> QED
    BY <2>1, <2>2 DEF EndsWith, Carries
<1>6. ASSUME Covered(channel)
      PROVE  /\ first.kind \notin {"Cancel", "Failure"}
             /\ first.kind # "End" => Covered(rest)
  <2>1. first.kind \notin {"Cancel", "Failure"}
    BY <1>2, <1>6 DEF Covered
  <2>2. ASSUME first.kind # "End", NEW j \in DOMAIN rest, rest[j].kind \in {"Cancel", "Failure"}
        PROVE  \E i \in DOMAIN rest : i < j /\ rest[i].kind = "End"
    <3>1. j + 1 \in DOMAIN channel /\ channel[j + 1] = rest[j]
      BY <1>2, <2>2
    <3>2. PICK i \in DOMAIN channel : i < j + 1 /\ channel[i].kind = "End"
      BY <1>6, <2>2, <3>1 DEF Covered
    <3>3. i # 1
      BY <1>2, <2>2, <3>2
    <3>4. i - 1 \in DOMAIN rest /\ i - 1 < j /\ rest[i - 1].kind = "End"
      BY <1>2, <1>3, <2>2, <3>2, <3>3
    <3> QED
      BY <3>4
  <2> QED
    BY <2>1, <2>2 DEF Covered
<1> QED
  BY <1>4, <1>5, <1>6 DEF rest, first

\* Without a frame of data there is no credit in one.
LEMMA NoDataInFlight ==
  ASSUME NEW channel \in Seq(Frame), ~ Carries(channel, {"Data"})
  PROVE  InFlight(channel, "Data") = 0
<1>1. Slots(channel, "Data") = {}
  BY DEF Slots, Carries
<1> QED
  BY <1>1, SlotsFinite, FS_EmptySet

------------------------------------------------------------------------------
(* What a part of the invariant depends on                                 *)

LEMMA SameEntry ==
  ASSUME EntryInv, UNCHANGED <<accepting, active, request_finished, run, verdict, produced>>
  PROVE  EntryInv'
BY DEF EntryInv

LEMMA SameUpload ==
  ASSUME UploadInv,
         UNCHANGED <<end_written, written, pump, up, active, accepting, cancel, run, taken, input,
                     request_finished>>
  PROVE  UploadInv'
BY DEF UploadInv, Refused

LEMMA SameEvents ==
  ASSUME EventsInv, UNCHANGED <<events, run, verdict, task, active, produced, shown>>
  PROVE  EventsInv'
BY DEF EventsInv

LEMMA SameResponse ==
  ASSUME ResponseInv,
         UNCHANGED <<down, pending, head_resolved, shown, events, run, verdict, task, produced>>
  PROVE  ResponseInv'
BY DEF ResponseInv, Downloads, Held, HeadWaits, LastWaits

LEMMA SameReason ==
  ASSUME ReasonInv,
         UNCHANGED <<up, down, pending, aborted, active, cancel, closed, task, run, verdict>>
  PROVE  ReasonInv'
BY DEF ReasonInv, Doomed, Refused, EndSent

------------------------------------------------------------------------------
(* Steps that leave the channels alone                                     *)

LEMMA CalmEnds ==
  ASSUME CreditInv, EndsInv,
         \/ PumpReads \/ PageReads \/ TaskStops
         \/ RunOpens \/ RunOffers \/ RunTakes \/ RunFinishesInput
         \/ RunSucceeds \/ RunFails \/ RunDisconnects
  PROVE  EndsInv'
<1> USE DEF PumpReads, PageReads, TaskStops, RunOpens, RunOffers, RunTakes, RunFinishesInput,
            RunSucceeds, RunFails, RunDisconnects, RunEnds
<1>1. TypeOK /\ UNCHANGED <<up, down, events>>
  BY DEF CreditInv
<1>2. EntryInv /\ UploadInv /\ EventsInv /\ ResponseInv /\ ReasonInv
  BY DEF EndsInv
<1>3. /\ InFlight(up, "Data") \in Nat
      /\ ~ Carries(up, {"Data", "End"}) => InFlight(up, "Data") = 0
  BY <1>1, SlotsFinite, NoDataInFlight DEF TypeOK, Carries
<1>4. EntryInv'
  BY <1>1, <1>2 DEF EntryInv
<1>5. UploadInv'
  <2>1. CASE RunTakes
    BY <1>1, <1>2, <1>3, <2>1 DEF UploadInv, TypeOK, Refused
  <2>2. CASE RunFinishesInput
    <3>1. active # "new" /\ ~ Refused
      BY <1>2, <2>2 DEF EntryInv, Refused
    <3>2. request_finished' => cancel \/ (end_written /\ taken = written)
      BY <1>1, <1>2, <1>3, <2>2, <3>1 DEF UploadInv, TypeOK
    <3> QED
      BY <1>1, <1>2, <2>2, <3>1, <3>2 DEF UploadInv, Refused
  <2>3. CASE ~ RunTakes /\ ~ RunFinishesInput
    BY <1>1, <1>2, <2>3 DEF EntryInv, UploadInv, Refused
  <2> QED
    BY <2>1, <2>2, <2>3
<1>6. EventsInv'
  BY <1>1, <1>2 DEF EntryInv, EventsInv
<1>7. ResponseInv'
  BY <1>1, <1>2 DEF EntryInv, ResponseInv, Downloads, Held, HeadWaits, LastWaits
<1>8. ReasonInv'
  BY <1>1, <1>2 DEF EntryInv, ReasonInv, Doomed, Refused, EndSent
<1> QED
  BY <1>4, <1>5, <1>6, <1>7, <1>8 DEF EndsInv

------------------------------------------------------------------------------
(* Frames that Electron writes                                             *)

LEMMA PumpWritesEnds == ASSUME CreditInv, EndsInv, PumpWrites PROVE EndsInv'
<1> USE DEF PumpWrites
<1>1. TypeOK /\ up \in Seq(Frame) /\ InFlight(up, "Data") \in Nat
  BY SlotsFinite DEF CreditInv, TypeOK
<1>2. EntryInv /\ UploadInv /\ EventsInv /\ ResponseInv /\ ReasonInv
  BY DEF EndsInv
<1>3. UNCHANGED <<down, pending, aborted, head_resolved, shown, end_written, sidecarVars>>
  OBVIOUS
<1>4. ~ end_written
  BY <1>2 DEF UploadInv
<1>5. Data \in Frame /\ Data.kind = "Data"
  BY DEF Frame, Data
<1>6. /\ \A kinds : Carries(up', kinds) <=> Carries(up, kinds) \/ "Data" \in kinds
      /\ EndsWith(up', {"Data", "End"})
      /\ InFlight(up', "Data") = InFlight(up, "Data") + 1
  BY <1>1, <1>2, <1>4, <1>5, AppendCarries, DataInFlight DEF UploadInv
<1>7. UploadInv'
  BY <1>1, <1>2, <1>3, <1>4, <1>6 DEF UploadInv, Refused, TypeOK
<1>8. ReasonInv'
  BY <1>2, <1>3, <1>6 DEF ReasonInv, Doomed, Refused, EndSent
<1>9. EntryInv' /\ EventsInv' /\ ResponseInv'
  BY <1>2, <1>3, SameEntry, SameEvents, SameResponse
<1> QED
  BY <1>7, <1>8, <1>9 DEF EndsInv

LEMMA PumpEndsEnds == ASSUME CreditInv, EndsInv, PumpEnds PROVE EndsInv'
<1> USE DEF PumpEnds
<1>1. TypeOK /\ up \in Seq(Frame) /\ InFlight(up, "Data") \in Nat
  BY SlotsFinite DEF CreditInv, TypeOK
<1>2. EntryInv /\ UploadInv /\ EventsInv /\ ResponseInv /\ ReasonInv
  BY DEF EndsInv
<1>3. UNCHANGED <<down, pending, aborted, head_resolved, shown, written, sidecarVars>>
  OBVIOUS
<1>4. ~ end_written
  BY <1>2 DEF UploadInv
<1>5. Plain("End") \in Frame /\ Plain("End").kind = "End"
  BY DEF Frame, Plain
<1>6. /\ \A kinds : Carries(up', kinds) <=> Carries(up, kinds) \/ "End" \in kinds
      /\ EndsWith(up', {"Data", "End"})
      /\ InFlight(up', "Data") = InFlight(up, "Data")
  BY <1>1, <1>2, <1>4, <1>5, AppendCarries, PlainInFlight DEF UploadInv
<1>7. UploadInv'
  BY <1>1, <1>2, <1>3, <1>4, <1>6 DEF UploadInv, Refused, TypeOK
<1>8. ReasonInv'
  BY <1>2, <1>3, <1>6 DEF ReasonInv, Doomed, Refused, EndSent
<1>9. EntryInv' /\ EventsInv' /\ ResponseInv'
  BY <1>2, <1>3, SameEntry, SameEvents, SameResponse
<1> QED
  BY <1>7, <1>8, <1>9 DEF EndsInv

\* What else Electron writes concerns neither the request body nor its end.
LEMMA OtherUp ==
  ASSUME UploadInv, up \in Seq(Frame), NEW f \in Frame, f.kind \in {"Cancel", "Credit"},
         up' = Append(up, f)
  PROVE  /\ Carries(up', {"End"}) <=> Carries(up, {"End"})
         /\ Carries(up', {"Data", "End"}) <=> Carries(up, {"Data", "End"})
         /\ Carries(up', {"Cancel"}) <=> Carries(up, {"Cancel"}) \/ f.kind = "Cancel"
         /\ EndsWith(up', {"Data", "End"})
         /\ InFlight(up', "Data") = InFlight(up, "Data")
<1>1. Weight(f, "Data") = 0 /\ InFlight(up, "Data") \in Nat
  BY SlotsFinite DEF Weight
<1>2. InFlight(up', "Data") = InFlight(up, "Data")
  BY <1>1, AppendInFlight
<1>3. \A kinds : Carries(up', kinds) <=> Carries(up, kinds) \/ f.kind \in kinds
  BY AppendCarries
<1>4. EndsWith(up', {"Data", "End"})
  BY AppendCarries DEF UploadInv
<1> QED
  BY <1>2, <1>3, <1>4

LEMMA AbortEnds == ASSUME CreditInv, EndsInv, PumpFails \/ Abort PROVE EndsInv'
<1> USE DEF PumpFails, Abort, Settle
<1>1. TypeOK /\ up \in Seq(Frame)
  BY DEF CreditInv, TypeOK
<1>2. EntryInv /\ UploadInv /\ EventsInv /\ ResponseInv /\ ReasonInv
  BY DEF EndsInv
<1>3. /\ UNCHANGED <<down, head_resolved, shown, end_written, written, sidecarVars>>
      /\ aborted' /\ pending' = "failed" /\ (pump = "done" => pump' = "done")
      /\ up' = Append(up, Plain("Cancel"))
  OBVIOUS
<1>4. Plain("Cancel") \in Frame /\ Plain("Cancel").kind = "Cancel"
  BY DEF Frame, Plain
<1>5. UploadInv'
  BY <1>1, <1>2, <1>3, <1>4, OtherUp DEF UploadInv, Refused
<1>6. ReasonInv'
  BY <1>3 DEF ReasonInv, Doomed
<1>7. EntryInv' /\ EventsInv' /\ ResponseInv'
  BY <1>2, <1>3 DEF EntryInv, EventsInv, ResponseInv
<1> QED
  BY <1>5, <1>6, <1>7 DEF EndsInv

LEMMA GrantEnds == ASSUME CreditInv, EndsInv, Grant PROVE EndsInv'
<1>1. TypeOK /\ up \in Seq(Frame)
  BY DEF CreditInv, TypeOK
<1>2. EntryInv /\ UploadInv /\ EventsInv /\ ResponseInv /\ ReasonInv
  BY DEF EndsInv
<1>3. UNCHANGED <<down, pending, aborted, pump, head_resolved, shown, end_written, written,
                  sidecarVars>>
  BY DEF Grant
<1>4. PICK n \in 1 .. MaxStreamCredits : up' = Append(up, Credit(n))
  <2>1. Desired - response_credits \in 1 .. MaxStreamCredits
    BY <1>1, SidecarAssumption DEF Grant, Desired, TypeOK
  <2> QED
    BY <2>1 DEF Grant
<1>5. Credit(n) \in Frame /\ Credit(n).kind = "Credit"
  BY DEF Frame, Credit
<1>6. UploadInv' /\ (Carries(up', {"Cancel"}) <=> Carries(up, {"Cancel"}))
  BY <1>1, <1>2, <1>3, <1>4, <1>5, OtherUp DEF UploadInv, Refused
<1>7. ReasonInv'
  BY <1>2, <1>3, <1>6 DEF ReasonInv, Doomed, Refused, EndSent
<1>8. EntryInv' /\ EventsInv' /\ ResponseInv'
  BY <1>2, <1>3, SameEntry, SameEvents, SameResponse
<1> QED
  BY <1>6, <1>7, <1>8 DEF EndsInv

------------------------------------------------------------------------------
(* Response events that are offered, and the end of the response task      *)

\* The event channel as it grows, or loses its oldest event.
LEMMA EventIndices ==
  ASSUME TypeOK
  PROVE  /\ Len(events) \in Nat /\ DOMAIN events = 1 .. Len(events)
         /\ \A e \in Event :
              /\ Append(events, e) \in Seq(Event) /\ Append(events, e) # <<>>
              /\ Len(Append(events, e)) = Len(events) + 1
              /\ DOMAIN Append(events, e) = 1 .. (Len(events) + 1)
              /\ Append(events, e)[Len(events) + 1] = e
              /\ \A i \in 1 .. Len(events) : Append(events, e)[i] = events[i]
              /\ Head(Append(events, e)) = IF events = <<>> THEN e ELSE Head(events)
         /\ events # <<>> =>
              /\ Len(events) >= 1 /\ events[1] = Head(events)
              /\ Tail(events) \in Seq(Event) /\ Len(Tail(events)) = Len(events) - 1
              /\ DOMAIN Tail(events) = 1 .. (Len(events) - 1)
              /\ \A i \in 1 .. (Len(events) - 1) : Tail(events)[i] = events[i + 1]
              /\ Len(events) = 1 => Tail(events) = <<>>
              /\ Len(events) > 1 => Tail(events) # <<>> /\ Head(Tail(events)) = events[2]
<1>1. events \in Seq(Event) /\ Len(events) \in Nat /\ DOMAIN events = 1 .. Len(events)
  BY DEF TypeOK
<1>2. ASSUME NEW e \in Event
      PROVE  /\ Append(events, e) \in Seq(Event) /\ Append(events, e) # <<>>
             /\ Len(Append(events, e)) = Len(events) + 1
             /\ DOMAIN Append(events, e) = 1 .. (Len(events) + 1)
             /\ Append(events, e)[Len(events) + 1] = e
             /\ \A i \in 1 .. Len(events) : Append(events, e)[i] = events[i]
             /\ Head(Append(events, e)) = IF events = <<>> THEN e ELSE Head(events)
  <2>1. /\ Append(events, e) \in Seq(Event)
        /\ Len(Append(events, e)) = Len(events) + 1
        /\ Append(events, e)[Len(events) + 1] = e
        /\ \A i \in 1 .. Len(events) : Append(events, e)[i] = events[i]
    BY <1>1
  <2>2. Append(events, e) # <<>> /\ DOMAIN Append(events, e) = 1 .. (Len(events) + 1)
    BY <1>1, <2>1
  <2>3. Head(Append(events, e)) = Append(events, e)[1]
    BY <2>1, <2>2
  <2>4. CASE events = <<>>
    BY <2>1, <2>2, <2>3, <2>4
  <2>5. CASE events # <<>>
    BY <1>1, <2>1, <2>2, <2>3, <2>5
  <2> QED
    BY <2>1, <2>2, <2>4, <2>5
<1>3. ASSUME events # <<>>
      PROVE  /\ Len(events) >= 1 /\ events[1] = Head(events)
             /\ Tail(events) \in Seq(Event) /\ Len(Tail(events)) = Len(events) - 1
             /\ DOMAIN Tail(events) = 1 .. (Len(events) - 1)
             /\ \A i \in 1 .. (Len(events) - 1) : Tail(events)[i] = events[i + 1]
             /\ Len(events) = 1 => Tail(events) = <<>>
             /\ Len(events) > 1 => Tail(events) # <<>> /\ Head(Tail(events)) = events[2]
  <2>1. Len(events) >= 1 /\ events[1] = Head(events)
    BY <1>1, <1>3
  <2>2. Tail(events) \in Seq(Event) /\ Len(Tail(events)) = Len(events) - 1
    BY <1>1, <1>3
  <2>3. \A i \in 1 .. (Len(events) - 1) : Tail(events)[i] = events[i + 1]
    BY <1>1, <1>3
  <2>4. DOMAIN Tail(events) = 1 .. (Len(events) - 1)
    BY <2>2
  <2>5. ASSUME NEW t \in Seq(Event), Len(t) = 0 PROVE t = <<>>
    BY <2>5, EmptySeq
  <2>6. Len(events) = 1 => Tail(events) = <<>>
    <3>1. Len(events) = 1 => Len(Tail(events)) = 0
      BY <2>2
    <3> QED
      BY <2>2, <2>5, <3>1
  <2>7. ASSUME Len(events) > 1 PROVE Tail(events) # <<>> /\ Head(Tail(events)) = events[2]
    <3>1. Len(Tail(events)) # 0
      BY <1>1, <2>2, <2>7
    <3>2. Tail(events) # <<>>
      BY <3>1, Len(<<>>) = 0
    <3>3. Head(Tail(events)) = Tail(events)[1]
      BY <2>2, <3>2
    <3>4. Tail(events)[1] = events[1 + 1]
      BY <1>1, <2>3, <2>7
    <3> QED
      BY <3>2, <3>3, <3>4
  <2> QED
    BY <2>1, <2>2, <2>3, <2>4, <2>6, <2>7
<1> QED
  BY <1>1, <1>2, <1>3

LEMMA RunSendsEnds == ASSUME CreditInv, EndsInv, RunSends PROVE EndsInv'
<1> DEFINE event == IF produced = 0 THEN "Head" ELSE "Data"
<1>1. TypeOK
  BY DEF CreditInv
<1>2. EntryInv /\ UploadInv /\ EventsInv /\ ResponseInv /\ ReasonInv
  BY DEF EndsInv
<1>3. /\ run = "sending" /\ run' = "running" /\ task # "done"
      /\ events' = Append(events, event) /\ event \in Event
      /\ produced \in Nat /\ produced' = produced + 1
      /\ UNCHANGED <<runEnv, input, granted, request_finished, verdict, taken>>
  BY <1>1 DEF RunSends, Event, TypeOK
<1>4. /\ Len(events) \in Nat /\ DOMAIN events = 1 .. Len(events) /\ events' # <<>>
      /\ Len(events') = Len(events) + 1 /\ DOMAIN events' = 1 .. (Len(events) + 1)
      /\ events'[Len(events) + 1] = event
      /\ \A i \in 1 .. Len(events) : events'[i] = events[i]
      /\ Head(events') = IF events = <<>> THEN event ELSE Head(events)
      /\ events # <<>> => Len(events) >= 1 /\ events[1] = Head(events)
  BY <1>1, <1>3, EventIndices
<1>5. \A i \in 1 .. Len(events) : events[i] \notin {"End", "Error"}
  BY <1>2, <1>3, <1>4 DEF EventsInv
<1>6. produced = 0 => events = <<>>
  BY <1>2, <1>4, <1>5 DEF EventsInv
<1>7. EntryInv'
  BY <1>2, <1>3 DEF EntryInv
<1>8. UploadInv'
  BY <1>2, <1>3 DEF UploadInv, Refused
<1>9. EventsInv'
  <2>1. \A i \in DOMAIN events' :
          /\ events'[i] = "Head" => i = 1
          /\ events'[i] \notin {"End", "Error"}
    <3>1. produced = 0 => Len(events) = 0
      BY <1>6
    <3> QED
      BY <1>2, <1>4, <1>5, <3>1 DEF EventsInv
  <2> QED
    BY <1>2, <1>3, <2>1 DEF EventsInv, EntryInv
<1>10. ResponseInv'
  <2>1. ~ Carries(down, {"End"}) /\ pending # "closed"
    BY <1>2, <1>3 DEF ResponseInv
  <2>2. ASSUME pending = "live", task \in {"receiving", "holding"}
        PROVE  /\ Downloads' = produced
               /\ head_resolved \/ Carries(down, {"Response"}) \/ HeadWaits' = 1
    <3>1. /\ shown \in Nat /\ InFlight(down, "Data") \in Nat /\ Held \in Nat
          /\ HeadWaits \in Nat /\ HeadWaits' \in Nat
      BY <1>1, SlotsFinite DEF TypeOK, Held, HeadWaits
    <3>2. LastWaits = 0 /\ LastWaits' = 0 /\ Held' = Held
      BY <1>3 DEF LastWaits, Held
    <3>3. /\ Downloads = shown + InFlight(down, "Data") + Held + Len(events) - HeadWaits
          /\ Downloads' = shown + InFlight(down, "Data") + Held + (Len(events) + 1) - HeadWaits'
      BY <1>3, <1>4, <3>1, <3>2 DEF Downloads
    <3>4. CASE produced = 0
      <4>1. HeadWaits = 0 /\ HeadWaits' = 1 /\ Downloads = 0
        BY <1>2, <1>3, <1>4, <1>6, <2>2, <3>4 DEF HeadWaits, ResponseInv
      <4> QED
        BY <1>4, <3>1, <3>3, <3>4, <4>1
    <3>5. CASE produced # 0
      <4>1. HeadWaits' = HeadWaits /\ Downloads = produced - 1
        BY <1>2, <1>3, <1>4, <2>2, <3>5 DEF HeadWaits, ResponseInv
      <4>2. head_resolved \/ Carries(down, {"Response"}) \/ HeadWaits = 1
        BY <1>2, <1>3, <2>2, <3>5 DEF ResponseInv
      <4> QED
        BY <1>3, <1>4, <3>1, <3>3, <4>1, <4>2
    <3> QED
      BY <3>4, <3>5
  <2> QED
    BY <1>2, <1>3, <2>1, <2>2 DEF ResponseInv
<1>11. ReasonInv'
  BY <1>2, <1>3 DEF ReasonInv, Doomed, Refused, EndSent
<1> QED
  BY <1>7, <1>8, <1>9, <1>10, <1>11 DEF EndsInv

LEMMA RunReportsEnds == ASSUME CreditInv, EndsInv, RunReports PROVE EndsInv'
<1> DEFINE event == IF verdict = "ok" THEN "End" ELSE "Error"
<1>1. TypeOK
  BY DEF CreditInv
<1>2. EntryInv /\ UploadInv /\ EventsInv /\ ResponseInv /\ ReasonInv
  BY DEF EndsInv
<1>3. /\ run = "ending" /\ run' = "over" /\ event \in Event
      /\ events' = IF task = "done" THEN events ELSE Append(events, event)
      /\ UNCHANGED <<runEnv, input, granted, request_finished, verdict, taken, produced>>
  BY DEF RunReports, Event
<1>4. /\ Len(events) \in Nat /\ DOMAIN events = 1 .. Len(events)
      /\ events # <<>> => Len(events) >= 1 /\ events[1] = Head(events)
      /\ task # "done" =>
           /\ events' # <<>>
           /\ Len(events') = Len(events) + 1 /\ DOMAIN events' = 1 .. (Len(events) + 1)
           /\ events'[Len(events) + 1] = event
           /\ \A i \in 1 .. Len(events) : events'[i] = events[i]
           /\ Head(events') = IF events = <<>> THEN event ELSE Head(events)
  BY <1>1, <1>3, EventIndices
<1>5. \A i \in 1 .. Len(events) : events[i] \notin {"End", "Error"}
  BY <1>2, <1>3, <1>4 DEF EventsInv
<1>6. EntryInv'
  BY <1>2, <1>3 DEF EntryInv
<1>7. UploadInv'
  BY <1>2, <1>3 DEF UploadInv, Refused
<1>8. EventsInv'
  <2>1. CASE task = "done"
    BY <1>2, <1>3, <2>1 DEF EventsInv, EntryInv
  <2>2. CASE task # "done"
    <3>1. event = "End" => verdict = "ok"
      OBVIOUS
    <3>2. event = "Error" => verdict = "error"
      BY <1>1, <1>2, <1>3 DEF EntryInv, TypeOK
    <3>3. event \in {"End", "Error"}
      OBVIOUS
    <3> HIDE DEF event
    <3>4. \A i \in DOMAIN events' :
            /\ events'[i] = "Head" => i = 1
            /\ events'[i] \in {"End", "Error"} => i = Len(events')
            /\ events'[i] = "End" => verdict = "ok"
            /\ events'[i] = "Error" => verdict = "error"
            /\ produced = 0 => events'[i] \in {"End", "Error"}
      BY <1>2, <1>4, <1>5, <2>2, <3>1, <3>2, <3>3 DEF EventsInv
    <3> QED
      BY <1>2, <1>3, <1>4, <2>2, <3>3, <3>4 DEF EventsInv, EntryInv
  <2> QED
    BY <2>1, <2>2
<1>9. ResponseInv'
  <2>1. ~ Carries(down, {"End"}) /\ pending # "closed"
    BY <1>2, <1>3 DEF ResponseInv
  <2>2. ASSUME task \in {"receiving", "holding"}
        PROVE  Downloads' = Downloads /\ HeadWaits' = HeadWaits
    <3>1. HeadWaits' = HeadWaits
      BY <1>3, <1>4, <2>2 DEF HeadWaits
    <3>2. LastWaits = 0 /\ LastWaits' = 1 /\ Held' = Held
      BY <1>3, <1>4, <2>2 DEF LastWaits, Held
    <3>3. /\ shown \in Nat /\ InFlight(down, "Data") \in Nat /\ Held \in Nat /\ HeadWaits \in Nat
      BY <1>1, SlotsFinite DEF TypeOK, Held, HeadWaits
    <3>4. Downloads' = shown + InFlight(down, "Data") + Held + (Len(events) + 1) - HeadWaits - 1
      BY <1>3, <1>4, <2>2, <3>1, <3>2 DEF Downloads
    <3> QED
      BY <1>4, <3>1, <3>2, <3>3, <3>4 DEF Downloads
  <2> QED
    BY <1>2, <1>3, <2>1, <2>2 DEF ResponseInv
<1>10. ReasonInv'
  BY <1>2, <1>3 DEF ReasonInv, Doomed, Refused, EndSent
<1> QED
  BY <1>6, <1>7, <1>8, <1>9, <1>10 DEF EndsInv

LEMMA TaskFinishesEnds == ASSUME CreditInv, EndsInv, TaskFinishes PROVE EndsInv'
<1> USE DEF TaskFinishes, Remove
<1>1. TypeOK /\ NewStream
  BY DEF CreditInv
<1>2. EntryInv /\ UploadInv /\ EventsInv /\ ResponseInv /\ ReasonInv
  BY DEF EndsInv
<1>3. /\ active # "new" /\ task = "finishing" /\ task' = "done" /\ events' = <<>>
      /\ active' = "gone" /\ ~ accepting' /\ cancel' = (cancel \/ active = "live")
      /\ UNCHANGED <<electronVars, up, down, input, runVars>>
  BY <1>1 DEF NewStream
<1>4. active \in {"live", "gone"}
  BY <1>1, <1>3 DEF TypeOK
<1>5. EntryInv'
  BY <1>2, <1>3 DEF EntryInv
<1>6. UploadInv'
  <2>1. CASE active = "live"
    <3>1. cancel' /\ active' # "new"
      BY <1>3, <2>1
    <3> QED
      BY <1>2, <1>3, <3>1 DEF UploadInv
  <2>2. CASE active = "gone"
    <3>1. (cancel' <=> cancel) /\ active' = active /\ ~ accepting
      BY <1>2, <1>3, <2>2 DEF EntryInv
    <3> QED
      BY <1>2, <1>3, <3>1 DEF UploadInv, Refused
  <2> QED
    BY <1>4, <2>1, <2>2
<1>7. EventsInv'
  BY <1>3 DEF EventsInv
<1>8. ResponseInv'
  <2>1. ASSUME Carries(down, {"End"}) PROVE Downloads' = Downloads /\ HeadWaits' = HeadWaits
    <3>1. events = <<>>
      BY <1>2, <2>1 DEF ResponseInv
    <3>2. HeadWaits' = HeadWaits /\ LastWaits' = LastWaits /\ Held' = Held
      BY <1>3, <3>1 DEF HeadWaits, LastWaits, Held
    <3> QED
      BY <1>3, <3>1, <3>2 DEF Downloads
  <2> QED
    BY <1>2, <1>3, <2>1 DEF ResponseInv
<1>9. ReasonInv'
  BY <1>2, <1>3 DEF ReasonInv, Doomed, Refused, EndSent
<1> QED
  BY <1>5, <1>6, <1>7, <1>8, <1>9 DEF EndsInv

------------------------------------------------------------------------------
(* Frames that the response task and the credits send to Electron          *)

\* The oldest event is taken: only the terminal one leaves the channel empty
\* after the transaction.
LEMMA EventTaken ==
  ASSUME TypeOK, EventsInv, events # <<>>, events' = Tail(events), task' # "done",
         UNCHANGED <<run, verdict, active, produced, shown>>
  PROVE  /\ EventsInv' /\ HeadWaits' = 0 /\ Len(events) \in Nat
         /\ Len(events') = Len(events) - 1
         /\ Head(events) \in {"End", "Error"} =>
              Len(events) = 1 /\ run = "over" /\ events' = <<>> /\ LastWaits = 1 /\ LastWaits' = 0
         /\ Head(events) \notin {"End", "Error"} => LastWaits' = LastWaits
<1> DEFINE n == Len(events)
<1>1. /\ n \in Nat /\ n >= 1 /\ DOMAIN events = 1 .. n /\ events[1] = Head(events)
      /\ Len(events') = n - 1 /\ DOMAIN events' = 1 .. (n - 1)
      /\ \A i \in 1 .. (n - 1) : events'[i] = events[i + 1]
      /\ n = 1 => events' = <<>>
      /\ n > 1 => events' # <<>> /\ Head(events') = events[2]
  BY EventIndices
<1> HIDE DEF n
<1>2. \A i \in 1 .. n :
        /\ events[i] = "Head" => i = 1
        /\ events[i] \in {"End", "Error"} => i = n /\ run = "over"
        /\ events[i] = "End" => verdict = "ok"
        /\ events[i] = "Error" => verdict = "error"
        /\ produced = 0 => events[i] \in {"End", "Error"}
  BY <1>1 DEF EventsInv, n
<1>3. run = "over" => events[n] \in {"End", "Error"}
  BY DEF EventsInv, n
<1>4. EventsInv'
  <2>1. \A i \in DOMAIN events' :
          /\ events'[i] = "Head" => i = 1
          /\ events'[i] \in {"End", "Error"} => i = Len(events') /\ run = "over"
          /\ events'[i] = "End" => verdict = "ok"
          /\ events'[i] = "Error" => verdict = "error"
          /\ produced = 0 => events'[i] \in {"End", "Error"}
    BY <1>1, <1>2
  <2>2. run = "over" /\ events' # <<>> => events'[Len(events')] \in {"End", "Error"}
    <3>1. CASE n = 1
      BY <1>1, <3>1
    <3>2. CASE n > 1
      <4>1. n - 1 \in 1 .. (n - 1) /\ (n - 1) + 1 = n
        BY <1>1, <3>2
      <4>2. events'[n - 1] = events[n]
        BY <1>1, <4>1
      <4> QED
        BY <1>1, <1>3, <4>2
    <3> QED
      BY <1>1, <3>1, <3>2
  <2>3. active # "new"
    BY DEF EventsInv
  <2> QED
    BY <2>1, <2>2, <2>3 DEF EventsInv
<1>5. HeadWaits' = 0
  BY <1>1, <1>2 DEF HeadWaits
<1>6. ASSUME Head(events) \in {"End", "Error"}
      PROVE  n = 1 /\ run = "over" /\ events' = <<>> /\ LastWaits = 1 /\ LastWaits' = 0
  BY <1>1, <1>2, <1>6 DEF LastWaits
<1>7. ASSUME Head(events) \notin {"End", "Error"} PROVE LastWaits' = LastWaits
  <2>1. run = "over" => n > 1
    BY <1>1, <1>3, <1>7
  <2> QED
    BY <1>1, <2>1 DEF LastWaits
<1> QED
  BY <1>1, <1>4, <1>5, <1>6, <1>7 DEF n

LEMMA ForwardEnds == ASSUME CreditInv, EndsInv, Forward PROVE EndsInv'
<1> USE DEF Forward
<1>1. TypeOK /\ down \in Seq(Frame)
  BY DEF CreditInv, TypeOK
<1>2. EntryInv /\ UploadInv /\ EventsInv /\ ResponseInv /\ ReasonInv
  BY DEF EndsInv
<1>3. 1 \in 1 .. MaxStreamCredits /\ Credit(1) \in Frame /\ Credit(1).kind = "Credit"
  BY SidecarAssumption DEF Frame, Credit
<1>4. /\ \A kinds : Carries(down', kinds) <=> Carries(down, kinds) \/ "Credit" \in kinds
      /\ \A kinds : EndsWith(down, kinds) /\ "Credit" \notin kinds => EndsWith(down', kinds)
      /\ Covered(down) => Covered(down')
      /\ InFlight(down', "Data") = InFlight(down, "Data")
  BY <1>1, <1>3, AppendCarries, CreditInFlight
<1>5. ResponseInv'
  BY <1>2, <1>4 DEF ResponseInv, Downloads, Held, HeadWaits, LastWaits
<1>6. ReasonInv'
  BY <1>2, <1>4 DEF ReasonInv, Doomed, Refused, EndSent
<1>7. EntryInv' /\ UploadInv' /\ EventsInv'
  BY <1>2, SameEntry, SameUpload, SameEvents
<1> QED
  BY <1>5, <1>6, <1>7 DEF EndsInv

LEMMA TaskSendsEnds == ASSUME CreditInv, EndsInv, TaskSends PROVE EndsInv'
<1> USE DEF TaskSends
<1>1. TypeOK /\ down \in Seq(Frame) /\ InFlight(down, "Data") \in Nat
  BY SlotsFinite DEF CreditInv, TypeOK
<1>2. EntryInv /\ UploadInv /\ EventsInv /\ ResponseInv /\ ReasonInv
  BY DEF EndsInv
<1>3. /\ task = "holding" /\ task' = "receiving" /\ down' = Append(down, Data)
      /\ UNCHANGED <<electronVars, up, active, accepting, closed, cancel, input, events, runVars>>
  OBVIOUS
<1>4. Data \in Frame /\ Data.kind = "Data"
  BY DEF Frame, Data
<1>5. ~ Carries(down, {"End"}) /\ pending # "closed"
  BY <1>2, <1>3 DEF ResponseInv
<1>6. /\ \A kinds : Carries(down', kinds) <=> Carries(down, kinds) \/ "Data" \in kinds
      /\ \A kinds : EndsWith(down, kinds) => EndsWith(down', kinds)
      /\ Covered(down) => Covered(down')
      /\ InFlight(down', "Data") = InFlight(down, "Data") + 1
  BY <1>1, <1>3, <1>4, <1>5, AppendCarries, DataInFlight
<1>7. ResponseInv'
  <2>1. HeadWaits' = HeadWaits /\ LastWaits' = LastWaits /\ Held = 1 /\ Held' = 0
    BY <1>3 DEF HeadWaits, LastWaits, Held
  <2>2. Downloads' = Downloads
    <3>1. Len(events) \in Nat /\ shown \in Nat /\ HeadWaits \in Nat /\ LastWaits \in Nat
      BY <1>1 DEF TypeOK, HeadWaits, LastWaits
    <3> QED
      BY <1>1, <1>3, <1>6, <2>1, <3>1 DEF Downloads
  <2>3. pending = "live" => /\ Downloads = IF produced = 0 THEN 0 ELSE produced - 1
                            /\ produced > 0 => head_resolved \/ Carries(down, {"Response"})
                                                 \/ HeadWaits = 1
    BY <1>2, <1>3 DEF ResponseInv
  <2> QED
    BY <1>2, <1>3, <1>5, <1>6, <2>1, <2>2, <2>3 DEF ResponseInv
<1>8. ReasonInv'
  BY <1>2, <1>3, <1>6 DEF ReasonInv, Doomed, Refused, EndSent
<1>9. EventsInv'
  BY <1>2, <1>3 DEF EventsInv
<1>10. EntryInv' /\ UploadInv'
  BY <1>2, <1>3, SameEntry, SameUpload
<1> QED
  BY <1>7, <1>8, <1>9, <1>10 DEF EndsInv

LEMMA TaskForwardsEnds == ASSUME CreditInv, EndsInv, TaskForwards PROVE EndsInv'
<1>1. TypeOK /\ down \in Seq(Frame) /\ InFlight(down, "Data") \in Nat
  BY SlotsFinite DEF CreditInv, TypeOK
<1>2. EntryInv /\ UploadInv /\ EventsInv /\ ResponseInv /\ ReasonInv
  BY DEF EndsInv
<1>3. /\ task = "receiving" /\ task' \in {"receiving", "holding", "finishing"}
      /\ events # <<>> /\ events' = Tail(events)
      /\ UNCHANGED <<electronVars, up, entryVars, input, granted, runVars>>
  BY DEF TaskForwards, TaskHead, TaskHolds, TaskFails, Pop
<1>4. ~ Carries(down, {"End"}) /\ pending # "closed"
  BY <1>2, <1>3 DEF ResponseInv
<1>5. /\ EventsInv' /\ HeadWaits' = 0 /\ Len(events) \in Nat
      /\ Len(events') = Len(events) - 1
      /\ Head(events) \notin {"End", "Error"} => LastWaits' = LastWaits
  BY <1>1, <1>2, <1>3, EventTaken
<1>6. EntryInv' /\ UploadInv'
  BY <1>2, <1>3, SameEntry, SameUpload
<1>7. shown \in Nat /\ HeadWaits \in Nat /\ LastWaits \in Nat
  BY <1>1 DEF TypeOK, HeadWaits, LastWaits
<1>8. pending = "live" => /\ Downloads = IF produced = 0 THEN 0 ELSE produced - 1
                          /\ produced > 0 => head_resolved \/ Carries(down, {"Response"})
                                               \/ HeadWaits = 1
  BY <1>2, <1>3 DEF ResponseInv
<1>9. CASE TaskHead
  <2>1. Head(events) = "Head" /\ task' = "receiving" /\ down' = Append(down, Plain("Response"))
    BY <1>9 DEF TaskHead, Pop, Answer
  <2>2. Plain("Response") \in Frame /\ Plain("Response").kind = "Response"
    BY DEF Frame, Plain
  <2>3. /\ \A kinds : Carries(down', kinds) <=> Carries(down, kinds) \/ "Response" \in kinds
        /\ \A kinds : EndsWith(down, kinds) => EndsWith(down', kinds)
        /\ Covered(down) => Covered(down')
        /\ InFlight(down', "Data") = InFlight(down, "Data")
    BY <1>1, <1>4, <2>1, <2>2, AppendCarries, PlainInFlight
  <2>4. HeadWaits = 1 /\ LastWaits' = LastWaits /\ Held' = 0 /\ Held = 0
    BY <1>3, <1>5, <2>1 DEF HeadWaits, Held
  <2>5. Downloads' = Downloads
    BY <1>1, <1>3, <1>5, <1>7, <2>3, <2>4 DEF Downloads
  <2>6. ResponseInv'
    BY <1>2, <1>3, <1>4, <1>8, <2>3, <2>5 DEF ResponseInv
  <2>7. ReasonInv'
    BY <1>2, <1>3, <2>1, <2>3 DEF ReasonInv, Doomed, Refused, EndSent
  <2> QED
    BY <1>5, <1>6, <2>6, <2>7 DEF EndsInv
<1>10. CASE TaskHolds
  <2>1. Head(events) = "Data" /\ task' = "holding" /\ down' = down
    BY <1>10 DEF TaskHolds, Pop
  <2>2. HeadWaits = 0 /\ LastWaits' = LastWaits /\ Held' = 1 /\ Held = 0
    BY <1>3, <1>5, <2>1 DEF HeadWaits, Held
  <2>3. Downloads' = Downloads
    BY <1>1, <1>3, <1>5, <1>7, <2>1, <2>2 DEF Downloads
  <2>4. ResponseInv'
    BY <1>2, <1>3, <1>4, <1>8, <2>1, <2>2, <2>3 DEF ResponseInv
  <2>5. ReasonInv'
    BY <1>2, <1>3, <2>1 DEF ReasonInv, Doomed, Refused, EndSent
  <2> QED
    BY <1>5, <1>6, <2>4, <2>5 DEF EndsInv
<1>11. CASE TaskFails
  <2>1. Head(events) = "Error" /\ task' = "finishing"
    BY <1>11 DEF TaskFails, Pop
  <2>2. PICK word \in {"Cancel", "Failure"} : down' = Append(down, Plain(word))
    BY <1>11 DEF TaskFails, Answer
  <2>3. Plain(word) \in Frame /\ Plain(word).kind = word
    BY DEF Frame, Plain
  <2>4. verdict = "error"
    BY <1>1, <1>2, <1>3, <2>1, EventIndices DEF EventsInv
  <2>5. ~ Carries(down', {"End"}) /\ EndsWith(down', {"Response", "Data", "End"})
    BY <1>1, <1>2, <1>4, <2>2, <2>3, AppendCarries DEF ResponseInv
  <2>6. ResponseInv'
    BY <1>3, <1>4, <2>1, <2>5 DEF ResponseInv
  <2>7. ReasonInv'
    BY <1>3, <2>4 DEF ReasonInv, Doomed
  <2> QED
    BY <1>5, <1>6, <2>6, <2>7 DEF EndsInv
<1> QED
  BY <1>9, <1>10, <1>11 DEF TaskForwards

LEMMA TaskEndsStreamEnds == ASSUME CreditInv, EndsInv, TaskEndsStream PROVE EndsInv'
<1>1. TypeOK /\ down \in Seq(Frame) /\ InFlight(down, "Data") \in Nat
  BY SlotsFinite DEF CreditInv, TypeOK
<1>2. EntryInv /\ UploadInv /\ EventsInv /\ ResponseInv /\ ReasonInv
  BY DEF EndsInv
<1>3. /\ task = "receiving" /\ task' = "finishing"
      /\ events # <<>> /\ Head(events) = "End" /\ events' = Tail(events)
      /\ down' = Append(down, Plain("End"))
      /\ UNCHANGED <<electronVars, up, entryVars, input, granted, runVars>>
  BY DEF TaskEndsStream, TaskEnds, Pop, Answer
<1>4. ~ Carries(down, {"End"}) /\ pending # "closed"
  BY <1>2, <1>3 DEF ResponseInv
<1>5. /\ EventsInv' /\ HeadWaits' = 0
      /\ Len(events) = 1 /\ Len(events') = 0 /\ run = "over" /\ events' = <<>>
      /\ LastWaits = 1 /\ LastWaits' = 0
  BY <1>1, <1>2, <1>3, EventTaken
<1>6. EntryInv' /\ UploadInv'
  BY <1>2, <1>3, SameEntry, SameUpload
<1>7. Plain("End") \in Frame /\ Plain("End").kind = "End"
  BY DEF Frame, Plain
<1>8. /\ \A kinds : Carries(down', kinds) <=> Carries(down, kinds) \/ "End" \in kinds
      /\ \A kinds : EndsWith(down, kinds) => EndsWith(down', kinds)
      /\ Covered(down) => Covered(down')
      /\ InFlight(down', "Data") = InFlight(down, "Data")
  BY <1>1, <1>3, <1>4, <1>7, AppendCarries, PlainInFlight
<1>9. verdict = "ok"
  BY <1>1, <1>2, <1>3, EventIndices DEF EventsInv
<1>10. ResponseInv'
  <2>1. HeadWaits = 0 /\ Held' = 0 /\ Held = 0
    BY <1>3 DEF HeadWaits, Held
  <2>2. Downloads' = Downloads
    <3>1. shown \in Nat
      BY <1>1 DEF TypeOK
    <3> QED
      BY <1>1, <1>3, <1>5, <1>8, <2>1, <3>1 DEF Downloads
  <2>3. pending = "live" => /\ Downloads = IF produced = 0 THEN 0 ELSE produced - 1
                            /\ produced > 0 => head_resolved \/ Carries(down, {"Response"})
                                                 \/ HeadWaits = 1
    BY <1>2, <1>3 DEF ResponseInv
  <2> QED
    BY <1>2, <1>3, <1>4, <1>5, <1>8, <1>9, <2>1, <2>2, <2>3 DEF ResponseInv
<1>11. ReasonInv'
  BY <1>2, <1>3, <1>8 DEF ReasonInv, Doomed, Refused, EndSent
<1> QED
  BY <1>5, <1>6, <1>10, <1>11 DEF EndsInv

------------------------------------------------------------------------------
(* Frames that Electron receives                                           *)

\* Only a stream that has been lost fails, and the End frame of one that is not
\* finds every chunk before it shown.
LEMMA ReceiveEnds == ASSUME CreditInv, EndsInv, Receive PROVE EndsInv'
<1> DEFINE first == Head(down)
<1>1. TypeOK /\ Numbers /\ down \in Seq(Frame)
  BY NumbersType DEF CreditInv, TypeOK
<1>2. EntryInv /\ UploadInv /\ EventsInv /\ ResponseInv /\ ReasonInv
  BY DEF EndsInv
<1>3. down # <<>> /\ down' = Tail(down) /\ UNCHANGED sidecarVars
  BY DEF Receive
<1>4. active # "new"
  BY <1>3 DEF CreditInv, NewStream
<1>5. /\ first \in Frame
      /\ \A kinds : Carries(down, kinds) <=> first.kind \in kinds \/ Carries(down', kinds)
      /\ \A kinds : EndsWith(down, kinds) =>
           EndsWith(down', kinds) /\ (first.kind = "End" => ~ Carries(down', kinds))
      /\ Covered(down) => /\ first.kind \notin {"Cancel", "Failure"}
                          /\ first.kind # "End" => Covered(down')
  BY <1>1, <1>3, TailCarries, TailInFlight
<1>6. /\ down' \in Seq(Frame) /\ InFlight(down', "Data") \in Nat
      /\ first.kind = "Data" => InFlight(down, "Data") = InFlight(down', "Data") + 1
      /\ first.kind # "Data" => InFlight(down, "Data") = InFlight(down', "Data")
      /\ first.kind = "Credit" => /\ first.credits \in 1 .. MaxStreamCredits
                                  /\ first.credits <= InFlight(down, "Credit")
  <2>1. /\ Tail(down) \in Seq(Frame) /\ InFlight(Tail(down), "Data") \in Nat
        /\ InFlight(Tail(down), "Credit") \in Nat
        /\ InFlight(down, "Data") = InFlight(Tail(down), "Data") + Weight(first, "Data")
        /\ InFlight(down, "Credit") = InFlight(Tail(down), "Credit") + Weight(first, "Credit")
    BY <1>1, <1>3, TailInFlight, OldestFrame
  <2>2. first.kind # "Data" => Weight(first, "Data") = 0
    BY DEF Weight
  <2>3. first.kind = "Data" => InFlight(down, "Data") = InFlight(Tail(down), "Data") + 1
    BY <1>1, <1>3, OldestFrame
  <2>4. first.kind = "Credit" =>
          /\ first.credits \in 1 .. MaxStreamCredits
          /\ InFlight(down, "Credit") = InFlight(Tail(down), "Credit") + first.credits
    BY <1>1, <1>3, OldestFrame
  <2> HIDE DEF first
  <2> QED
    BY <1>3, <2>1, <2>2, <2>3, <2>4, MaxType
<1> HIDE DEF first
<1>7. EntryInv' /\ EventsInv'
  <2>1. EntryInv'
    BY <1>2, <1>3, SameEntry
  <2>2. EventsInv'
    BY <1>2, <1>3, <1>4 DEF EventsInv
  <2> QED
    BY <2>1, <2>2
<1>8. /\ HeadWaits' = HeadWaits /\ LastWaits' = LastWaits /\ Held' = Held
      /\ HeadWaits \in Nat /\ LastWaits \in Nat /\ Held \in Nat
      /\ Len(events) \in Nat /\ events' = events /\ shown \in Nat /\ produced \in Nat
  BY <1>1, <1>3 DEF HeadWaits, LastWaits, Held, TypeOK
<1>9. CASE pending # "live"
  <2>1. UNCHANGED <<electronVars, up>>
    BY <1>9 DEF Receive
  <2>2. UploadInv'
    BY <1>2, <1>3, <2>1, SameUpload
  <2>3. ResponseInv'
    BY <1>2, <1>3, <1>5, <1>9, <2>1 DEF ResponseInv
  <2>4. ReasonInv'
    BY <1>1, <1>2, <1>3, <1>9, <2>1 DEF ReasonInv, Doomed, Refused, EndSent, TypeOK
  <2> QED
    BY <1>7, <2>2, <2>3, <2>4 DEF EndsInv
<1>10. CASE pending = "live" /\ first.kind = "Credit"
  <2>1. /\ AddRequestCredits(first.credits)
        /\ UNCHANGED <<aborted, head_resolved, response_credits, shown, written, end_written>>
    BY <1>10 DEF Receive, first
  <2>2. request_credits + first.credits <= MaxStreamCredits
    <3>1. Uploads <= InputCapacity
      BY DEF CreditInv, UploadCreditBounded, Uploads, InChunk
    <3>2. request_credits + InFlight(down, "Credit") <= InputCapacity
      BY <1>1, <3>1 DEF Numbers, Uploads
    <3> QED
      BY <1>1, <1>6, <1>10, <3>2, SidecarAssumption DEF Numbers
  <2>3. /\ UNCHANGED <<pending, queued, up>>
        /\ pump' = IF pump = "waiting" THEN "writing" ELSE pump
    <3>1. ~ (request_credits + (IF pump = "waiting" THEN first.credits - 1 ELSE first.credits)
               > MaxStreamCredits)
      BY <1>1, <1>6, <1>10, <2>2, SidecarAssumption DEF Numbers
    <3> QED
      BY <2>1, <3>1 DEF AddRequestCredits
  <2>4. UploadInv'
    BY <1>2, <1>3, <2>1, <2>3 DEF UploadInv, Refused
  <2>5. /\ Carries(down', {"End"}) <=> Carries(down, {"End"})
        /\ Carries(down', {"Response"}) <=> Carries(down, {"Response"})
        /\ EndsWith(down', {"Response", "Data", "End"})
        /\ Covered(down) => Covered(down')
    BY <1>2, <1>5, <1>10 DEF ResponseInv
  <2>6. Downloads' = Downloads
    BY <1>6, <1>8, <1>10, <2>1 DEF Downloads
  <2>7. ResponseInv'
    BY <1>2, <1>3, <1>8, <2>1, <2>3, <2>5, <2>6 DEF ResponseInv
  <2>8. ReasonInv'
    BY <1>2, <1>3, <2>1, <2>3, <2>5 DEF ReasonInv, Doomed, Refused, EndSent
  <2> QED
    BY <1>7, <2>4, <2>7, <2>8 DEF EndsInv
<1>11. CASE pending = "live" /\ first.kind = "Data"
  <2>1. ReceiveData /\ UNCHANGED <<aborted, head_resolved, pumpVars>>
    BY <1>11 DEF Receive, first
  <2>2. response_credits > 0
    <3>1. Responses <= response_credits
      BY DEF CreditInv, ResponseCreditBounded, Responses
    <3> QED
      BY <1>1, <1>6, <1>11, <3>1 DEF Numbers, Responses
  <2>3. shown' = shown + 1 /\ UNCHANGED <<pending, pump, up>>
    BY <2>1, <2>2 DEF ReceiveData
  <2>4. UploadInv'
    BY <1>2, <1>3, <2>1, <2>3, SameUpload
  <2>5. /\ Carries(down', {"End"}) <=> Carries(down, {"End"})
        /\ Carries(down', {"Response"}) <=> Carries(down, {"Response"})
        /\ EndsWith(down', {"Response", "Data", "End"})
        /\ Covered(down) => Covered(down')
    BY <1>2, <1>5, <1>11 DEF ResponseInv
  <2>6. Downloads' = Downloads
    BY <1>6, <1>8, <1>11, <2>3 DEF Downloads
  <2>7. ResponseInv'
    BY <1>2, <1>3, <1>8, <1>11, <2>1, <2>3, <2>5, <2>6 DEF ResponseInv
  <2>8. ReasonInv'
    BY <1>2, <1>3, <2>1, <2>3, <2>5 DEF ReasonInv, Doomed, Refused, EndSent
  <2> QED
    BY <1>7, <2>4, <2>7, <2>8 DEF EndsInv
<1>12. CASE pending = "live" /\ first.kind = "Response"
  <2>1. /\ head_resolved'
        /\ UNCHANGED <<pending, aborted, pump, response_credits, queued, shown, pumpVars, up>>
    BY <1>12 DEF Receive, first
  <2>2. UploadInv'
    BY <1>2, <1>3, <2>1, SameUpload
  <2>3. /\ Carries(down', {"End"}) <=> Carries(down, {"End"})
        /\ EndsWith(down', {"Response", "Data", "End"})
        /\ Covered(down) => Covered(down')
    BY <1>2, <1>5, <1>12 DEF ResponseInv
  <2>4. Downloads' = Downloads
    BY <1>6, <1>8, <1>12, <2>1 DEF Downloads
  <2>5. ResponseInv'
    BY <1>2, <1>3, <1>8, <1>12, <2>1, <2>3, <2>4 DEF ResponseInv
  <2>6. ReasonInv'
    BY <1>2, <1>3, <2>1, <2>3 DEF ReasonInv, Doomed, Refused, EndSent
  <2> QED
    BY <1>7, <2>2, <2>5, <2>6 DEF EndsInv
<1>13. CASE pending = "live" /\ first.kind \in {"Cancel", "Failure"}
  <2>1. /\ pending' = "failed" /\ (pump = "done" => pump' = "done")
        /\ UNCHANGED <<aborted, head_resolved, response_credits, shown, pumpVars, up>>
    BY <1>13 DEF Receive, Settle, first
  <2>2. Doomed
    BY <1>2, <1>5, <1>13 DEF ReasonInv
  <2>3. UploadInv'
    BY <1>2, <1>3, <2>1 DEF UploadInv, Refused
  <2>4. ResponseInv'
    BY <1>2, <1>3, <1>5, <2>1 DEF ResponseInv
  <2>5. ReasonInv'
    BY <1>3, <2>1, <2>2 DEF ReasonInv, Doomed, Refused
  <2> QED
    BY <1>7, <2>3, <2>4, <2>5 DEF EndsInv
<1>14. CASE pending = "live" /\ first.kind = "End"
  <2>1. /\ pending' = "closed" /\ (pump = "done" => pump' = "done")
        /\ UNCHANGED <<aborted, head_resolved, response_credits, shown, pumpVars, up>>
    BY <1>14 DEF Receive, Settle, first
  <2>2. UploadInv'
    BY <1>2, <1>3, <2>1 DEF UploadInv, Refused
  <2>3. Carries(down, {"End"}) /\ ~ Carries(down', {"Response", "Data", "End"})
    BY <1>2, <1>5, <1>14 DEF ResponseInv
  <2>4. run = "over" /\ verdict = "ok" /\ events = <<>> /\ task \in {"finishing", "done"}
    BY <1>2, <2>3 DEF ResponseInv
  <2>5. ~ Carries(down', {"Response"}) /\ ~ Carries(down', {"Data"}) /\ ~ Carries(down', {"End"})
    BY <2>3 DEF Carries
  <2>6. head_resolved /\ shown + 1 = produced
    <3>1. produced > 0
      BY <1>2, <2>4 DEF EntryInv
    <3>2. HeadWaits = 0 /\ LastWaits = 0 /\ Held = 0 /\ Len(events) = 0
      BY <2>4 DEF HeadWaits, LastWaits, Held
    <3>3. InFlight(down, "Data") = 0
      BY <1>6, <1>14, <2>5, NoDataInFlight
    <3>4. Downloads = produced - 1 /\ (head_resolved \/ Carries(down, {"Response"}))
      BY <1>2, <1>8, <1>14, <2>3, <3>1, <3>2 DEF ResponseInv
    <3>5. Downloads = shown
      BY <1>8, <3>2, <3>3 DEF Downloads
    <3>6. ~ Carries(down, {"Response"})
      BY <1>5, <1>14, <2>5
    <3> QED
      BY <1>8, <3>4, <3>5, <3>6
  <2>7. ResponseInv'
    BY <1>2, <1>3, <1>5, <2>1, <2>4, <2>5, <2>6 DEF ResponseInv
  <2>8. ReasonInv'
    BY <1>2, <1>3, <2>1 DEF ReasonInv, Doomed, Refused, EndSent
  <2> QED
    BY <1>7, <2>2, <2>7, <2>8 DEF EndsInv
<1>15. first.kind \in {"Request", "Data", "Credit", "Response", "Cancel", "Failure", "End"}
  BY <1>5 DEF Frame, Plain, Data, Credit
<1>16. first.kind # "Request" \/ pending # "live"
  BY DEF Receive, first
<1> QED
  BY <1>9, <1>10, <1>11, <1>12, <1>13, <1>14, <1>15, <1>16

------------------------------------------------------------------------------
(* Frames that the sidecar handles                                         *)

\* What the reader leaves of the frames when it takes the oldest one.
LEMMA OldestUp ==
  ASSUME CreditInv, EndsInv, Handle
  PROVE  /\ up # <<>> /\ up \in Seq(Frame) /\ up' = Tail(up) /\ UNCHANGED electronVars
         /\ TypeOK /\ down \in Seq(Frame) /\ InFlight(up', "Data") \in Nat
         /\ Head(up) \in Frame
         /\ \A kinds : Carries(up, kinds) <=> Head(up).kind \in kinds \/ Carries(up', kinds)
         /\ Carries(up', {"End"}) => end_written
         /\ EndsWith(up', {"Data", "End"})
         /\ Head(up).kind = "End" => ~ Carries(up', {"Data", "End"})
         /\ Head(up).kind = "Data" => InFlight(up, "Data") = InFlight(up', "Data") + 1
         /\ Head(up).kind # "Data" => InFlight(up, "Data") = InFlight(up', "Data")
         /\ Carries(up', {"Cancel"}) => Doomed
         /\ Head(up).kind = "Request" \/ active # "new"
<1>1. TypeOK /\ up # <<>> /\ up \in Seq(Frame) /\ up' = Tail(up) /\ UNCHANGED electronVars
      /\ down \in Seq(Frame)
  BY DEF CreditInv, TypeOK, Handle
<1>2. UploadInv /\ ReasonInv
  BY DEF EndsInv
<1>3. /\ Head(up) \in Frame /\ InFlight(Tail(up), "Data") \in Nat
      /\ InFlight(up, "Data") = InFlight(Tail(up), "Data") + Weight(Head(up), "Data")
  BY <1>1, TailInFlight, OldestFrame
<1>4. /\ \A kinds : Carries(up, kinds) <=> Head(up).kind \in kinds \/ Carries(Tail(up), kinds)
      /\ \A kinds : EndsWith(up, kinds) =>
           /\ EndsWith(Tail(up), kinds)
           /\ Head(up).kind = "End" => ~ Carries(Tail(up), kinds)
  BY <1>1, TailCarries
<1>5. /\ Head(up).kind = "Data" => InFlight(up, "Data") = InFlight(Tail(up), "Data") + 1
      /\ Head(up).kind # "Data" => InFlight(up, "Data") = InFlight(Tail(up), "Data")
  <2>1. Head(up).kind # "Data" => Weight(Head(up), "Data") = 0
    BY DEF Weight
  <2> QED
    BY <1>1, <1>3, <2>1, OldestFrame
<1>6. Head(up).kind = "Request" \/ active # "new"
  BY DEF CreditInv, NewStream, Plain
<1>7. /\ Carries(Tail(up), {"End"}) => end_written
      /\ EndsWith(Tail(up), {"Data", "End"})
      /\ Head(up).kind = "End" => ~ Carries(Tail(up), {"Data", "End"})
      /\ Carries(Tail(up), {"Cancel"}) => Doomed
  BY <1>2, <1>4 DEF UploadInv, ReasonInv
<1> QED
  BY <1>1, <1>3, <1>4, <1>5, <1>6, <1>7

\* The sidecar may answer a frame of a stream that is lost, or over.
LEMMA AnswerEnds ==
  ASSUME CreditInv, EndsInv, Handle, Doomed \/ EndSent,
         down' = down \/ down' = Append(down, Plain("Cancel")),
         UNCHANGED <<run, verdict, events, task, produced>>,
         active' \in {active, "gone"}, active # "new"
  PROVE  EventsInv' /\ ResponseInv' /\ ReasonInv'
<1>1. EventsInv /\ ResponseInv /\ ReasonInv
  BY DEF EndsInv
<1>2. /\ TypeOK /\ down \in Seq(Frame) /\ UNCHANGED electronVars
      /\ Carries(up', {"Cancel"}) => Doomed
  BY OldestUp
<1>3. Plain("Cancel") \in Frame /\ Plain("Cancel").kind = "Cancel"
  BY DEF Frame, Plain
<1>4. /\ Carries(down', {"End"}) <=> Carries(down, {"End"})
      /\ Carries(down', {"Response"}) <=> Carries(down, {"Response"})
      /\ EndsWith(down, {"Response", "Data", "End"}) => EndsWith(down', {"Response", "Data", "End"})
      /\ Covered(down) /\ Carries(down, {"End"}) => Covered(down')
      /\ InFlight(down', "Data") = InFlight(down, "Data")
  <2>1. CASE down' = down
    BY <2>1
  <2>2. CASE down' = Append(down, Plain("Cancel"))
    BY <1>2, <1>3, <2>2, AppendCarries, PlainInFlight
  <2> QED
    BY <2>1, <2>2
<1>5. EventsInv'
  BY <1>1, <1>2 DEF EventsInv
<1>6. ResponseInv'
  BY <1>1, <1>2, <1>4 DEF ResponseInv, Downloads, Held, HeadWaits, LastWaits
<1>7. (Doomed => Doomed') /\ (EndSent => EndSent')
  BY <1>2, <1>4 DEF Doomed, Refused, EndSent
<1>8. ReasonInv'
  <2>1. Doomed' \/ pending' # "live" \/ Covered(down')
    BY <1>1, <1>2, <1>4, <1>7 DEF ReasonInv, EndSent
  <2>2. pending' = "failed" => Doomed'
    BY <1>1, <1>2, <1>7 DEF ReasonInv
  <2>3. Carries(up', {"Cancel"}) => Doomed'
    BY <1>2, <1>7
  <2> QED
    BY <1>7, <2>1, <2>2, <2>3 DEF ReasonInv
<1> QED
  BY <1>5, <1>6, <1>8

\* The entry leaves `active` while the transaction may still run.
LEMMA RemoveEnds ==
  ASSUME CreditInv, EndsInv, Handle, Doomed \/ EndSent, active = "live", Remove,
         down' = down \/ down' = Append(down, Plain("Cancel")),
         UNCHANGED <<permits, task, input, granted, events, runVars>>
  PROVE  EndsInv'
<1>1. EntryInv /\ UploadInv
  BY DEF EndsInv
<1>2. /\ UNCHANGED electronVars
      /\ Carries(up', {"End"}) => end_written
      /\ EndsWith(up', {"Data", "End"})
  BY OldestUp
<1>3. active' = "gone" /\ ~ accepting' /\ cancel'
  BY DEF Remove
<1>4. EventsInv' /\ ResponseInv' /\ ReasonInv'
  BY <1>3, AnswerEnds
<1>5. EntryInv'
  BY <1>1, <1>3 DEF EntryInv
<1>6. UploadInv'
  BY <1>1, <1>2, <1>3 DEF UploadInv
<1> QED
  BY <1>4, <1>5, <1>6 DEF EndsInv

\* A frame of the body comes after the sidecar took the end of the request: the
\* stream was cancelled or refused before.
LEMMA LateFrameEnds ==
  ASSUME CreditInv, EndsInv, Handle, Head(up).kind \in {"Data", "End"}, ~ accepting,
         down' = Append(down, Plain("Cancel")),
         UNCHANGED <<entryVars, task, input, granted, events, runVars>>
  PROVE  EndsInv'
<1>1. EntryInv /\ UploadInv /\ ReasonInv
  BY DEF EndsInv
<1>2. /\ UNCHANGED electronVars /\ active # "new" /\ Carries(up, {"Data", "End"})
      /\ Carries(up', {"End"}) => end_written
      /\ EndsWith(up', {"Data", "End"})
  BY OldestUp
<1>3. cancel \/ Refused
  BY <1>1, <1>2 DEF UploadInv
<1>4. Doomed \/ EndSent
  BY <1>1, <1>3 DEF ReasonInv, Doomed
<1>5. EventsInv' /\ ResponseInv' /\ ReasonInv'
  BY <1>2, <1>4, AnswerEnds
<1>6. EntryInv'
  BY <1>1, SameEntry
<1>7. UploadInv'
  BY <1>1, <1>2, <1>3 DEF UploadInv, Refused
<1> QED
  BY <1>5, <1>6, <1>7 DEF EndsInv

\* A frame that only moves within the sidecar.
LEMMA SilentFrame ==
  ASSUME CreditInv, EndsInv, Handle, active # "new",
         UNCHANGED <<down, active, cancel, closed, task, events, runVars>>
  PROVE  EventsInv' /\ ResponseInv' /\ ReasonInv'
<1>1. EventsInv /\ ResponseInv /\ ReasonInv
  BY DEF EndsInv
<1>2. UNCHANGED electronVars /\ (Carries(up', {"Cancel"}) => Doomed)
  BY OldestUp
<1>3. EventsInv' /\ ResponseInv'
  BY <1>1, <1>2, SameEvents, SameResponse
<1>4. ReasonInv'
  BY <1>1, <1>2 DEF ReasonInv, Doomed, Refused, EndSent
<1> QED
  BY <1>3, <1>4

LEMMA HandleDataEnds == ASSUME CreditInv, EndsInv, Handle, HandleData PROVE EndsInv'
<1>1. EntryInv /\ UploadInv /\ ReasonInv
  BY DEF EndsInv
<1>2. /\ Head(up).kind = "Data" /\ active # "new" /\ TypeOK /\ UNCHANGED electronVars
      /\ Carries(up', {"End"}) => end_written
      /\ EndsWith(up', {"Data", "End"})
      /\ InFlight(up', "Data") \in Nat /\ InFlight(up, "Data") = InFlight(up', "Data") + 1
  BY OldestUp DEF HandleData
<1>3. UNCHANGED <<task, granted, events, runVars>>
  BY DEF HandleData
<1>4. CASE accepting /\ Listening /\ input < InputCapacity
  <2>1. input' = input + 1 /\ UNCHANGED <<entryVars, down>>
    BY <1>4 DEF HandleData
  <2>2. EventsInv' /\ ResponseInv' /\ ReasonInv'
    BY <1>2, <1>3, <2>1, SilentFrame
  <2>3. EntryInv'
    BY <1>1, <1>3, <2>1, SameEntry
  <2>4. UploadInv'
    BY <1>1, <1>2, <1>3, <1>4, <2>1 DEF UploadInv, Refused, TypeOK
  <2> QED
    BY <2>2, <2>3, <2>4 DEF EndsInv
<1>5. CASE accepting /\ ~ (Listening /\ input < InputCapacity)
  <2>1. /\ Remove /\ UNCHANGED <<permits, input>>
        /\ down' = Append(down, Plain("Cancel"))
    BY <1>5 DEF HandleData, Answer
  <2>2. input < InputCapacity
    <3>1. Uploads <= InputCapacity /\ Numbers
      BY NumbersType DEF CreditInv, UploadCreditBounded, Uploads, InChunk
    <3> QED
      BY <1>2, <3>1 DEF Numbers, Uploads
  <2>3. active = "live" /\ verdict = "error"
    <3>1. run \notin {"opening", "running", "sending"}
      BY <1>5, <2>2 DEF Listening
    <3>2. active = "live" /\ ~ request_finished /\ run # "none"
      BY <1>1, <1>5 DEF EntryInv
    <3>3. run \in {"ending", "over"}
      BY <1>2, <3>1, <3>2 DEF TypeOK, Runs
    <3> QED
      BY <1>1, <1>2, <3>2, <3>3 DEF EntryInv, TypeOK
  <2> QED
    BY <1>3, <2>1, <2>3, RemoveEnds DEF Doomed
<1>6. CASE ~ accepting
  BY <1>2, <1>3, <1>6, LateFrameEnds DEF HandleData, Answer
<1> QED
  BY <1>4, <1>5, <1>6

LEMMA HandleEndEnds == ASSUME CreditInv, EndsInv, Handle, HandleEnd PROVE EndsInv'
<1>1. EntryInv /\ UploadInv /\ ReasonInv
  BY DEF EndsInv
<1>2. /\ Head(up).kind = "End" /\ active # "new" /\ UNCHANGED electronVars
      /\ Carries(up, {"End"})
      /\ Carries(up', {"End"}) => end_written
      /\ EndsWith(up', {"Data", "End"}) /\ ~ Carries(up', {"Data", "End"})
      /\ InFlight(up', "Data") = InFlight(up, "Data")
  BY OldestUp DEF HandleEnd
<1>3. UNCHANGED <<active, permits, closed, cancel, task, input, granted, events, runVars>>
  BY DEF HandleEnd
<1>4. CASE accepting
  <2>1. ~ accepting' /\ down' = down
    BY <1>4 DEF HandleEnd
  <2>2. EventsInv' /\ ResponseInv' /\ ReasonInv'
    BY <1>2, <1>3, <2>1, SilentFrame
  <2>3. EntryInv'
    BY <1>1, <1>3, <2>1 DEF EntryInv
  <2>4. UploadInv'
    BY <1>1, <1>2, <1>3, <1>4, <2>1 DEF UploadInv, Refused
  <2> QED
    BY <2>2, <2>3, <2>4 DEF EndsInv
<1>5. CASE ~ accepting
  BY <1>2, <1>3, <1>5, LateFrameEnds DEF HandleEnd, Answer
<1> QED
  BY <1>4, <1>5

LEMMA HandleCreditEnds == ASSUME CreditInv, EndsInv, Handle, HandleCredit PROVE EndsInv'
<1>1. EntryInv /\ UploadInv /\ ReasonInv
  BY DEF EndsInv
<1>2. /\ Head(up).kind = "Credit" /\ active # "new" /\ TypeOK /\ UNCHANGED electronVars
      /\ up \in Seq(Frame) /\ up # <<>>
      /\ Carries(up', {"End"}) => end_written
      /\ EndsWith(up', {"Data", "End"})
      /\ Carries(up', {"Data", "End"}) <=> Carries(up, {"Data", "End"})
      /\ InFlight(up', "Data") = InFlight(up, "Data")
  BY OldestUp DEF HandleCredit
<1>3. UNCHANGED <<active, accepting, cancel, task, input, granted, events, runVars>>
  BY DEF HandleCredit
<1>4. EntryInv'
  BY <1>1, <1>3, SameEntry
<1>5. UploadInv'
  BY <1>1, <1>2, <1>3 DEF UploadInv, Refused
<1>6. ~ (permits + Head(up).credits > MaxStreamCredits)
  <2>1. Numbers /\ Responses <= response_credits /\ response_credits + queued <= BodyCapacity
    BY NumbersType DEF CreditInv, ResponseCreditBounded, Responses
  <2>2. PICK n \in Nat : n = Head(up).credits /\ n <= InFlight(up, "Credit")
    <3>1. /\ Head(up).credits \in 1 .. MaxStreamCredits
          /\ InFlight(Tail(up), "Credit") \in Nat
          /\ InFlight(up, "Credit") = InFlight(Tail(up), "Credit") + Head(up).credits
      BY <1>2, OldestFrame
    <3> QED
      BY <3>1, MaxType
  <2>3. permits + n <= BodyCapacity
    BY <2>1, <2>2 DEF Numbers, Responses
  <2>4. PICK m \in Nat, b \in Nat, c \in Nat : m = permits /\ b = BodyCapacity
                                               /\ c = MaxStreamCredits /\ b <= c
    BY <2>1, SidecarAssumption DEF Numbers
  <2>5. ~ (m + n > c)
    BY <2>2, <2>3, <2>4
  <2> QED
    BY <2>2, <2>4, <2>5, Zenon
<1>7. CASE active = "live" /\ ~ closed
  <2>1. UNCHANGED <<closed, down>>
    BY <1>6, <1>7 DEF HandleCredit
  <2> QED
    BY <1>2, <1>3, <1>4, <1>5, <2>1, SilentFrame DEF EndsInv
<1>8. CASE active # "live" \/ closed
  <2>1. down' = Append(down, Plain("Cancel"))
    BY <1>8 DEF HandleCredit, Answer
  <2>2. Doomed \/ EndSent
    BY <1>1, <1>2, <1>8 DEF ReasonInv, TypeOK
  <2> QED
    BY <1>2, <1>3, <1>4, <1>5, <2>1, <2>2, AnswerEnds DEF EndsInv
<1> QED
  BY <1>7, <1>8

LEMMA HandleCancelEnds == ASSUME CreditInv, EndsInv, Handle, HandleCancel PROVE EndsInv'
<1>1. EntryInv /\ UploadInv /\ ReasonInv
  BY DEF EndsInv
<1>2. /\ Head(up).kind = "Cancel" /\ active # "new" /\ UNCHANGED electronVars
      /\ Carries(up, {"Cancel"})
      /\ Carries(up', {"End"}) => end_written
      /\ EndsWith(up', {"Data", "End"})
      /\ Carries(up', {"Data", "End"}) <=> Carries(up, {"Data", "End"})
      /\ InFlight(up', "Data") = InFlight(up, "Data")
  BY OldestUp DEF HandleCancel
<1>3. UNCHANGED <<down, task, input, granted, events, runVars>>
  BY DEF HandleCancel
<1>4. Doomed
  BY <1>1, <1>2 DEF ReasonInv
<1>5. CASE active = "live"
  BY <1>3, <1>4, <1>5, RemoveEnds DEF HandleCancel
<1>6. CASE active # "live"
  <2>1. UNCHANGED entryVars
    BY <1>6 DEF HandleCancel
  <2>2. EventsInv' /\ ResponseInv' /\ ReasonInv'
    BY <1>2, <1>3, <2>1, SilentFrame
  <2>3. EntryInv'
    BY <1>1, <1>3, <2>1, SameEntry
  <2>4. UploadInv'
    BY <1>1, <1>2, <1>3, <2>1 DEF UploadInv, Refused
  <2> QED
    BY <2>2, <2>3, <2>4 DEF EndsInv
<1> QED
  BY <1>5, <1>6

LEMMA HandleRequestEnds == ASSUME CreditInv, EndsInv, Handle, HandleRequest PROVE EndsInv'
<1>1. EntryInv /\ UploadInv /\ EventsInv /\ ResponseInv /\ ReasonInv
  BY DEF EndsInv
<1>2. /\ Head(up).kind = "Request" /\ TypeOK /\ UNCHANGED electronVars
      /\ Carries(up', {"End"}) => end_written
      /\ EndsWith(up', {"Data", "End"})
      /\ Carries(up', {"Data", "End"}) <=> Carries(up, {"Data", "End"})
      /\ InFlight(up', "Data") = InFlight(up, "Data")
      /\ Carries(up', {"Cancel"}) => Doomed
  BY OldestUp DEF HandleRequest
<1>3. /\ active = "new" /\ down = <<>> /\ ~ accepting /\ run = "none" /\ task = "none"
      /\ events = <<>> /\ produced = 0 /\ shown = 0
  BY <1>1 DEF HandleRequest, CreditInv, NewStream, EventsInv
<1>4. UNCHANGED <<permits, closed, cancel, input, granted, events, request_finished, verdict,
                  taken, produced>>
  BY DEF HandleRequest
<1>5. down \in Seq(Frame) /\ ~ Carries(down, {"End"}) /\ EndsWith(down, {"Response", "Data", "End"})
      /\ Covered(down)
  BY <1>2, <1>3, EmptyCarries DEF TypeOK
<1>6. verdict = "none" /\ pending # "closed"
  BY <1>1, <1>3 DEF EntryInv, ResponseInv
<1>7. CASE active' = "live"
  <2>1. /\ accepting' = ~ request_finished /\ run' = "opening" /\ task' = "receiving"
        /\ down' = IF request_finished THEN down ELSE Append(down, Credit(InputCapacity))
    BY <1>7 DEF HandleRequest
  <2>2. /\ down' \in Seq(Frame) /\ ~ Carries(down', {"End"})
        /\ EndsWith(down', {"Response", "Data", "End"})
        /\ Covered(down') /\ InFlight(down', "Data") = 0
    <3>1. CASE down' = down
      BY <1>3, <1>5, <3>1, EmptyInFlight
    <3>2. CASE down' = Append(down, Credit(InputCapacity))
      <4>1. InputCapacity \in 1 .. MaxStreamCredits
        BY SidecarAssumption
      <4>2. Credit(InputCapacity) \in Frame /\ Credit(InputCapacity).kind = "Credit"
        BY <4>1 DEF Frame, Credit
      <4> QED
        BY <1>3, <1>5, <3>2, <4>1, <4>2, AppendCarries, CreditInFlight, EmptyInFlight
    <3> QED
      BY <2>1, <3>1, <3>2
  <2>3. EntryInv'
    BY <1>1, <1>4, <1>6, <1>7, <2>1 DEF EntryInv
  <2>4. UploadInv'
    BY <1>1, <1>2, <1>3, <1>4, <1>7, <2>1 DEF UploadInv, Refused
  <2>5. EventsInv'
    BY <1>3, <1>4, <1>7, <2>1 DEF EventsInv
  <2>6. ResponseInv'
    <3>1. Downloads' = 0
      BY <1>2, <1>3, <1>4, <2>1, <2>2 DEF Downloads, Held, HeadWaits, LastWaits
    <3> QED
      BY <1>2, <1>3, <1>4, <1>6, <2>2, <3>1 DEF ResponseInv
  <2>7. ReasonInv'
    <3>1. ~ Refused /\ ~ EndSent
      BY <1>3, <1>5, <1>6 DEF Refused, EndSent
    <3>2. Doomed => Doomed'
      BY <1>2, <1>4, <3>1 DEF Doomed
    <3>3. pending' = "failed" => Doomed'
      BY <1>1, <1>2, <3>2 DEF ReasonInv
    <3>4. cancel' \/ closed' \/ active' = "gone" \/ task' \in {"finishing", "done"} => Doomed'
      BY <1>1, <1>4, <1>7, <2>1, <3>1, <3>2 DEF ReasonInv
    <3> QED
      BY <1>2, <2>2, <3>2, <3>3, <3>4 DEF ReasonInv
  <2> QED
    BY <2>3, <2>4, <2>5, <2>6, <2>7 DEF EndsInv
<1>8. CASE active' = "gone"
  <2>1. down' = Append(down, Plain("Failure")) /\ UNCHANGED <<accepting, run, task>>
    BY <1>8 DEF HandleRequest, Answer
  <2>2. Plain("Failure") \in Frame /\ Plain("Failure").kind = "Failure"
    BY DEF Frame, Plain
  <2>3. ~ Carries(down', {"End"}) /\ EndsWith(down', {"Response", "Data", "End"})
    BY <1>5, <2>1, <2>2, AppendCarries
  <2>4. Refused' /\ Doomed'
    BY <1>3, <1>8, <2>1 DEF Refused, Doomed
  <2>5. EntryInv'
    BY <1>1, <1>3, <1>4, <1>8, <2>1 DEF EntryInv
  <2>6. UploadInv'
    BY <1>1, <1>2, <1>4, <1>8, <2>4 DEF UploadInv
  <2>7. EventsInv'
    BY <1>3, <1>4, <1>8, <2>1 DEF EventsInv
  <2>8. ResponseInv'
    BY <1>2, <1>3, <1>6, <2>1, <2>3 DEF ResponseInv
  <2>9. ReasonInv'
    BY <2>4 DEF ReasonInv
  <2> QED
    BY <2>5, <2>6, <2>7, <2>8, <2>9 DEF EndsInv
<1> QED
  BY <1>7, <1>8 DEF HandleRequest

LEMMA HandleEnds == ASSUME CreditInv, EndsInv, Handle PROVE EndsInv'
BY HandleRequestEnds, HandleDataEnds, HandleEndEnds, HandleCreditEnds, HandleCancelEnds
   DEF Handle

------------------------------------------------------------------------------
(* The theorems about the end of a stream                                  *)

LEMMA InitEnds == Init => EndsInv
<1> SUFFICES ASSUME Init PROVE EndsInv
  OBVIOUS
<1> DEFINE open == Append(<<>>, Plain("Request"))
<1>1. <<>> \in Seq(Frame) /\ Plain("Request") \in Frame /\ Plain("Request").kind = "Request"
  BY DEF Frame, Plain
<1>2. Credit(BodyCapacity) \in Frame /\ Credit(BodyCapacity).kind = "Credit"
  BY SidecarAssumption DEF Frame, Credit
<1>3. open \in Seq(Frame) /\ up = Append(open, Credit(BodyCapacity)) /\ up \in Seq(Frame)
  BY <1>1, <1>2 DEF Init
<1>4. /\ \A kinds : Carries(open, kinds) <=> "Request" \in kinds
      /\ \A kinds : EndsWith(open, kinds)
  BY <1>1, EmptyCarries, AppendCarries
<1>5. /\ \A kinds : Carries(up, kinds) <=> "Request" \in kinds \/ "Credit" \in kinds
      /\ \A kinds : EndsWith(up, kinds)
  <2> HIDE DEF open
  <2> QED
    BY <1>2, <1>3, <1>4, AppendCarries
<1>6. InFlight(up, "Data") = 0
  BY <1>3, <1>5, NoDataInFlight
<1>7. down = <<>> /\ ~ Carries(down, {"End"}) /\ EndsWith(down, {"Response", "Data", "End"})
      /\ Covered(down)
  BY EmptyCarries DEF Init
<1>8. EntryInv
  BY DEF Init, EntryInv
<1>9. UploadInv
  <2>1. /\ ~ Carries(up, {"End"}) /\ ~ Carries(up, {"Data", "End"})
        /\ EndsWith(up, {"Data", "End"})
    BY <1>5
  <2>2. /\ written = 0 /\ taken = 0 /\ input = 0 /\ active = "new"
        /\ end_written = (pump = "done") /\ request_finished = (pump = "done")
    BY DEF Init
  <2>3. (end_written <=> pump = "done") /\ (request_finished => end_written)
    BY <2>2
  <2>4. written = taken + input + InFlight(up, "Data")
    BY <1>6, <2>2
  <2> QED
    BY <2>1, <2>2, <2>3, <2>4 DEF UploadInv
<1>10. EventsInv
  BY DEF Init, EventsInv
<1>11. ResponseInv
  BY <1>7 DEF Init, ResponseInv
<1>12. ReasonInv
  BY <1>5, <1>7 DEF Init, ReasonInv
<1> QED
  BY <1>8, <1>9, <1>10, <1>11, <1>12 DEF EndsInv

LEMMA StepEnds == CreditInv /\ EndsInv /\ [Next]_vars => EndsInv'
<1> SUFFICES ASSUME CreditInv, EndsInv, [Next]_vars PROVE EndsInv'
  OBVIOUS
<1>1. CASE Next
  BY <1>1, CalmEnds, PumpWritesEnds, PumpEndsEnds, AbortEnds, GrantEnds, ReceiveEnds, HandleEnds,
     ForwardEnds, TaskForwardsEnds, TaskEndsStreamEnds, TaskSendsEnds, TaskFinishesEnds,
     RunSendsEnds, RunReportsEnds DEF Next
<1>2. CASE UNCHANGED vars
  BY <1>2, SameEntry, SameUpload, SameEvents, SameResponse, SameReason DEF vars, EndsInv
<1> QED
  BY <1>1, <1>2

LEMMA EndsInvariant == Spec => []EndsInv
BY InitEnds, StepEnds, CreditInvariant, PTL DEF Spec

\* A response stream that ends at the page is whole, for all capacities and
\* bodies: the End frame of the response task comes behind every chunk, in a
\* channel from which credits let Electron drop none (ReceiveData, TaskEnds).
THEOREM ClosesWhole == Spec => []ClosedIsWhole
<1>1. EndsInv => ClosedIsWhole
  BY DEF EndsInv, ResponseInv, ClosedIsWhole
<1> QED
  BY <1>1, EndsInvariant, PTL

\* The answers of serve_connection to late frames never overtake an End frame,
\* and no other failure of the stream follows a transaction that succeeded.
THEOREM SuccessArrives == Spec => []SuccessReachesPage
<1>1. EndsInv => SuccessReachesPage
  BY DEF EndsInv, EntryInv, ReasonInv, Doomed, Refused, SuccessReachesPage
<1> QED
  BY <1>1, EndsInvariant, PTL

\* finish_input follows the End frame of Electron and every chunk before it,
\* unless the stream was cancelled: the closed input channel alone is no end.
THEOREM UploadsEndWhole == Spec => []UploadEndsWhole
<1>1. EndsInv => UploadEndsWhole
  BY DEF EndsInv, UploadInv, UploadEndsWhole
<1> QED
  BY <1>1, EndsInvariant, PTL

==============================================================================
