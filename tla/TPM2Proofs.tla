------------------------------ MODULE TPM2Proofs ------------------------------
(***************************************************************************)
(* Proofs about TPM2, for every number of slots, every choice of sessions  *)
(* and structures, and about TPM2Wrap, for any number of objects, sessions *)
(* and failures.  Of the table of commands they use what TPM2Table says.   *)
(*                                                                         *)
(* A command is written in two passes: Call leaves room for the sessions   *)
(* that TPM2_GetCmdAuthCount has found, and CommandProcess writes each     *)
(* again at a place that it computes from inHandleCnt.  CommandInv says    *)
(* what every cell of the packet is between the two, and AnswerInv the     *)
(* same of the answer.  So the two computations meet the same cells, the   *)
(* sessions of the answer are found, and what is read is read in place.    *)
(*                                                                         *)
(* A call of a wrapper goes through as many worlds as its script has       *)
(* steps.  Takes says where one step leads whatever becomes of it, Leads   *)
(* where a script does, by a set of worlds between any two of its steps,   *)
(* and DoneLeads, by induction, that Done gets there.  Scripts are put     *)
(* together as the wrappers are: LeadsOne, LeadsThen, LeadsAll.            *)
(*                                                                         *)
(* For what a call leaves behind a set S of structures is followed: what   *)
(* the TPM has and no structure of S names is Astray, and at most as many  *)
(* objects are as steps have failed (Owed).  A structure leaves S when it  *)
(* is cleared or its object goes, and comes in when one is made for it.    *)
(***************************************************************************)
EXTENDS TPM2, TPM2Wrap, TPM2Table, SequenceTheorems, FiniteSetTheorems, WellFoundedInduction,
        TLAPS

Row == Commands[cmd]

\* What is written behind the sessions, and what the TPM answers.
Params == Written(Row.in, shape)
Answered == Written(Results(Row), shape)

\* Names of fields.  To the provers a string is not known to be in STRING.
Names == STRING \union {"handle"}

Cell == [what : {"field"}, name : Names] \union [what : {"header"}, tag : {"none", "sessions"}]
          \union [what : {"size"}, number : Nat]
          \union [what : {"auth"}, slot : Slots, nonce : {"stale", "fresh", "TPM"},
                  attrs : SUBSET Attributes]

Types ==
    /\ slots \in [Slots -> [handle : Handles, attrs : SUBSET Attributes]]
    /\ inStep \in [Slots -> BOOLEAN]
    /\ cmd \in DOMAIN Commands /\ shape \in Shapes
    /\ authCnt \in 0..MaxSession
    /\ packet \in Seq(Cell)
    /\ i \in Nat /\ pos \in Nat

\* Whether the command at hand carries sessions.
Tag == IF authCnt = 0 THEN "none" ELSE "sessions"

TagInv ==
    pc \in {"process", "send", "respond", "read"} =>
    /\ pc \in {"process", "respond"} => authCnt # 0
    /\ Row.kind = "plain" => authCnt = 0
    /\ Row.kind \in {"authorized", "unguarded"} => authCnt # 0
    /\ pc \in {"process", "send"} => Len(packet) # 0 /\ packet[1] = Header(Tag)
    /\ pc = "process" => i <= authCnt /\ pos = Row.inHandleCnt + 3 + i

\* The place of the first parameter.
Place == IF authCnt = 0 THEN Row.handles + 1 ELSE Row.handles + 2 + authCnt

\* One session of a command that is being authorised.
Entry(k) ==
    LET auth == packet[Row.handles + 3 + k]
    IN /\ auth.what = "auth" /\ auth.slot = k
       /\ pc = "send" \/ k < i =>
            /\ auth.nonce = "fresh"
            /\ slots[k].handle = "hmac" => auth.attrs = Masked(slots[k].attrs, Row.flags)

CommandInv ==
    pc \in {"process", "send"} /\ cmd \notin Miscounted =>
    /\ Len(packet) = Place + Len(Params)
    /\ \A k \in 1..Row.handles : packet[k + 1] = Field("handle")
    /\ authCnt # 0 => packet[Row.handles + 2] = Size(authCnt)
    /\ \A k \in 0..authCnt - 1 : Entry(k)
    /\ \A k \in 1..Len(Params) : packet[Place + k] = Field(Params[k])

\* The place of the first result.
Behind == IF authCnt = 0 THEN OutHandles(Row) + 1 ELSE OutHandles(Row) + 2

AnswerInv ==
    pc \in {"respond", "read"} =>
    /\ Len(packet) >= Behind + Len(Answered)
    /\ \A k \in 1..OutHandles(Row) : packet[k + 1] = Field("handle")
    /\ authCnt # 0 => packet[OutHandles(Row) + 2] = Size(Len(Answered))
    /\ \A k \in 1..Len(Answered) : packet[Behind + k] = Field(Answered[k])

\* The TPM's nonces that are still in the answer.
NonceInv ==
    pc \in {"respond", "read"} /\ cmd \notin Miscounted =>
    /\ Len(packet) = Behind + Len(Answered) + authCnt
    /\ \A k \in 1..authCnt : packet[Behind + Len(Answered) + k].what = "auth"
    /\ pc = "respond" => i <= authCnt /\ pos = Behind + Len(Answered) + 1 + i
    /\ \A k \in 0..authCnt - 1 :
         (pc = "read" \/ k < i) /\ slots[k].handle # "password" => inStep[k]

IInv ==
    /\ Types /\ TagInv /\ CommandInv /\ AnswerInv /\ NonceInv
    /\ SessionsInStep

-----------------------------------------------------------------------------
(* The table.                                                              *)

LEMMA Rows ==
    ASSUME NEW c \in DOMAIN Commands
    PROVE  LET d == Commands[c]
           IN /\ d.kind \in Kinds /\ d.handles \in Nat /\ d.inHandleCnt \in Nat
              /\ d.outHandleCnt \in Nat /\ OutHandles(d) \in Nat
              /\ c \notin Miscounted /\ d.kind # "plain"
                 => d.inHandleCnt = d.handles /\ d.outHandleCnt = OutHandles(d)
<1>1. OutHandles(Commands[c]) \in Nat
  BY DEF OutHandles
<1> QED
  BY <1>1, TableAssumption

LEMMA Layouts ==
    ASSUME NEW c \in DOMAIN Commands, NEW s \in Shapes
    PROVE  /\ Written(Commands[c].in, s) \in Seq(STRING)
           /\ Written(Results(Commands[c]), s) \in Seq(STRING)
<1>1. RowIsSound(Commands[c], s)
  BY TableAssumption
<1> QED
  BY <1>1 DEF RowIsSound

LEMMA FirstCommand == "Startup" \in DOMAIN Commands
  BY DEF Commands

LEMMA ShapeFacts ==
    /\ AnyShape \in Shapes
    /\ \A c \in DOMAIN Commands : ShapesOf(c) \subseteq Shapes
<1>1. AnyShape \in ShapeChoices
  BY TPM2Assumption DEF AnyShape
<1>2. AnyShape \in Shapes /\ ShapeChoices \subseteq Shapes
  BY <1>1, TPM2Assumption
<1> QED
  BY <1>2 DEF ShapesOf

-----------------------------------------------------------------------------
(* Cells and packets.                                                      *)

LEMMA CellKinds ==
    /\ \A n \in Names : Field(n) \in Cell
    /\ \A t \in {"none", "sessions"} : Header(t) \in Cell /\ Header(t).what = "header"
                                         /\ Header(t).tag = t
    /\ \A n \in Nat : Size(n) \in Cell /\ Size(n).what = "size" /\ Size(n).number = n
    /\ \A k \in Slots, x \in {"stale", "fresh", "TPM"}, attrs \in SUBSET Attributes :
          Auth(k, x, attrs) \in Cell
<1>1. \A n \in Names : Field(n) \in Cell
  BY DEF Field, Cell
<1>2. \A t \in {"none", "sessions"} : Header(t) \in Cell /\ Header(t).what = "header"
                                        /\ Header(t).tag = t
  BY DEF Header, Cell
<1>3. \A n \in Nat : Size(n) \in Cell /\ Size(n).what = "size" /\ Size(n).number = n
  BY DEF Size, Cell
<1>4. \A k \in Slots, x \in {"stale", "fresh", "TPM"}, attrs \in SUBSET Attributes :
         Auth(k, x, attrs) \in Cell
  BY DEF Auth, Cell
<1> QED
  BY <1>1, <1>2, <1>3, <1>4

\* What cells of a packet can be.
LEMMA CellFacts ==
    ASSUME NEW c \in Cell
    PROVE  /\ c.what = "size" => c.number \in Nat
           /\ c.what = "auth" => /\ c.slot \in Slots
                                 /\ [c EXCEPT !.nonce = "TPM"] \in Cell
                                 /\ [c EXCEPT !.nonce = "TPM"].what = "auth"
<1>1. c.what = "size" => c.number \in Nat
  BY DEF Cell
<1>2. ASSUME c.what = "auth"
      PROVE  /\ c.slot \in Slots
             /\ [c EXCEPT !.nonce = "TPM"] \in Cell
             /\ [c EXCEPT !.nonce = "TPM"].what = "auth"
  <2>1. c \in [what : {"auth"}, slot : Slots, nonce : {"stale", "fresh", "TPM"},
               attrs : SUBSET Attributes]
    BY <1>2 DEF Cell
  <2> QED
    BY <2>1 DEF Cell
<1> QED
  BY <1>1, <1>2

LEMMA Joined ==
    ASSUME NEW a \in Seq(Cell), NEW b \in Seq(Cell)
    PROVE  /\ a \o b \in Seq(Cell) /\ Len(a \o b) = Len(a) + Len(b)
           /\ \A k \in 1..Len(a) : (a \o b)[k] = a[k]
           /\ \A k \in 1..Len(b) : (a \o b)[Len(a) + k] = b[k]
  OBVIOUS

LEMMA FieldsFacts ==
    ASSUME NEW w \in Seq(STRING)
    PROVE  /\ Fields(w) \in Seq(Cell) /\ Len(Fields(w)) = Len(w)
           /\ \A k \in 1..Len(w) : Fields(w)[k] = Field(w[k])
<1>1. \A k \in 1..Len(w) : w[k] \in STRING /\ Field(w[k]) \in Cell
  <2>1. \A n \in Names : Field(n) \in Cell
    BY CellKinds
  <2>2. \A k \in 1..Len(w) : w[k] \in STRING
    OBVIOUS
  <2> QED
    BY <2>1, <2>2 DEF Names
<1>2. Fields(w) = [k \in 1..Len(w) |-> Field(w[k])] /\ Len(w) \in Nat
  BY DEF Fields
<1>3. Fields(w) \in Seq(Cell)
  BY <1>1, <1>2
<1> QED
  BY <1>2, <1>3

LEMMA HandleFacts ==
    ASSUME NEW n \in Nat
    PROVE  /\ HandleFields(n) \in Seq(Cell) /\ Len(HandleFields(n)) = n
           /\ \A k \in 1..n : HandleFields(n)[k] = Field("handle")
<1>1. Field("handle") \in Cell
  <2>1. \A x \in Names : Field(x) \in Cell
    BY CellKinds
  <2> QED
    BY <2>1 DEF Names
<1> QED
  BY <1>1 DEF HandleFields

\* Replacing one cell of a packet.
LEMMA ReplaceFacts ==
    ASSUME NEW p \in Seq(Cell), NEW k \in Nat, NEW c \in Cell
    PROVE  /\ Replace(p, k, c) \in Seq(Cell) /\ Len(Replace(p, k, c)) = Len(p)
           /\ \A j \in 1..Len(p) : Replace(p, k, c)[j] = IF j = k THEN c ELSE p[j]
  BY DEF Replace

LEMMA NumberFacts ==
    ASSUME NEW p \in Seq(Cell), NEW k \in Nat
    PROVE  /\ NumberAt(p, k) \in Nat
           /\ \A n \in Nat : k \in 1..Len(p) /\ p[k] = Size(n) => NumberAt(p, k) = n
<1>1. k \in 1..Len(p) => p[k] \in Cell
  OBVIOUS
<1>2. k \in 1..Len(p) /\ p[k].what = "size" => p[k].number \in Nat
  BY <1>1, CellFacts
<1> QED
  BY <1>2, CellKinds DEF NumberAt

\* The sessions that go along are slots of the device, from the first one on.
LEMMA CountInRange ==
    ASSUME NEW flags
    PROVE  TPM2_GetCmdAuthCount(flags) \in 0..MaxSession
<1>1. MaxSession \in Nat
  BY TPM2Assumption
<1>2. IsFiniteSet(Slots) /\ Cardinality(Slots) = MaxSession
  BY <1>1, FS_Interval DEF Slots
<1> DEFINE S == {k \in Slots :
                   /\ \/ Authorizes(k, flags)
                      \/ Follows(k, flags) /\ Useful(slots[k].attrs, flags)
                   /\ \A j \in 0..k - 1 : AuthReq(j, flags) \/ Follows(j, flags)}
<1>3. S \subseteq Slots
  OBVIOUS
<1>4. IsFiniteSet(S) /\ Cardinality(S) <= Cardinality(Slots)
  BY <1>2, <1>3, FS_Subset
<1>5. Cardinality(S) \in Nat
  BY <1>4, FS_CardinalityType
<1>6. TPM2_GetCmdAuthCount(flags) = Cardinality(S)
  BY DEF TPM2_GetCmdAuthCount
<1> QED
  BY <1>1, <1>2, <1>4, <1>5, <1>6

\* What TPM2_Packet_AppendAuth writes.
LEMMA AppendAuthFacts ==
    ASSUME Types, NEW n \in 0..MaxSession
    PROVE  /\ AppendAuth(n) \in Seq(Cell)
           /\ Len(AppendAuth(n)) = IF n = 0 THEN 0 ELSE n + 1
           /\ n # 0 => AppendAuth(n)[1] = Size(n)
           /\ \A k \in 0..n - 1 : /\ AppendAuth(n)[k + 2].what = "auth"
                                  /\ AppendAuth(n)[k + 2].slot = k
<1>1. CASE n = 0
  BY <1>1 DEF AppendAuth
<1>2. CASE n # 0
  <2> DEFINE auth(k) == AppendAuthCmd(k - 1, "stale", slots[k - 1].attrs)
             auths == [k \in 1..n |-> auth(k)]
  <2>1. n \in Nat /\ n >= 1 /\ MaxSession \in Nat /\ n <= MaxSession
    BY <1>2, TPM2Assumption
  <2>2. ASSUME NEW k \in 1..n
        PROVE  auth(k) \in Cell /\ auth(k).what = "auth" /\ auth(k).slot = k - 1
    <3>1. k - 1 \in Slots
      BY <2>1 DEF Slots
    <3>2. slots[k - 1].attrs \in SUBSET Attributes
      BY <3>1 DEF Types
    <3>3. slots[k - 1].attrs \union {"continue"} \in SUBSET Attributes
      BY <3>2 DEF Attributes
    <3>4. PICK attrs \in SUBSET Attributes : auth(k) = Auth(k - 1, "stale", attrs)
      BY <3>2, <3>3 DEF AppendAuthCmd
    <3>5. Auth(k - 1, "stale", attrs) \in Cell
      BY <3>1, CellKinds
    <3> QED
      BY <3>4, <3>5 DEF Auth
  <2> HIDE DEF auth
  <2>3. auths \in Seq(Cell) /\ Len(auths) = n /\ \A k \in 1..n : auths[k] = auth(k)
    BY <2>1, <2>2
  <2>4. << Size(n) >> \in Seq(Cell)
    <3>1. Size(n) \in Cell
      BY <2>1, CellKinds
    <3> QED
      BY <3>1
  <2>5. AppendAuth(n) = << Size(n) >> \o auths
    BY <1>2 DEF AppendAuth, auth
  <2> HIDE DEF auths
  <2>6. /\ AppendAuth(n) \in Seq(Cell) /\ Len(AppendAuth(n)) = n + 1
        /\ AppendAuth(n)[1] = Size(n)
        /\ \A k \in 1..n : AppendAuth(n)[1 + k] = auths[k]
    BY <2>1, <2>3, <2>4, <2>5, Joined
  <2>7. ASSUME NEW k \in 0..n - 1
        PROVE  /\ AppendAuth(n)[k + 2].what = "auth"
               /\ AppendAuth(n)[k + 2].slot = k
    <3>1. k + 1 \in 1..n /\ 1 + (k + 1) = k + 2 /\ (k + 1) - 1 = k
      BY <2>1
    <3> QED
      BY <2>2, <2>3, <2>6, <3>1
  <2> QED
    BY <1>2, <2>6, <2>7
<1> QED
  BY <1>1, <1>2

\* Four pieces make a packet.
LEMMA Pieces ==
    ASSUME NEW a \in Seq(Cell), NEW b \in Seq(Cell), NEW c \in Seq(Cell), NEW d \in Seq(Cell),
           NEW z, z = a \o b \o c \o d
    PROVE  /\ z \in Seq(Cell) /\ Len(z) = Len(a) + Len(b) + Len(c) + Len(d)
           /\ \A k \in 1..Len(a) : z[k] = a[k]
           /\ \A k \in 1..Len(b) : z[Len(a) + k] = b[k]
           /\ \A k \in 1..Len(c) : z[Len(a) + Len(b) + k] = c[k]
           /\ \A k \in 1..Len(d) : z[Len(a) + Len(b) + Len(c) + k] = d[k]
<1> DEFINE x == a \o b
           y == x \o c
<1>0. Len(a) \in Nat /\ Len(b) \in Nat /\ Len(c) \in Nat /\ Len(d) \in Nat
  OBVIOUS
<1>1. /\ x \in Seq(Cell) /\ Len(x) = Len(a) + Len(b)
      /\ \A k \in 1..Len(a) : x[k] = a[k]
      /\ \A k \in 1..Len(b) : x[Len(a) + k] = b[k]
  BY Joined
<1> HIDE DEF x
<1>2. /\ y \in Seq(Cell) /\ Len(y) = Len(x) + Len(c)
      /\ \A k \in 1..Len(x) : y[k] = x[k]
      /\ \A k \in 1..Len(c) : y[Len(x) + k] = c[k]
  BY <1>1, Joined
<1> HIDE DEF y
<1>3. /\ z \in Seq(Cell) /\ Len(z) = Len(y) + Len(d)
      /\ \A k \in 1..Len(y) : z[k] = y[k]
      /\ \A k \in 1..Len(d) : z[Len(y) + k] = d[k]
  <2>1. z = y \o d
    BY DEF x, y
  <2>2. y \in Seq(Cell)
    BY <1>2
  <2> QED
    BY ONLY <2>1, <2>2, d \in Seq(Cell), Joined
<1>4. \A k \in 1..Len(a) : z[k] = a[k]
  BY <1>0, <1>1, <1>2, <1>3
<1>5. \A k \in 1..Len(b) : z[Len(a) + k] = b[k]
  <2> TAKE k \in 1..Len(b)
  <2>1. Len(a) + k \in 1..Len(x) /\ Len(a) + k \in 1..Len(y)
    BY <1>0, <1>1, <1>2
  <2> QED
    BY <1>1, <1>2, <1>3, <2>1
<1>6. \A k \in 1..Len(c) : z[Len(a) + Len(b) + k] = c[k]
  <2> TAKE k \in 1..Len(c)
  <2>1. Len(x) + k \in 1..Len(y) /\ Len(a) + Len(b) + k = Len(x) + k
    BY <1>0, <1>1, <1>2
  <2> QED
    BY <1>2, <1>3, <2>1
<1>7. \A k \in 1..Len(d) : z[Len(a) + Len(b) + Len(c) + k] = d[k]
  <2> TAKE k \in 1..Len(d)
  <2>1. Len(a) + Len(b) + Len(c) + k = Len(y) + k
    BY <1>0, <1>1, <1>2
  <2> QED
    BY <1>3, <2>1
<1>8. Len(z) = Len(a) + Len(b) + Len(c) + Len(d)
  BY <1>1, <1>2, <1>3
<1> QED
  BY <1>3, <1>4, <1>5, <1>6, <1>7, <1>8

-----------------------------------------------------------------------------
(* Calling a function.                                                     *)

LEMMA InitEstablishes == Init => IInv
<1> SUFFICES ASSUME Init PROVE IInv
  OBVIOUS
<1>1. slots \in [Slots -> [handle : Handles, attrs : SUBSET Attributes]]
  BY TPM2Assumption DEF Init
<1>2. packet \in Seq(Cell) /\ authCnt \in 0..MaxSession
  BY TPM2Assumption DEF Init
<1>3. Types
  BY <1>1, <1>2, FirstCommand, ShapeFacts DEF Init, Types
<1> QED
  BY <1>3 DEF Init, IInv, TagInv, CommandInv, AnswerInv, NonceInv, SessionsInStep

\* A packet with a header, h handles, n sessions and the parameters w.
Packet(p, tag, h, n, w) ==
    LET place == IF n = 0 THEN h + 1 ELSE h + 2 + n
    IN /\ h \in Nat /\ w \in Seq(STRING)
       /\ p \in Seq(Cell) /\ Len(p) = place + Len(w) /\ p[1] = Header(tag)
       /\ \A k \in 1..h : p[k + 1] = Field("handle")
       /\ n # 0 => p[h + 2] = Size(n)
       /\ \A k \in 0..n - 1 : p[h + 3 + k].what = "auth" /\ p[h + 3 + k].slot = k
       /\ \A k \in 1..Len(w) : p[place + k] = Field(w[k])

\* The packet that a function puts together.
LEMMA CallPacket ==
    ASSUME Types, NEW c \in DOMAIN Commands, NEW s \in Shapes, NEW n \in 0..MaxSession,
           NEW tag, Header(tag) \in Cell,
           NEW p, p = << Header(tag) >> \o HandleFields(Commands[c].handles) \o AppendAuth(n)
                        \o Fields(Written(Commands[c].in, s))
    PROVE  Packet(p, tag, Commands[c].handles, n, Written(Commands[c].in, s))
<1> DEFINE h == Commands[c].handles
           w == Written(Commands[c].in, s)
           q == IF n = 0 THEN h + 1 ELSE h + 2 + n
<1> DEFINE a == << Header(tag) >>
           b == HandleFields(h)
           d == AppendAuth(n)
           f == Fields(w)
<1>1. h \in Nat /\ w \in Seq(STRING) /\ Len(w) \in Nat /\ n \in Nat
  BY Rows, Layouts, TPM2Assumption
<1>2. a \in Seq(Cell) /\ Len(a) = 1 /\ a[1] = Header(tag)
  OBVIOUS
<1>3. b \in Seq(Cell) /\ Len(b) = h /\ \A k \in 1..h : b[k] = Field("handle")
  BY <1>1, HandleFacts
<1>4. /\ d \in Seq(Cell) /\ Len(d) = IF n = 0 THEN 0 ELSE n + 1
      /\ n # 0 => d[1] = Size(n)
      /\ \A k \in 0..n - 1 : d[k + 2].what = "auth" /\ d[k + 2].slot = k
  BY AppendAuthFacts
<1>5. f \in Seq(Cell) /\ Len(f) = Len(w) /\ \A k \in 1..Len(w) : f[k] = Field(w[k])
  BY <1>1, FieldsFacts
<1>6. p = a \o b \o d \o f
  OBVIOUS
<1>14. (n = 0 => q = h + 1) /\ (n # 0 => q = h + 2 + n)
  OBVIOUS
<1> HIDE DEF a, b, d, f, h, w, q
<1>7. /\ p \in Seq(Cell) /\ Len(p) = Len(a) + Len(b) + Len(d) + Len(f)
      /\ \A k \in 1..Len(a) : p[k] = a[k]
      /\ \A k \in 1..Len(b) : p[Len(a) + k] = b[k]
      /\ \A k \in 1..Len(d) : p[Len(a) + Len(b) + k] = d[k]
      /\ \A k \in 1..Len(f) : p[Len(a) + Len(b) + Len(d) + k] = f[k]
  <2>1. a \in Seq(Cell) /\ b \in Seq(Cell) /\ d \in Seq(Cell) /\ f \in Seq(Cell)
    BY <1>2, <1>3, <1>4, <1>5
  <2> QED
    BY ONLY <1>6, <2>1, Pieces, SMTT(30)
<1>0. /\ Len(a) = 1 /\ Len(b) = h /\ (n = 0 => Len(d) = 0) /\ (n # 0 => Len(d) = n + 1)
      /\ (n = 0 => q = h + 1) /\ (n # 0 => q = h + 2 + n)
  BY <1>2, <1>3, <1>4, <1>14
<1>8. Len(a) + Len(b) + Len(d) = q /\ Len(p) = q + Len(w)
  <2>1. Len(a) + Len(b) + Len(d) = q
    BY ONLY <1>0, <1>1
  <2> QED
    BY ONLY <2>1, <1>5, <1>7
<1>9. p[1] = Header(tag)
  BY <1>2, <1>7
<1>10. \A k \in 1..h : p[k + 1] = Field("handle")
  <2>1. \A k \in 1..h : p[1 + k] = b[k] /\ 1 + k = k + 1
    BY ONLY <1>0, <1>1, <1>7
  <2> QED
    BY ONLY <1>3, <2>1
<1>11. n # 0 => p[h + 2] = Size(n)
  <2> SUFFICES ASSUME n # 0 PROVE p[h + 2] = Size(n)
    OBVIOUS
  <2>1. 1 \in 1..Len(d) /\ Len(a) + Len(b) + 1 = h + 2
    BY <1>1, <1>2, <1>3, <1>4
  <2> QED
    BY <1>4, <1>7, <2>1
<1>12. ASSUME NEW k \in 0..n - 1
       PROVE  p[h + 3 + k].what = "auth" /\ p[h + 3 + k].slot = k
  <2>0. k \in 0..n - 1
    OBVIOUS
  <2>1. k + 2 \in 1..Len(d) /\ Len(a) + Len(b) + (k + 2) = h + 3 + k
    BY ONLY <1>0, <1>1, <2>0
  <2>2. p[h + 3 + k] = d[k + 2]
    BY ONLY <1>7, <2>1
  <2> QED
    BY ONLY <1>4, <2>0, <2>2
<1>13. \A k \in 1..Len(w) : p[q + k] = Field(w[k])
  BY <1>5, <1>7, <1>8
<1> QED
  BY <1>1, <1>7, <1>8, <1>9, <1>10, <1>11, <1>12, <1>13 DEF h, w, q, Packet

LEMMA CallPreserves ==
    ASSUME IInv, NEW c \in DOMAIN Commands, NEW s \in ShapesOf(c), Call(c, s)
    PROVE  IInv'
<1> DEFINE d == Commands[c]
           n == IF d.kind = "plain" \/ ~set THEN 0 ELSE TPM2_GetCmdAuthCount(d.flags)
           tag == IF d.kind \in {"authorized", "unguarded"} \/ (d.kind = "open" /\ n > 0)
                  THEN "sessions" ELSE "none"
<1>1. s \in Shapes /\ cmd' = c /\ shape' = s
  BY ShapeFacts DEF Call
<1>2. n \in 0..MaxSession /\ n \in Nat /\ tag \in {"none", "sessions"}
  BY CountInRange, TPM2Assumption
<1>3. d.kind \in Kinds /\ d.inHandleCnt \in Nat
  BY Rows
<1>4. CASE d.kind = "authorized" /\ ~set
  <2>1. /\ pc' = "returned" /\ rc' = "BAD_FUNC_ARG"
        /\ UNCHANGED << slots, set, inStep, authCnt, packet, i, pos >>
    BY <1>4 DEF Call, Return
  <2> QED
    BY <1>1, <2>1 DEF IInv, Types, TagInv, CommandInv, AnswerInv, NonceInv, SessionsInStep
<1>5. CASE ~ (d.kind = "authorized" /\ ~set)
  <2>1. /\ authCnt' = n
        /\ packet' = << Header(tag) >> \o HandleFields(d.handles) \o AppendAuth(n)
                       \o Fields(Written(d.in, s))
        /\ slots' = [k \in Slots |->
              IF k < n /\ slots[k].handle = "password"
              THEN [slots[k] EXCEPT !.attrs = @ \union {"continue"}] ELSE slots[k]]
        /\ UNCHANGED << set, inStep >>
        /\ IF tag = "none" THEN pc' = "send" /\ UNCHANGED << rc, i, pos >>
           ELSE IF n < 1
           THEN Return("TPM_RC_AUTH_MISSING") /\ UNCHANGED << i, pos >>
           ELSE pc' = "process" /\ i' = 0 /\ pos' = 1 + d.inHandleCnt + 2 /\ UNCHANGED rc
    BY <1>5, Zenon DEF Call
  <2> DEFINE h == d.handles
             w == Written(d.in, s)
             q == IF n = 0 THEN h + 1 ELSE h + 2 + n
  <2>2. /\ h \in Nat /\ w \in Seq(STRING)
        /\ packet' \in Seq(Cell) /\ Len(packet') = q + Len(w) /\ packet'[1] = Header(tag)
        /\ \A k \in 1..h : packet'[k + 1] = Field("handle")
        /\ n # 0 => packet'[h + 2] = Size(n)
        /\ \A k \in 0..n - 1 : packet'[h + 3 + k].what = "auth" /\ packet'[h + 3 + k].slot = k
        /\ \A k \in 1..Len(w) : packet'[q + k] = Field(w[k])
    <3> HIDE DEF n, tag
    <3>1. packet' = << Header(tag) >> \o HandleFields(Commands[c].handles) \o AppendAuth(n)
                      \o Fields(Written(Commands[c].in, s))
      BY <2>1
    <3>2. Types /\ s \in Shapes /\ n \in 0..MaxSession /\ tag \in {"none", "sessions"}
      BY <1>1, <1>2 DEF IInv
    <3>3. Header(tag) \in Cell
      BY <3>2, CellKinds
    <3>4. Packet(packet', tag, Commands[c].handles, n, Written(Commands[c].in, s))
      BY <3>1, <3>2, <3>3, CallPacket
    <3> QED
      BY <3>4 DEF Packet
  <2>3. slots' \in [Slots -> [handle : Handles, attrs : SUBSET Attributes]]
    <3> HIDE DEF n
    <3> QED
      BY <2>1 DEF IInv, Types, Attributes
  <2>4. n # 0 => d.kind # "plain"
    OBVIOUS
  <2>5. /\ pc' = "process" => tag = "sessions" /\ n # 0
        /\ pc' = "send" => tag = "none"
        /\ pc' \in {"process", "send", "returned"}
        /\ pc' = "returned" => rc' # "success"
    <3> HIDE DEF n, tag
    <3> QED
      BY <1>2, <2>1 DEF Return
  <2>6. pc' = "send" => n = 0 /\ d.kind \in {"plain", "open"}
    BY <1>2, <1>3, <2>5 DEF Kinds
  <2>7. i' \in Nat /\ pos' \in Nat /\ (pc' = "process" => i' = 0 /\ pos' = d.inHandleCnt + 3)
    <3> HIDE DEF n, tag, d
    <3>1. \/ UNCHANGED << i, pos >> /\ pc' # "process"
          \/ i' = 0 /\ pos' = 1 + d.inHandleCnt + 2
      BY <2>1 DEF Return
    <3>2. i \in Nat /\ pos \in Nat
      BY DEF IInv, Types
    <3> QED
      BY ONLY <1>3, <3>1, <3>2
  <2> HIDE DEF n, tag
  <2>8. Types'
    BY <1>1, <1>2, <2>1, <2>2, <2>3, <2>7 DEF IInv, Types
  <2>9. TagInv'
    <3>1. Row' = d
      BY <1>1 DEF Row
    <3>2. pc' \in {"process", "send"} => Tag' = tag
      BY <1>2, <2>1, <2>5, <2>6 DEF Tag
    <3>3. Len(packet') # 0
      BY <1>2, <2>2
    <3> QED
      BY <1>2, <1>3, <2>1, <2>2, <2>4, <2>5, <2>6, <2>7, <3>1, <3>2, <3>3, SMTT(30) DEF TagInv
  <2>10. CommandInv'
    <3>1. Row' = d /\ Params' = w /\ Place' = q
      BY <1>1, <2>1 DEF Row, Params, Place
    <3>2. ASSUME pc' \in {"process", "send"}, NEW k \in 0..n - 1
          PROVE  Entry(k)'
      <4>1. pc' = "process" /\ ~ (k < i')
        BY <1>2, <2>5, <2>6, <2>7, <3>2
      <4>2. packet'[Row'.handles + 3 + k].what = "auth" /\ packet'[Row'.handles + 3 + k].slot = k
        BY <2>2, <3>1
      <4> QED
        BY <4>1, <4>2 DEF Entry
    <3> HIDE DEF w, q, h
    <3> QED
      BY <2>1, <2>2, <3>1, <3>2 DEF CommandInv, h
  <2>11. AnswerInv' /\ NonceInv' /\ SessionsInStep'
    BY <2>5 DEF AnswerInv, NonceInv, SessionsInStep
  <2> QED
    BY <2>8, <2>9, <2>10, <2>11 DEF IInv
<1> QED
  BY <1>4, <1>5

-----------------------------------------------------------------------------
(* The sessions of the command.                                            *)

\* A call that ends without success leaves nothing to say.
LEMMA EndPreserves ==
    ASSUME IInv, pc' = "returned", rc' # "success", Types'
    PROVE  IInv'
  BY DEF IInv, TagInv, CommandInv, AnswerInv, NonceInv, SessionsInStep

\* The places of a packet with h handles, m sessions and l parameters, n cells in all, of
\* which q is that of the session j.
InPlace(h, m, l, n, j, q) ==
    /\ \A k \in 1..h : k + 1 \in 1..n /\ k + 1 # q
    /\ h + 2 \in 1..n /\ h + 2 # q
    /\ \A k \in 1..l : h + 2 + m + k \in 1..n /\ h + 2 + m + k # q
    /\ \A k \in 0..m - 1 : h + 3 + k \in 1..n /\ (k # j => h + 3 + k # q)

LEMMA Places ==
    ASSUME NEW h \in Nat, NEW m \in Nat, NEW l \in Nat, NEW j \in Nat, j < m,
           NEW q, NEW n, q = h + 3 + j, n = h + 2 + m + l
    PROVE  InPlace(h, m, l, n, j, q)
  BY DEF InPlace

LEMMA CommandProcessPreserves ==
    ASSUME IInv, CommandProcess
    PROVE  IInv'
<1> DEFINE attrs == IF slots[i].handle \in {"hmac", "policy"} THEN Masked(slots[i].attrs, Row.flags)
                    ELSE slots[i].attrs
           cell == AppendAuthCmd(i, "fresh", attrs)
<1>1. /\ pc = "process" /\ i < authCnt
      /\ UNCHANGED << slots, set, inStep, cmd, shape, authCnt >>
  BY DEF CommandProcess
<1>2. (IF slots[i].handle = "password" THEN packet ELSE AfterGetNonce(packet)) = packet
  BY DEF AfterGetNonce
<1>3. \/ pc' = "returned" /\ rc' # "success" /\ UNCHANGED << i, pos, packet >>
      \/ packet' = Replace(packet, pos, cell) /\ i' = i + 1 /\ pos' = pos + 1 /\ UNCHANGED << pc, rc >>
  BY <1>2 DEF CommandProcess, Return, Row
<1>4. CASE pc' = "returned" /\ rc' # "success" /\ UNCHANGED << i, pos, packet >>
  <2>1. Types'
    BY <1>1, <1>4 DEF IInv, Types
  <2> QED
    BY <1>4, <2>1, EndPreserves
<1>5. CASE packet' = Replace(packet, pos, cell) /\ i' = i + 1 /\ pos' = pos + 1
           /\ UNCHANGED << pc, rc >>
  <2>1. /\ authCnt \in Nat /\ authCnt <= MaxSession /\ i \in Nat /\ i \in Slots
        /\ Row.inHandleCnt \in Nat /\ Row.handles \in Nat /\ pos = Row.inHandleCnt + 3 + i
        /\ Row.kind # "plain" /\ (cmd \notin Miscounted => Row.inHandleCnt = Row.handles)
    <3>1. authCnt \in 0..MaxSession /\ MaxSession \in Nat /\ i \in Nat
      BY TPM2Assumption DEF IInv, Types
    <3>2. authCnt # 0 /\ i \in Slots
      BY <1>1, <3>1 DEF Slots
    <3>3. Row.kind # "plain" /\ pos = Row.inHandleCnt + 3 + i
      BY <1>1, <3>2 DEF IInv, TagInv
    <3>4. /\ Row.inHandleCnt \in Nat /\ Row.handles \in Nat
          /\ cmd \notin Miscounted /\ Row.kind # "plain" => Row.inHandleCnt = Row.handles
      BY Rows DEF IInv, Types, Row
    <3> QED
      BY <3>1, <3>2, <3>3, <3>4
  <2>2. /\ cell \in Cell /\ cell.what = "auth" /\ cell.slot = i /\ cell.nonce = "fresh"
        /\ slots[i].handle = "hmac" => cell.attrs = Masked(slots[i].attrs, Row.flags)
    <3>1. slots[i].attrs \in SUBSET Attributes
      BY <2>1 DEF IInv, Types
    <3>2. attrs \in SUBSET Attributes
      BY <3>1 DEF Masked
    <3>3. attrs \union {"continue"} \in SUBSET Attributes
      BY <3>2 DEF Attributes
    <3>4. slots[i].handle = "hmac" => attrs = Masked(slots[i].attrs, Row.flags)
      OBVIOUS
    <3> HIDE DEF attrs
    <3>5. PICK a \in SUBSET Attributes :
             cell = Auth(i, "fresh", a) /\ (slots[i].handle = "hmac" => a = attrs)
      BY <3>2, <3>3 DEF AppendAuthCmd
    <3>6. Auth(i, "fresh", a) \in Cell
      BY <2>1, CellKinds
    <3> QED
      BY <3>4, <3>5, <3>6 DEF Auth
  <2> HIDE DEF cell
  <2>3. /\ packet \in Seq(Cell) /\ packet' \in Seq(Cell) /\ Len(packet') = Len(packet)
        /\ \A j \in 1..Len(packet) : packet'[j] = IF j = pos THEN cell ELSE packet[j]
    <3>1. packet \in Seq(Cell) /\ pos \in Nat
      BY DEF IInv, Types
    <3> DEFINE r == Replace(packet, pos, cell)
    <3>2. /\ r \in Seq(Cell) /\ Len(r) = Len(packet)
          /\ \A j \in 1..Len(packet) : r[j] = IF j = pos THEN cell ELSE packet[j]
      <4>1. cell \in Cell
        BY <2>2
      <4> QED
        BY ONLY <3>1, <4>1, ReplaceFacts
    <3>3. packet' = r
      BY <1>5
    <3> QED
      BY <3>1, <3>2, <3>3
  <2>4. Types'
    BY <1>1, <1>5, <2>1, <2>3, SMTT(30) DEF IInv, Types
  <2>5. Row' = Row /\ Params' = Params /\ Place' = Place /\ Tag' = Tag
    BY <1>1 DEF Row, Params, Place, Tag
  <2>6. TagInv'
    <3>1. Len(packet) # 0 /\ packet[1] = Header(Tag)
      BY <1>1 DEF IInv, TagInv
    <3>2. 1 \in 1..Len(packet) /\ 1 # pos
      BY <2>1, <2>3, <3>1
    <3>3. packet'[1] = Header(Tag')
      BY <2>3, <2>5, <3>1, <3>2
    <3>4. i' <= authCnt' /\ pos' = Row'.inHandleCnt + 3 + i'
      BY <1>1, <1>5, <2>1, <2>5
    <3> QED
      BY <1>1, <1>5, <2>3, <2>5, <3>1, <3>3, <3>4 DEF IInv, TagInv
  <2>7. CommandInv'
    <3> SUFFICES ASSUME cmd \notin Miscounted PROVE CommandInv'
      BY <1>1 DEF CommandInv
    <3>1. /\ Len(packet) = Place + Len(Params)
          /\ \A k \in 1..Row.handles : packet[k + 1] = Field("handle")
          /\ packet[Row.handles + 2] = Size(authCnt)
          /\ \A k \in 0..authCnt - 1 : Entry(k)
          /\ \A k \in 1..Len(Params) : packet[Place + k] = Field(Params[k])
      BY <1>1, <2>1 DEF IInv, CommandInv
    <3>2. Place = Row.handles + 2 + authCnt /\ pos = Row.handles + 3 + i /\ Len(Params) \in Nat
      <4>1. Len(Params) \in Nat
        BY Layouts DEF IInv, Types, Params, Row
      <4> QED
        BY <1>1, <2>1, <4>1 DEF Place
    <3>8. /\ Len(packet) = Row.handles + 2 + authCnt + Len(Params)
          /\ Row.handles \in Nat /\ authCnt \in Nat /\ i \in Nat /\ i < authCnt
          /\ Place = Row.handles + 2 + authCnt /\ pos = Row.handles + 3 + i
          /\ Len(Params) \in Nat
      BY <1>1, <2>1, <3>1, <3>2
    <3>9. /\ \A k \in 1..Row.handles : k + 1 \in 1..Len(packet) /\ k + 1 # pos
          /\ Row.handles + 2 \in 1..Len(packet) /\ Row.handles + 2 # pos
          /\ \A k \in 1..Len(Params) : Place + k \in 1..Len(packet) /\ Place + k # pos
          /\ \A k \in 0..authCnt - 1 : /\ Row.handles + 3 + k \in 1..Len(packet)
                                       /\ k # i => Row.handles + 3 + k # pos
      <4>1. InPlace(Row.handles, authCnt, Len(Params), Len(packet), i, pos)
        BY ONLY <3>8, Places
      <4> QED
        BY <3>8, <4>1 DEF InPlace
    <3>3. \A j \in 1..Len(packet) : j # pos => packet'[j] = packet[j]
      BY <2>3
    <3>4. \A k \in 1..Row.handles : packet'[k + 1] = Field("handle")
      BY <3>1, <3>3, <3>9
    <3>5. packet'[Row.handles + 2] = Size(authCnt)
      BY <3>1, <3>3, <3>9
    <3>6. \A k \in 1..Len(Params) : packet'[Place + k] = Field(Params[k])
      BY <3>1, <3>3, <3>9
    <3>7. ASSUME NEW k \in 0..authCnt - 1
          PROVE  Entry(k)'
      <4>1. Row.handles + 3 + k \in 1..Len(packet)
        BY <3>9
      <4>2. Entry(k)
        BY <3>1
      <4>3. CASE k = i
        <5>1. packet'[Row.handles + 3 + k] = cell
          BY <2>3, <3>2, <4>1, <4>3
        <5> QED
          BY <1>1, <2>2, <2>5, <4>3, <5>1 DEF Entry
      <4>4. CASE k # i
        <5>1. packet'[Row.handles + 3 + k] = packet[Row.handles + 3 + k]
          <6>1. Row.handles + 3 + k # pos
            BY <3>9, <4>4
          <6> QED
            BY <3>3, <4>1, <6>1
        <5>2. pc = "process" /\ pc' = "process" /\ (k < i' => k < i)
          BY <1>1, <1>5, <2>1, <4>4
        <5> QED
          BY <1>1, <2>5, <4>2, <5>1, <5>2 DEF Entry
      <4> QED
        BY <4>3, <4>4
    <3> QED
      BY <1>1, <2>3, <2>5, <3>1, <3>4, <3>5, <3>6, <3>7 DEF CommandInv
  <2>8. AnswerInv' /\ NonceInv' /\ SessionsInStep'
    BY <1>1, <1>5 DEF AnswerInv, NonceInv, SessionsInStep
  <2> QED
    BY <2>4, <2>6, <2>7, <2>8 DEF IInv
<1> QED
  BY <1>3, <1>4, <1>5

LEMMA CommandProcessedPreserves ==
    ASSUME IInv, CommandProcessed
    PROVE  IInv'
<1> DEFINE tmpSz == 1 + Row.inHandleCnt + 1
           cell == Size(pos - tmpSz - 1)
<1>1. /\ pc = "process" /\ i = authCnt /\ pc' = "send"
      /\ packet' = Replace(packet, tmpSz, cell)
      /\ UNCHANGED << slots, set, inStep, cmd, shape, authCnt, i, pos, rc >>
  BY DEF CommandProcessed, Row
<1>2. /\ authCnt \in Nat /\ authCnt # 0 /\ i \in Nat /\ packet \in Seq(Cell)
      /\ Row.inHandleCnt \in Nat /\ Row.handles \in Nat /\ pos = Row.inHandleCnt + 3 + i
      /\ Row.kind # "plain" /\ (cmd \notin Miscounted => Row.inHandleCnt = Row.handles)
  <2>1. authCnt \in 0..MaxSession /\ MaxSession \in Nat /\ i \in Nat /\ packet \in Seq(Cell)
    BY TPM2Assumption DEF IInv, Types
  <2>2. authCnt # 0 /\ Row.kind # "plain" /\ pos = Row.inHandleCnt + 3 + i
    BY <1>1, <2>1 DEF IInv, TagInv
  <2>3. /\ Row.inHandleCnt \in Nat /\ Row.handles \in Nat
        /\ cmd \notin Miscounted /\ Row.kind # "plain" => Row.inHandleCnt = Row.handles
    BY Rows DEF IInv, Types, Row
  <2> QED
    BY <2>1, <2>2, <2>3
<1>3. tmpSz \in Nat /\ tmpSz # 1 /\ cell = Size(authCnt) /\ cell \in Cell
  <2>1. tmpSz \in Nat /\ tmpSz # 1 /\ pos - tmpSz - 1 = authCnt
    BY ONLY <1>1, <1>2
  <2>2. cell = Size(authCnt)
    BY <2>1
  <2>3. Size(authCnt) \in Cell
    BY <1>2, CellKinds
  <2> QED
    BY <2>1, <2>2, <2>3
<1>4. cmd \notin Miscounted => tmpSz = Row.handles + 2
  BY <1>2
<1> HIDE DEF tmpSz, cell
<1>5. /\ packet' \in Seq(Cell) /\ Len(packet') = Len(packet)
      /\ \A j \in 1..Len(packet) : packet'[j] = IF j = tmpSz THEN cell ELSE packet[j]
  <2> DEFINE r == Replace(packet, tmpSz, cell)
  <2>1. /\ r \in Seq(Cell) /\ Len(r) = Len(packet)
        /\ \A j \in 1..Len(packet) : r[j] = IF j = tmpSz THEN cell ELSE packet[j]
    <3>1. packet \in Seq(Cell) /\ tmpSz \in Nat /\ cell \in Cell
      BY <1>2, <1>3
    <3> QED
      BY ONLY <3>1, ReplaceFacts
  <2>2. packet' = r
    BY <1>1
  <2> QED
    BY <2>1, <2>2
<1>6. Types'
  BY <1>1, <1>5 DEF IInv, Types
<1>7. Row' = Row /\ Params' = Params /\ Place' = Place /\ Tag' = Tag
  BY <1>1 DEF Row, Params, Place, Tag
<1>8. TagInv'
  <2>1. Len(packet) # 0 /\ packet[1] = Header(Tag)
    BY <1>1 DEF IInv, TagInv
  <2>2. 1 \in 1..Len(packet)
    BY <1>2, <2>1
  <2>3. packet'[1] = Header(Tag')
    BY <1>3, <1>5, <1>7, <2>1, <2>2
  <2> QED
    BY <1>1, <1>2, <1>5, <1>7, <2>1, <2>3 DEF TagInv
<1>9. CommandInv'
  <2> SUFFICES ASSUME cmd \notin Miscounted PROVE CommandInv'
    BY <1>1 DEF CommandInv
  <2>1. /\ Len(packet) = Place + Len(Params)
        /\ \A k \in 1..Row.handles : packet[k + 1] = Field("handle")
        /\ packet[Row.handles + 2] = Size(authCnt)
        /\ \A k \in 0..authCnt - 1 : Entry(k)
        /\ \A k \in 1..Len(Params) : packet[Place + k] = Field(Params[k])
    BY <1>1, <1>2 DEF IInv, CommandInv
  <2>2. \A j \in 1..Len(packet) : packet'[j] = packet[j]
    BY <1>3, <1>4, <1>5, <2>1
  <2>3. Len(Params) \in Nat
    BY Layouts DEF IInv, Types, Params, Row
  <2>4. /\ Row.handles \in Nat /\ authCnt \in Nat /\ 0 \in Nat /\ 0 < authCnt
        /\ Len(packet) = Row.handles + 2 + authCnt + Len(Params) /\ Len(Params) \in Nat
        /\ Place = Row.handles + 2 + authCnt
    BY <1>2, <2>1, <2>3 DEF Place
  <2>5. /\ \A k \in 1..Row.handles : k + 1 \in 1..Len(packet)
        /\ Row.handles + 2 \in 1..Len(packet)
        /\ \A k \in 1..Len(Params) : Place + k \in 1..Len(packet)
        /\ \A k \in 0..authCnt - 1 : Row.handles + 3 + k \in 1..Len(packet)
    <3>1. InPlace(Row.handles, authCnt, Len(Params), Len(packet), 0, Row.handles + 3 + 0)
      BY ONLY <2>4, Places
    <3> QED
      BY <2>4, <3>1 DEF InPlace
  <2>6. ASSUME NEW k \in 0..authCnt - 1
        PROVE  Entry(k)'
    <3>1. Entry(k) /\ k < i /\ packet'[Row.handles + 3 + k] = packet[Row.handles + 3 + k]
      BY <1>1, <1>2, <2>1, <2>2, <2>5
    <3> QED
      BY <1>1, <1>7, <3>1 DEF Entry
  <2> QED
    BY <1>1, <1>5, <1>7, <2>1, <2>2, <2>5, <2>6 DEF CommandInv
<1>10. AnswerInv' /\ NonceInv' /\ SessionsInStep'
  BY <1>1 DEF AnswerInv, NonceInv, SessionsInStep
<1> QED
  BY <1>6, <1>8, <1>9, <1>10 DEF IInv

-----------------------------------------------------------------------------
(* The link and the answer.                                                *)

LEMMA RolledIsBoolean == Rolled \in [Slots -> BOOLEAN]
  BY DEF Rolled

LEMMA SendEndPreserves ==
    ASSUME IInv, SendFails \/ Refused \/ AnswerLost
    PROVE  IInv'
<1>1. /\ pc' = "returned" /\ rc' # "success"
      /\ UNCHANGED << slots, set, cmd, shape, authCnt, i, pos >>
  BY DEF SendFails, Refused, AnswerLost, Return
<1>2. inStep' \in [Slots -> BOOLEAN]
  BY RolledIsBoolean DEF SendFails, Refused, AnswerLost, IInv, Types
<1>3. packet' \in Seq(Cell)
  <2>1. Header("none") \in Cell
    BY CellKinds
  <2>2. << Header("none") >> \in Seq(Cell)
    BY <2>1
  <2> QED
    BY <2>2 DEF SendFails, Refused, AnswerLost, IInv, Types
<1>4. Types'
  BY <1>1, <1>2, <1>3 DEF IInv, Types
<1> QED
  BY <1>1, <1>4, EndPreserves

\* What the TPM answers with: a header, handles, the size of the results if the command
\* had sessions, the results, and the sessions.
Answer(p, tag, h, w, n) ==
    LET behind == IF tag = "none" THEN h + 1 ELSE h + 2
        auths == IF tag = "none" THEN 0 ELSE n
    IN /\ p \in Seq(Cell) /\ Len(p) = behind + Len(w) + auths
       /\ \A k \in 1..h : p[k + 1] = Field("handle")
       /\ tag # "none" => p[h + 2] = Size(Len(w))
       /\ \A k \in 1..Len(w) : p[behind + k] = Field(w[k])
       /\ \A k \in 1..auths : p[behind + Len(w) + k].what = "auth"

\* An answer without sessions.
LEMMA PlainAnswer ==
    ASSUME NEW tag \in {"none", "sessions"}, NEW h \in Nat, NEW w \in Seq(STRING), NEW n,
           NEW p, p = << Header(tag) >> \o HandleFields(h) \o Fields(w), tag = "none"
    PROVE  Answer(p, tag, h, w, n)
<1> DEFINE a == << Header(tag) >>
           b == HandleFields(h)
           f == Fields(w)
           x == a \o b
<1>1. a \in Seq(Cell) /\ Len(a) = 1
  <2>1. Header(tag) \in Cell
    BY CellKinds
  <2> QED
    BY <2>1
<1>2. b \in Seq(Cell) /\ Len(b) = h /\ \A k \in 1..h : b[k] = Field("handle")
  BY HandleFacts
<1>3. f \in Seq(Cell) /\ Len(f) = Len(w) /\ \A k \in 1..Len(w) : f[k] = Field(w[k])
  BY FieldsFacts
<1>4. p = x \o f
  OBVIOUS
<1> HIDE DEF a, b, f
<1>5. /\ x \in Seq(Cell) /\ Len(x) = 1 + h
      /\ \A k \in 1..h : x[1 + k] = b[k]
  <2>1. a \in Seq(Cell) /\ b \in Seq(Cell)
    BY <1>1, <1>2
  <2>2. /\ a \o b \in Seq(Cell) /\ Len(a \o b) = Len(a) + Len(b)
        /\ \A k \in 1..Len(b) : (a \o b)[Len(a) + k] = b[k]
    BY ONLY <2>1, Joined
  <2> QED
    BY <1>1, <1>2, <2>2
<1> HIDE DEF x
<1>6. /\ p \in Seq(Cell) /\ Len(p) = 1 + h + Len(w)
      /\ \A k \in 1..Len(x) : p[k] = x[k]
      /\ \A k \in 1..Len(w) : p[1 + h + k] = f[k]
  <2>1. x \in Seq(Cell) /\ f \in Seq(Cell)
    BY <1>3, <1>5
  <2>2. /\ x \o f \in Seq(Cell) /\ Len(x \o f) = Len(x) + Len(f)
        /\ \A k \in 1..Len(x) : (x \o f)[k] = x[k]
        /\ \A k \in 1..Len(f) : (x \o f)[Len(x) + k] = f[k]
    BY ONLY <2>1, Joined
  <2> QED
    BY <1>3, <1>4, <1>5, <2>2
<1>7. \A k \in 1..h : 1 + k \in 1..Len(x) /\ 1 + k = k + 1
  BY <1>5
<1>8. 1 + h = h + 1 /\ Len(w) \in Nat /\ 1 + h + Len(w) = h + 1 + Len(w) + 0
  OBVIOUS
<1> QED
  BY <1>2, <1>3, <1>5, <1>6, <1>7, <1>8, SMTT(30) DEF Answer

\* An answer with the n sessions of g.
LEMMA SessionAnswer ==
    ASSUME NEW tag \in {"none", "sessions"}, NEW h \in Nat, NEW w \in Seq(STRING), NEW n \in Nat,
           NEW g \in Seq(Cell), Len(g) = n, \A k \in 1..n : g[k].what = "auth",
           NEW p, p = << Header(tag) >> \o HandleFields(h)
                        \o (<< Size(Len(Fields(w))) >> \o Fields(w) \o g),
           tag # "none"
    PROVE  Answer(p, tag, h, w, n)
<1> DEFINE a == << Header(tag) >>
           b == HandleFields(h)
           c == << Size(Len(Fields(w))) >>
           f == Fields(w)
           x == a \o b
           e == c \o f
           y == e \o g
<1>0. Len(w) \in Nat
  OBVIOUS
<1>1. a \in Seq(Cell) /\ Len(a) = 1
  <2>1. Header(tag) \in Cell
    BY CellKinds
  <2> QED
    BY <2>1
<1>2. b \in Seq(Cell) /\ Len(b) = h /\ \A k \in 1..h : b[k] = Field("handle")
  BY HandleFacts
<1>3. f \in Seq(Cell) /\ Len(f) = Len(w) /\ \A k \in 1..Len(w) : f[k] = Field(w[k])
  BY FieldsFacts
<1>4. c \in Seq(Cell) /\ Len(c) = 1 /\ c[1] = Size(Len(w))
  <2>1. Size(Len(f)) \in Cell
    BY <1>0, <1>3, CellKinds
  <2> QED
    BY <1>3, <2>1
<1>5. p = x \o y
  OBVIOUS
<1> HIDE DEF a, b, c, f
<1>6. x \in Seq(Cell) /\ Len(x) = 1 + h /\ \A k \in 1..h : x[1 + k] = b[k]
  <2>1. a \in Seq(Cell) /\ b \in Seq(Cell)
    BY <1>1, <1>2
  <2>2. /\ a \o b \in Seq(Cell) /\ Len(a \o b) = Len(a) + Len(b)
        /\ \A k \in 1..Len(b) : (a \o b)[Len(a) + k] = b[k]
    BY ONLY <2>1, Joined
  <2> QED
    BY <1>1, <1>2, <2>2
<1>7. /\ e \in Seq(Cell) /\ Len(e) = 1 + Len(w) /\ e[1] = Size(Len(w))
      /\ \A k \in 1..Len(w) : e[1 + k] = Field(w[k])
  <2>1. c \in Seq(Cell) /\ f \in Seq(Cell)
    BY <1>3, <1>4
  <2>2. /\ c \o f \in Seq(Cell) /\ Len(c \o f) = Len(c) + Len(f)
        /\ \A k \in 1..Len(c) : (c \o f)[k] = c[k]
        /\ \A k \in 1..Len(f) : (c \o f)[Len(c) + k] = f[k]
    BY ONLY <2>1, Joined
  <2> QED
    BY <1>3, <1>4, <2>2
<1> HIDE DEF x, e
<1>8. /\ y \in Seq(Cell) /\ Len(y) = 1 + Len(w) + n
      /\ \A k \in 1..1 + Len(w) : y[k] = e[k]
      /\ \A k \in 1..n : y[1 + Len(w) + k] = g[k]
  <2>1. e \in Seq(Cell) /\ g \in Seq(Cell)
    BY <1>7
  <2>2. /\ e \o g \in Seq(Cell) /\ Len(e \o g) = Len(e) + Len(g)
        /\ \A k \in 1..Len(e) : (e \o g)[k] = e[k]
        /\ \A k \in 1..Len(g) : (e \o g)[Len(e) + k] = g[k]
    BY ONLY <2>1, Joined
  <2> QED
    BY <1>7, <2>2
<1> HIDE DEF y
<1>9. /\ p \in Seq(Cell) /\ Len(p) = 1 + h + (1 + Len(w) + n)
      /\ \A k \in 1..1 + h : p[k] = x[k]
      /\ \A k \in 1..1 + Len(w) + n : p[1 + h + k] = y[k]
  <2>1. x \in Seq(Cell) /\ y \in Seq(Cell)
    BY <1>6, <1>8
  <2>2. /\ x \o y \in Seq(Cell) /\ Len(x \o y) = Len(x) + Len(y)
        /\ \A k \in 1..Len(x) : (x \o y)[k] = x[k]
        /\ \A k \in 1..Len(y) : (x \o y)[Len(x) + k] = y[k]
    BY ONLY <2>1, Joined
  <2> QED
    BY <1>5, <1>6, <1>8, <2>2
<1> HIDE <1>5
<1>10. PICK l \in Nat : l = Len(w)
  BY <1>0
<1>11. \A k \in 1..h : p[k + 1] = Field("handle")
  <2> TAKE k \in 1..h
  <2>1. 1 + k \in 1..1 + h /\ k + 1 = 1 + k
    OBVIOUS
  <2>2. p[1 + k] = x[1 + k]
    BY <1>9, <2>1
  <2>3. x[1 + k] = b[k]
    BY <1>6
  <2>4. b[k] = Field("handle")
    BY <1>2
  <2> QED
    BY <2>1, <2>2, <2>3, <2>4
<1>12. p[h + 2] = Size(Len(w))
  <2>1. h + 2 = 1 + h + 1 /\ 1 \in 1..1 + l + n /\ 1 \in 1..1 + l
    BY ONLY h \in Nat, l \in Nat, n \in Nat
  <2> QED
    BY <1>7, <1>8, <1>9, <1>10, <2>1
<1>13. \A k \in 1..l : p[h + 2 + k] = Field(w[k])
  <2> TAKE k \in 1..l
  <2>1. h + 2 + k = 1 + h + (1 + k) /\ 1 + k \in 1..1 + l + n /\ 1 + k \in 1..1 + l
    BY ONLY h \in Nat, l \in Nat, n \in Nat, k \in 1..l
  <2>2. p[1 + h + (1 + k)] = y[1 + k]
    BY <1>9, <1>10, <2>1
  <2>3. y[1 + k] = e[1 + k]
    BY <1>8, <1>10, <2>1
  <2>4. e[1 + k] = Field(w[k])
    BY <1>7, <1>10
  <2> QED
    BY <2>1, <2>2, <2>3, <2>4
<1>14. \A k \in 1..n : p[h + 2 + l + k].what = "auth"
  <2> TAKE k \in 1..n
  <2>1. h + 2 + l + k = 1 + h + (1 + l + k) /\ 1 + l + k \in 1..1 + l + n
    BY ONLY h \in Nat, l \in Nat, n \in Nat, k \in 1..n
  <2> QED
    BY <1>8, <1>9, <1>10, <2>1, SMTT(30)
<1>15. Len(p) = h + 2 + l + n
  BY <1>9, <1>10
<1> QED
  BY <1>9, <1>10, <1>11, <1>12, <1>13, <1>14, <1>15 DEF Answer

\* The answer to a command that is in order.
LEMMA AnswerFacts ==
    ASSUME IInv, pc = "send", WellFormed(packet), NEW p, p = AnswerTo(packet)
    PROVE  /\ packet[1].tag = Tag
           /\ Answer(p, Tag, OutHandles(Row), Answered, NumberAt(packet, Row.handles + 2))
<1> DEFINE h == Row.handles
           n == NumberAt(packet, h + 2)
           o == OutHandles(Row)
<1>1. Tag \in {"none", "sessions"} /\ packet[1].tag = Tag
  <2>1. packet[1] = Header(Tag) /\ Tag \in {"none", "sessions"}
    BY DEF IInv, TagInv, Tag
  <2> QED
    BY <2>1, CellKinds
<1>2. packet \in Seq(Cell) /\ h \in Nat /\ o \in Nat /\ Answered \in Seq(STRING)
  BY Rows, Layouts DEF IInv, Types, Row, Answered
<1>3. n \in Nat
  <2>1. h + 2 \in Nat
    BY <1>2
  <2> QED
    BY <1>2, <2>1, NumberFacts
<1>4. CASE Tag = "none"
  <2>1. p = << Header(Tag) >> \o HandleFields(o) \o Fields(Answered)
    BY <1>1, <1>4 DEF AnswerTo, Answered, Row
  <2> HIDE DEF h, n, o
  <2>2. Answer(p, Tag, o, Answered, n)
    BY ONLY <1>1, <1>2, <1>4, <2>1, PlainAnswer
  <2> QED
    BY <1>1, <2>2 DEF h, n, o
<1>5. CASE Tag # "none"
  <2> DEFINE auth(k) == [packet[h + 2 + k] EXCEPT !.nonce = "TPM"]
             g == [k \in 1..n |-> auth(k)]
  <2>1. p = << Header(Tag) >> \o HandleFields(o)
              \o (<< Size(Len(Fields(Answered))) >> \o Fields(Answered) \o g)
    BY <1>1, <1>5 DEF AnswerTo, Answered, Row
  <2>2. AuthCells(packet, h + 3, n)
    <3>1. packet[1].tag = "sessions"
      BY <1>1, <1>5
    <3> QED
      BY <3>1 DEF WellFormed, Row
  <2> HIDE DEF h, n, o
  <2>3. ASSUME NEW k \in 1..n
        PROVE  packet[h + 2 + k] \in Cell /\ packet[h + 2 + k].what = "auth"
    <3>1. h + 2 + k \in h + 3..h + 3 + n - 1 /\ h + 2 + k <= h + 3 + n - 1 /\ 1 <= h + 2 + k
      BY <1>2, <1>3
    <3>2. h + 3 + n - 1 <= Len(packet) /\ packet[h + 2 + k].what = "auth"
      BY <2>2, <3>1 DEF AuthCells
    <3>3. h + 2 + k \in 1..Len(packet)
      BY <1>2, <1>3, <3>1, <3>2
    <3> QED
      BY <1>2, <3>2, <3>3
  <2>4. ASSUME NEW k \in 1..n
        PROVE  auth(k) \in Cell /\ auth(k).what = "auth"
    BY <2>3, CellFacts
  <2> HIDE DEF auth
  <2>5. g \in Seq(Cell) /\ Len(g) = n /\ \A k \in 1..n : g[k].what = "auth"
    BY <1>3, <2>4
  <2> HIDE DEF g
  <2>6. Answer(p, Tag, o, Answered, n)
    BY ONLY <1>1, <1>2, <1>3, <1>5, <2>1, <2>5, SessionAnswer
  <2> QED
    BY <1>1, <2>6 DEF h, n, o
<1> QED
  BY <1>4, <1>5

LEMMA ExecutedPreserves ==
    ASSUME IInv, Executed
    PROVE  IInv'
<1> DEFINE n == NumberAt(packet, Row.handles + 2)
           o == OutHandles(Row)
           l == Len(Answered)
           size == 1 + Row.outHandleCnt + 1
<1>1. /\ pc = "send" /\ WellFormed(packet)
      /\ UNCHANGED << slots, set, cmd, shape, authCnt, rc >>
      /\ inStep' \in [Slots -> BOOLEAN]
  BY RolledIsBoolean DEF Executed
<1>2. packet' = AnswerTo(packet)
  BY DEF Executed
<1>3. packet[1].tag = Tag /\ Answer(packet', Tag, o, Answered, n)
  <2> DEFINE p == AnswerTo(packet)
  <2>1. packet[1].tag = Tag /\ Answer(p, Tag, o, Answered, n)
    BY <1>1, AnswerFacts
  <2> QED
    BY <1>2, <2>1
<1>4. /\ authCnt \in Nat /\ (authCnt = 0 => Tag = "none") /\ (authCnt # 0 => Tag = "sessions")
      /\ o \in Nat /\ l \in Nat /\ n \in Nat /\ Row.outHandleCnt \in Nat /\ Row.kind \in Kinds
      /\ (cmd \notin Miscounted /\ Row.kind # "plain" => Row.outHandleCnt = o)
      /\ i \in Nat /\ pos \in Nat
  <2>1. packet \in Seq(Cell) /\ Row.handles + 2 \in Nat /\ authCnt \in Nat
    BY Rows, TPM2Assumption DEF IInv, Types, Row
  <2>2. n \in Nat
    BY <2>1, NumberFacts
  <2>3. Answered \in Seq(STRING)
    BY Layouts DEF IInv, Types, Row, Answered
  <2>4. /\ o \in Nat /\ Row.outHandleCnt \in Nat /\ Row.kind \in Kinds
        /\ (cmd \notin Miscounted /\ Row.kind # "plain" => Row.outHandleCnt = o)
    BY Rows DEF IInv, Types, Row
  <2> QED
    BY <2>1, <2>2, <2>3, <2>4 DEF IInv, Types, Tag
<1>5. \/ Tag = "sessions" /\ pc' = "respond" /\ i' = 0 /\ pos' = size + NumberAt(packet', size) + 1
      \/ Tag = "none" /\ pc' = "read" /\ UNCHANGED << i, pos >>
  BY <1>2, <1>3, <1>4 DEF Executed, Row
<1>6. packet' \in Seq(Cell)
  BY <1>3 DEF Answer
<1>7. /\ Row' = Row /\ Answered' = Answered /\ Behind' = Behind
      /\ (Tag = "none" => Behind = o + 1) /\ (Tag # "none" => Behind = o + 2)
  BY <1>1, <1>4 DEF Row, Answered, Behind
<1> DEFINE m == NumberAt(packet', size)
<1>8. size \in Nat /\ m \in Nat
  <2>1. size \in Nat
    BY <1>4
  <2> HIDE DEF size
  <2> QED
    BY <1>6, <2>1, NumberFacts
<1> HIDE DEF n, m
<1>9. Types'
  <2>1. i' \in Nat /\ pos' \in Nat
    BY <1>4, <1>5, <1>8 DEF m
  <2> QED
    BY <1>1, <1>6, <2>1 DEF IInv, Types
<1>10. TagInv'
  <2>1. /\ Row.kind = "plain" => authCnt = 0
        /\ Row.kind \in {"authorized", "unguarded"} => authCnt # 0
    BY <1>1 DEF IInv, TagInv
  <2>2. pc' = "respond" => authCnt # 0
    BY <1>4, <1>5
  <2>3. pc' \in {"respond", "read"}
    BY <1>5
  <2> QED
    BY <1>1, <1>7, <2>1, <2>2, <2>3 DEF TagInv
<1>11. /\ Len(packet') = Behind + l + authCnt \/ (Len(packet') >= Behind + l /\ n # authCnt)
       /\ \A k \in 1..o : packet'[k + 1] = Field("handle")
       /\ authCnt # 0 => packet'[o + 2] = Size(l)
       /\ \A k \in 1..l : packet'[Behind + k] = Field(Answered[k])
       /\ n = authCnt => \A k \in 1..authCnt : packet'[Behind + l + k].what = "auth"
  <2>1. CASE Tag = "none"
    BY <1>3, <1>4, <1>7, <2>1 DEF Answer
  <2>2. CASE Tag = "sessions"
    BY <1>3, <1>4, <1>7, <2>2, SMTT(30) DEF Answer
  <2> QED
    BY <1>4, <2>1, <2>2
<1>12. Behind \in Nat
  BY <1>4 DEF Behind
<1>13. AnswerInv'
  <2>1. Len(packet') >= Behind + l
    BY <1>4, <1>11, <1>12
  <2> QED
    BY <1>1, <1>7, <1>11, <2>1 DEF AnswerInv
<1>14. NonceInv'
  <2> SUFFICES ASSUME cmd \notin Miscounted PROVE NonceInv'
    BY <1>1 DEF NonceInv
  <2>1. authCnt # 0 => n = authCnt
    <3> SUFFICES ASSUME authCnt # 0 PROVE n = authCnt
      OBVIOUS
    <3>1. /\ packet[Row.handles + 2] = Size(authCnt) /\ Place = Row.handles + 2 + authCnt
          /\ Len(packet) = Place + Len(Params)
      BY <1>1 DEF IInv, CommandInv, Place
    <3>2. packet \in Seq(Cell) /\ Row.handles \in Nat /\ Len(Params) \in Nat
      BY Rows, Layouts DEF IInv, Types, Params, Row
    <3>3. Row.handles + 2 \in Nat /\ Row.handles + 2 \in 1..Len(packet)
      <4>1. authCnt \in Nat /\ Len(packet) = Row.handles + 2 + authCnt + Len(Params)
        BY <1>4, <3>1
      <4> QED
        BY ONLY <3>2, <4>1, SMTT(30)
    <3> QED
      BY <1>4, <3>1, <3>2, <3>3, NumberFacts DEF n
  <2>2. authCnt = 0 => Len(packet') = Behind + l
    BY <1>3, <1>4, <1>7 DEF Answer
  <2>3. Len(packet') = Behind + l + authCnt
    BY <1>4, <1>11, <1>12, <2>1, <2>2
  <2>4. \A k \in 1..authCnt : packet'[Behind + l + k].what = "auth"
    <3>1. CASE authCnt = 0
      BY <3>1
    <3>2. CASE authCnt # 0
      BY <1>11, <2>1, <3>2
    <3> QED
      BY <3>1, <3>2
  <2>5. ASSUME pc' = "respond"
        PROVE  i' <= authCnt /\ pos' = Behind + l + 1 + i'
    <3>1. authCnt # 0 /\ i' = 0 /\ pos' = size + m + 1
      BY <1>4, <1>5, <2>5 DEF m
    <3>2. size = o + 2 /\ Behind = o + 2
      <4>1. Row.kind # "plain"
        BY <1>1, <3>1 DEF IInv, TagInv
      <4> QED
        BY <1>4, <1>7, <3>1, <4>1
    <3>3. m = l
      <4>1. o + 2 \in 1..Len(packet') /\ packet'[o + 2] = Size(l)
        BY <1>4, <1>11, <2>3, <3>1, <3>2
      <4> QED
        BY <1>4, <1>6, <1>8, <3>2, <4>1, NumberFacts DEF m
    <3> QED
      BY <1>4, <3>1, <3>2, <3>3
  <2>6. ASSUME NEW k \in 0..authCnt - 1, pc' = "read" \/ k < i'
        PROVE  FALSE
    BY <1>4, <1>5, <2>6
  <2> QED
    BY <1>1, <1>7, <2>3, <2>4, <2>5, <2>6 DEF NonceInv
<1>15. CommandInv' /\ SessionsInStep'
  BY <1>5 DEF CommandInv, SessionsInStep
<1> QED
  BY <1>9, <1>10, <1>13, <1>14, <1>15 DEF IInv

LEMMA ResponseProcessPreserves ==
    ASSUME IInv, ResponseProcess
    PROVE  IInv'
<1> DEFINE there == pos \in DOMAIN packet /\ packet[pos].what = "auth"
<1>1. /\ pc = "respond" /\ i < authCnt /\ pos' = pos + 1 /\ i' = i + 1
      /\ inStep' = [inStep EXCEPT ![i] = @ \/ (there /\ slots[i].handle # "password")]
      /\ \/ pc' = "returned" /\ rc' # "success"
         \/ UNCHANGED << pc, rc >>
      /\ UNCHANGED << slots, set, cmd, shape, authCnt, packet >>
  BY DEF ResponseProcess, Return
<1>2. /\ authCnt \in Nat /\ i \in Nat /\ pos \in Nat /\ authCnt <= MaxSession /\ i \in Slots
      /\ inStep \in [Slots -> BOOLEAN] /\ packet \in Seq(Cell)
  BY <1>1, TPM2Assumption DEF IInv, Types, Slots
<1>3. Types'
  <2>1. inStep' \in [Slots -> BOOLEAN]
    BY <1>1, <1>2
  <2> QED
    BY <1>1, <1>2, <2>1 DEF IInv, Types
<1>4. CASE pc' = "returned" /\ rc' # "success"
  BY <1>3, <1>4, EndPreserves
<1>5. CASE UNCHANGED << pc, rc >>
  <2>1. /\ Row' = Row /\ Answered' = Answered /\ Behind' = Behind /\ pc' = "respond"
    BY <1>1, <1>5 DEF Row, Answered, Behind
  <2>2. TagInv' /\ CommandInv' /\ SessionsInStep'
    BY <1>1, <2>1 DEF IInv, TagInv, CommandInv, SessionsInStep
  <2>3. AnswerInv'
    BY <1>1, <2>1 DEF IInv, AnswerInv
  <2>4. NonceInv'
    <3> SUFFICES ASSUME cmd \notin Miscounted PROVE NonceInv'
      BY <1>1 DEF NonceInv
    <3>1. /\ Len(packet) = Behind + Len(Answered) + authCnt
          /\ \A k \in 1..authCnt : packet[Behind + Len(Answered) + k].what = "auth"
          /\ pos = Behind + Len(Answered) + 1 + i
          /\ \A k \in 0..authCnt - 1 : k < i /\ slots[k].handle # "password" => inStep[k]
      BY <1>1 DEF IInv, NonceInv
    <3>2. Behind \in Nat /\ Len(Answered) \in Nat
      BY Rows, Layouts DEF IInv, Types, Behind, Answered, Row
    <3>3. there
      <4>1. i + 1 \in 1..authCnt /\ pos = Behind + Len(Answered) + (i + 1)
        BY <1>1, <1>2, <3>1, <3>2
      <4>2. pos \in 1..Len(packet)
        BY <1>1, <1>2, <3>1, <3>2, <4>1
      <4> QED
        BY <1>2, <3>1, <4>1, <4>2
    <3> HIDE DEF there
    <3>4. ASSUME NEW k \in 0..authCnt - 1, k < i', slots[k].handle # "password"
          PROVE  inStep'[k]
      <4>1. CASE k = i
        BY <1>1, <1>2, <3>3, <3>4, <4>1
      <4>2. CASE k # i
        <5>1. k < i
          BY <1>1, <1>2, <3>4, <4>2
        <5>2. inStep[k]
          BY <3>1, <3>4, <5>1
        <5> QED
          BY <1>1, <1>2, <4>2, <5>2
      <4> QED
        BY <4>1, <4>2
    <3>5. i' <= authCnt /\ pos' = Behind + Len(Answered) + 1 + i'
      BY <1>1, <1>2, <3>1, <3>2
    <3> QED
      BY <1>1, <2>1, <3>1, <3>4, <3>5 DEF NonceInv
  <2> QED
    BY <1>3, <2>2, <2>3, <2>4 DEF IInv
<1> QED
  BY <1>1, <1>4, <1>5

LEMMA ResponseProcessedPreserves ==
    ASSUME IInv, ResponseProcessed
    PROVE  IInv'
<1>1. /\ pc = "respond" /\ i = authCnt /\ pc' = "read"
      /\ UNCHANGED << slots, set, inStep, cmd, shape, authCnt, packet, i, pos, rc >>
  BY DEF ResponseProcessed
<1>2. /\ Row' = Row /\ Answered' = Answered /\ Behind' = Behind
  BY <1>1 DEF Row, Answered, Behind
<1>3. authCnt \in Nat
  BY TPM2Assumption DEF IInv, Types
<1>4. Types' /\ TagInv' /\ CommandInv' /\ AnswerInv' /\ SessionsInStep'
  BY <1>1, <1>2 DEF IInv, Types, TagInv, CommandInv, AnswerInv, SessionsInStep
<1>5. NonceInv'
  BY <1>1, <1>2, <1>3 DEF IInv, NonceInv
<1> QED
  BY <1>4, <1>5 DEF IInv

LEMMA ReadAnswerPreserves ==
    ASSUME IInv, ReadAnswer
    PROVE  IInv'
<1>1. /\ pc = "read" /\ pc' = "returned"
      /\ UNCHANGED << slots, set, inStep, cmd, shape, authCnt, packet, i, pos >>
  BY DEF ReadAnswer, Return
<1>2. Types' /\ TagInv' /\ CommandInv' /\ AnswerInv' /\ NonceInv'
  BY <1>1 DEF IInv, Types, TagInv, CommandInv, AnswerInv, NonceInv
<1>3. SessionsInStep'
  BY <1>1 DEF IInv, NonceInv, SessionsInStep
<1> QED
  BY <1>2, <1>3 DEF IInv

LEMMA ReturnedPreserves ==
    ASSUME IInv, Returned
    PROVE  IInv'
<1>1. /\ pc' = "idle" /\ cmd' = "Startup" /\ authCnt' = 0 /\ packet' = << >>
      /\ i' = 0 /\ pos' = 0 /\ shape' = AnyShape /\ UNCHANGED << slots, set, inStep >>
  BY DEF Returned
<1>2. packet' \in Seq(Cell) /\ authCnt' \in 0..MaxSession
  BY <1>1, TPM2Assumption
<1>3. Types'
  BY <1>1, <1>2, FirstCommand, ShapeFacts DEF IInv, Types
<1> QED
  BY <1>1, <1>3 DEF IInv, TagInv, CommandInv, AnswerInv, NonceInv, SessionsInStep

\* What the invariant speaks of is left alone.
LEMMA UnchangedPreserves ==
    ASSUME IInv, UNCHANGED << slots, inStep, pc, cmd, shape, authCnt, packet, i, pos, rc >>
    PROVE  IInv'
<1>1. /\ Row' = Row /\ Params' = Params /\ Place' = Place /\ Tag' = Tag
      /\ Answered' = Answered /\ Behind' = Behind
  BY DEF Row, Params, Place, Tag, Answered, Behind
<1>2. \A k : Entry(k)' = Entry(k)
  BY <1>1 DEF Entry
<1>3. Types' /\ TagInv'
  BY <1>1 DEF IInv, Types, TagInv
<1>4. CommandInv'
  BY <1>1, <1>2 DEF IInv, CommandInv
<1>5. AnswerInv' /\ NonceInv' /\ SessionsInStep'
  BY <1>1 DEF IInv, AnswerInv, NonceInv, SessionsInStep
<1> QED
  BY <1>3, <1>4, <1>5 DEF IInv

LEMMA NextPreserves == IInv /\ [Next]_vars => IInv'
<1> SUFFICES ASSUME IInv, [Next]_vars PROVE IInv'
  OBVIOUS
<1>1. CASE TPM2_SetSessionAuth
  BY <1>1, UnchangedPreserves DEF TPM2_SetSessionAuth
<1>2. ASSUME NEW c \in DOMAIN Commands, NEW s \in ShapesOf(c), Call(c, s) PROVE IInv'
  BY <1>2, CallPreserves
<1>3. CASE CommandProcess
  BY <1>3, CommandProcessPreserves
<1>4. CASE CommandProcessed
  BY <1>4, CommandProcessedPreserves
<1>5. CASE SendFails \/ Refused \/ AnswerLost
  BY <1>5, SendEndPreserves
<1>6. CASE Executed
  BY <1>6, ExecutedPreserves
<1>7. CASE ResponseProcess
  BY <1>7, ResponseProcessPreserves
<1>8. CASE ResponseProcessed
  BY <1>8, ResponseProcessedPreserves
<1>9. CASE ReadAnswer
  BY <1>9, ReadAnswerPreserves
<1>10. CASE Returned
  BY <1>10, ReturnedPreserves
<1>11. CASE UNCHANGED vars
  BY <1>11, UnchangedPreserves DEF vars
<1> QED
  BY <1>1, <1>2, <1>3, <1>4, <1>5, <1>6, <1>7, <1>8, <1>9, <1>10, <1>11 DEF Next

\* The inductive invariant: what every cell of the packet at hand is, wherever the
\* library is in putting a command together, sending it and taking its answer apart.
THEOREM Invariance == Spec => []IInv
<1>1. Init => IInv
  BY InitEstablishes
<1>2. IInv /\ [Next]_vars => IInv'
  BY NextPreserves
<1> QED
  BY <1>1, <1>2, PTL DEF Spec

-----------------------------------------------------------------------------
(* What the runs check.                                                    *)

\* A sequence of cells is what its cells are.
LEMMA SameCells ==
    ASSUME NEW a \in Seq(Cell), NEW b \in Seq(Cell), Len(a) = Len(b),
           \A k \in 1..Len(a) : a[k] = b[k]
    PROVE  a = b
  BY SeqEqual

\* A part of a packet.
LEMMA PartFacts ==
    ASSUME NEW p \in Seq(Cell), NEW m \in Nat, NEW n \in Nat, m + n <= Len(p),
           NEW q, q = SubSeq(p, m + 1, m + n)
    PROVE  q \in Seq(Cell) /\ Len(q) = n /\ \A k \in 1..n : q[k] = p[m + k]
<1>1. m + 1 \in 1..Len(p) + 1 /\ m + n \in (m + 1) - 1..Len(p)
  OBVIOUS
<1>2. /\ SubSeq(p, m + 1, m + n) \in Seq(Cell)
      /\ Len(SubSeq(p, m + 1, m + n)) = (m + n) - (m + 1) + 1
      /\ \A k \in 1..(m + n) - (m + 1) + 1 : SubSeq(p, m + 1, m + n)[k] = p[(m + 1) + k - 1]
  BY <1>1, SubSeqProperties
<1>3. (m + n) - (m + 1) + 1 = n /\ \A k \in 1..n : (m + 1) + k - 1 = m + k
  OBVIOUS
<1> QED
  BY <1>2, <1>3

\* What CommandInv says of a command that waits to be sent.
LEMMA CommandFacts ==
    ASSUME IInv, pc \in {"process", "send"}, cmd \notin Miscounted
    PROVE  /\ packet \in Seq(Cell) /\ Row.handles \in Nat /\ authCnt \in Nat
           /\ Params \in Seq(STRING) /\ Len(Params) \in Nat
           /\ Len(packet) = Place + Len(Params)
           /\ Place = IF authCnt = 0 THEN Row.handles + 1 ELSE Row.handles + 2 + authCnt
           /\ \A k \in 1..Row.handles : packet[k + 1] = Field("handle")
           /\ authCnt # 0 => packet[Row.handles + 2] = Size(authCnt)
           /\ \A k \in 0..authCnt - 1 : Entry(k)
           /\ \A k \in 1..Len(Params) : packet[Place + k] = Field(Params[k])
<1>1. packet \in Seq(Cell) /\ Row.handles \in Nat /\ authCnt \in Nat
  BY Rows, TPM2Assumption DEF IInv, Types, Row
<1>2. Params \in Seq(STRING)
  BY Layouts DEF IInv, Types, Row, Params
<1>3. Len(Params) \in Nat
  BY <1>2
<1>4. /\ Len(packet) = Place + Len(Params)
      /\ \A k \in 1..Row.handles : packet[k + 1] = Field("handle")
      /\ authCnt # 0 => packet[Row.handles + 2] = Size(authCnt)
      /\ \A k \in 0..authCnt - 1 : Entry(k)
      /\ \A k \in 1..Len(Params) : packet[Place + k] = Field(Params[k])
  BY DEF IInv, CommandInv
<1> QED
  BY <1>1, <1>2, <1>3, <1>4 DEF Place

\* A packet of which the invariant holds is one the TPM takes.
LEMMA CommandIsWellFormed ==
    ASSUME IInv, pc = "send", cmd \notin Miscounted, WellOrdered
    PROVE  /\ WellFormed(packet)
           /\ IF packet[1].tag = "none" THEN authCnt = 0
              ELSE NumberAt(packet, Row.handles + 2) = authCnt
<1> DEFINE h == Row.handles
           n == IF packet[1].tag = "none" THEN -1 ELSE NumberAt(packet, h + 2)
           l == Len(Params)
<1>1. /\ packet \in Seq(Cell) /\ h \in Nat /\ authCnt \in Nat
      /\ Params \in Seq(STRING) /\ l \in Nat
      /\ Len(packet) = Place + l
      /\ Place = IF authCnt = 0 THEN h + 1 ELSE h + 2 + authCnt
      /\ \A k \in 1..h : packet[k + 1] = Field("handle")
      /\ authCnt # 0 => packet[h + 2] = Size(authCnt)
      /\ \A k \in 0..authCnt - 1 : Entry(k)
      /\ \A k \in 1..l : packet[Place + k] = Field(Params[k])
  BY CommandFacts
<1>2. /\ packet[1].what = "header" /\ packet[1].tag = Tag
      /\ (authCnt = 0 => Tag = "none") /\ (authCnt # 0 => Tag = "sessions")
  <2>1. packet[1] = Header(Tag) /\ Tag \in {"none", "sessions"}
    BY DEF IInv, TagInv, Tag
  <2> QED
    BY <2>1, CellKinds DEF Tag
<1>3. authCnt # 0 => NumberAt(packet, h + 2) = authCnt
  <2> SUFFICES ASSUME authCnt # 0 PROVE NumberAt(packet, h + 2) = authCnt
    OBVIOUS
  <2>1. h + 2 \in Nat /\ h + 2 \in 1..Len(packet)
    <3>1. h \in Nat /\ l \in Nat /\ authCnt \in Nat /\ Len(packet) = h + 2 + authCnt + l
      BY <1>1
    <3> QED
      BY ONLY <3>1
  <2> QED
    BY <1>1, <2>1, NumberFacts
<1>4. (authCnt = 0 => n = -1) /\ (authCnt # 0 => n = authCnt)
  BY <1>2, <1>3
<1> HIDE DEF n, h
<1>5. SubSeq(packet, 2, h + 1) = HandleFields(h)
  <2> DEFINE q == SubSeq(packet, 1 + 1, 1 + h)
  <2>1. 1 \in Nat /\ 1 + h <= Len(packet)
    BY <1>1
  <2>2. q \in Seq(Cell) /\ Len(q) = h /\ \A k \in 1..h : q[k] = packet[1 + k]
    BY ONLY <1>1, <2>1, PartFacts
  <2>3. /\ HandleFields(h) \in Seq(Cell) /\ Len(HandleFields(h)) = h
        /\ \A k \in 1..h : HandleFields(h)[k] = Field("handle")
    BY <1>1, HandleFacts
  <2>4. SubSeq(packet, 2, h + 1) = q
    <3>1. 1 + 1 = 2 /\ 1 + h = h + 1
      BY <1>1
    <3> QED
      BY <3>1
  <2> HIDE DEF q
  <2>5. \A k \in 1..Len(q) : q[k] = HandleFields(h)[k]
    <3> TAKE k \in 1..Len(q)
    <3>1. k \in 1..h /\ 1 + k = k + 1
      BY <1>1, <2>2
    <3> QED
      BY <1>1, <2>2, <2>3, <3>1
  <2>6. q = HandleFields(h)
    BY ONLY <2>2, <2>3, <2>5, SameCells
  <2> QED
    BY <2>4, <2>6
<1>6. SubSeq(packet, h + n + 3, Len(packet)) = Fields(Params)
  <2> DEFINE q == SubSeq(packet, Place + 1, Place + l)
  <2>1. Place \in Nat /\ Place + l <= Len(packet)
    BY <1>1
  <2>2. q \in Seq(Cell) /\ Len(q) = l /\ \A k \in 1..l : q[k] = packet[Place + k]
    <3>1. packet \in Seq(Cell) /\ l \in Nat
      BY <1>1
    <3> QED
      BY ONLY <2>1, <3>1, PartFacts
  <2>3. /\ Fields(Params) \in Seq(Cell) /\ Len(Fields(Params)) = l
        /\ \A k \in 1..l : Fields(Params)[k] = Field(Params[k])
    BY <1>1, FieldsFacts
  <2>4. h + n + 3 = Place + 1 /\ Len(packet) = Place + l
    BY <1>1, <1>4
  <2> HIDE DEF q
  <2>5. q = Fields(Params)
    <3>1. \A k \in 1..Len(q) : q[k] = Fields(Params)[k]
      BY <1>1, <2>2, <2>3
    <3> QED
      BY ONLY <2>2, <2>3, <3>1, SameCells
  <2> QED
    BY <2>4, <2>5 DEF q
<1>7. ASSUME packet[1].tag = "sessions"
      PROVE  packet[h + 2].what = "size" /\ AuthCells(packet, h + 3, n)
  <2>1. authCnt # 0 /\ n = authCnt
    BY <1>2, <1>4, <1>7
  <2>2. packet[h + 2].what = "size"
    BY <1>1, <2>1, CellKinds
  <2>3. h + 3 + n - 1 <= Len(packet)
    BY <1>1, <2>1
  <2>4. ASSUME NEW k \in h + 3..h + 3 + n - 1
        PROVE  packet[k].what = "auth" /\ slots[packet[k].slot].handle # "none"
    <3>1. PICK j \in 0..authCnt - 1 : k = h + 3 + j
      <4>1. k - (h + 3) \in 0..authCnt - 1 /\ k = h + 3 + (k - (h + 3))
        BY <1>1, <2>1
      <4> QED
        BY <4>1
    <3>2. packet[k].what = "auth" /\ packet[k].slot = j
      BY <1>1, <3>1 DEF Entry, h
    <3>3. slots[j].handle # "none"
      BY <3>1 DEF WellOrdered
    <3> QED
      BY <3>2, <3>3
  <2> QED
    BY <2>2, <2>3, <2>4 DEF AuthCells
<1>8. WellFormed(packet)
  BY <1>2, <1>5, <1>6, <1>7 DEF WellFormed, n, h, Row, Params
<1> QED
  BY <1>2, <1>3, <1>8 DEF h

LEMMA InvImpliesWhole == IInv => CommandsArriveWhole
<1> SUFFICES ASSUME IInv, pc = "send", cmd \notin Miscounted, WellOrdered
             PROVE  /\ WellFormed(packet)
                    /\ IF packet[1].tag = "none" THEN authCnt = 0
                       ELSE NumberAt(packet, Row.handles + 2) = authCnt
                    /\ \A k \in 0..authCnt - 1 :
                         LET auth == packet[Row.handles + 3 + k]
                         IN /\ auth.slot = k /\ auth.nonce = "fresh"
                            /\ slots[k].handle = "hmac" =>
                                 auth.attrs = Masked(slots[k].attrs, Row.flags)
  BY DEF CommandsArriveWhole, Row
<1>1. \A k \in 0..authCnt - 1 : Entry(k)
  BY CommandFacts
<1> QED
  BY <1>1, CommandIsWellFormed DEF Entry

\* Commands reach the TPM whole, with an entry for each session that applies.
THEOREM CommandsDoArriveWhole == Spec => []CommandsArriveWhole
  BY Invariance, InvImpliesWhole, PTL

LEMMA InvImpliesSized == IInv => FirstParameterIsSized
<1> SUFFICES ASSUME IInv PROVE FirstParameterIsSized
  OBVIOUS
<1>1. RowIsSound(Row, shape)
  BY TableAssumption DEF IInv, Types, Row
<1>2. ASSUME pc = "process", i = 0, "enc" \in Row.flags, cmd \notin Miscounted
      PROVE  packet[pos + NumberAt(packet, pos - 1)] = Field("size")
  <2>1. /\ packet \in Seq(Cell) /\ Row.handles \in Nat /\ authCnt \in Nat /\ authCnt # 0
        /\ Params \in Seq(STRING) /\ Len(Params) \in Nat
        /\ Len(packet) = Place + Len(Params) /\ Place = Row.handles + 2 + authCnt
        /\ packet[Row.handles + 2] = Size(authCnt)
        /\ \A k \in 1..Len(Params) : packet[Place + k] = Field(Params[k])
    <3>1. authCnt # 0
      BY <1>2 DEF IInv, TagInv
    <3> QED
      BY <1>2, <3>1, CommandFacts
  <2>2. pos = Row.handles + 3
    <3>1. Row.inHandleCnt = Row.handles
      BY <1>2, <2>1, Rows DEF IInv, Types, TagInv, Row
    <3> QED
      BY <1>2, <2>1, <3>1 DEF IInv, TagInv
  <2>3. NumberAt(packet, pos - 1) = authCnt
    <3>1. pos - 1 = Row.handles + 2 /\ Row.handles + 2 \in Nat
      <4>1. Row.handles \in Nat
        BY <2>1
      <4> QED
        BY ONLY <2>2, <4>1
    <3>2. Row.handles + 2 \in 1..Len(packet)
      <4>1. /\ Row.handles \in Nat /\ authCnt \in Nat /\ Len(Params) \in Nat
            /\ Len(packet) = Row.handles + 2 + authCnt + Len(Params)
        BY <2>1
      <4> QED
        BY ONLY <4>1
    <3> QED
      BY <2>1, <3>1, <3>2, NumberFacts
  <2>4. Params # << >> /\ Params[1] = "size" /\ 1 \in 1..Len(Params)
    <3>1. Params # << >> /\ Params[1] = "size"
      BY <1>1, <1>2 DEF RowIsSound, Params
    <3> QED
      BY <2>1, <3>1
  <2>5. pos + authCnt = Place + 1
    BY <2>1, <2>2, SMTT(30)
  <2> QED
    BY <2>1, <2>3, <2>4, <2>5
<1>3. ASSUME pc = "respond", i = 0, "dec" \in Row.flags, cmd \notin Miscounted
      PROVE  packet[1 + Row.outHandleCnt + 2] = Field("size")
  <2>1. authCnt # 0 /\ Row.kind # "plain" /\ authCnt \in Nat
    BY <1>3, TPM2Assumption DEF IInv, Types, TagInv
  <2>2. Row.outHandleCnt = OutHandles(Row) /\ OutHandles(Row) \in Nat
    BY <1>3, <2>1, Rows DEF IInv, Types, Row
  <2>3. Behind = OutHandles(Row) + 2 /\ 1 + Row.outHandleCnt + 2 = Behind + 1
    BY <2>1, <2>2 DEF Behind
  <2>4. Answered # << >> /\ Answered[1] = "size" /\ Answered \in Seq(STRING)
    BY <1>1, <1>3 DEF RowIsSound, Answered
  <2>5. 1 \in 1..Len(Answered)
    BY <2>4
  <2>6. packet[Behind + 1] = Field(Answered[1])
    BY <1>3, <2>5 DEF IInv, AnswerInv
  <2> QED
    BY <2>3, <2>4, <2>6
<1> QED
  BY <1>2, <1>3 DEF FirstParameterIsSized, Row

\* Where the library looks for the first parameter, it finds a buffer behind its size.
THEOREM FirstParameterFound == Spec => []FirstParameterIsSized
  BY Invariance, InvImpliesSized, PTL

LEMMA InvImpliesInPlace == IInv => AnswersReadInPlace
<1> DEFINE names == Read(Reads, shape)
           o == OutHandles(Row)
           sized == IF authCnt = 0 THEN 0 ELSE 1
           l == Len(Answered)
<1> SUFFICES ASSUME IInv, pc = "read"
             PROVE  /\ Len(names) < Len(packet)
                    /\ \A k \in DOMAIN names :
                         packet[k + 1] = IF names[k] = "paramSz" THEN Size(l)
                                         ELSE Field(names[k])
  BY DEF AnswersReadInPlace, Answered, Row
<1>1. RowIsSound(Row, shape) /\ authCnt \in Nat /\ o \in Nat /\ Row.kind \in Kinds
  BY TableAssumption, TPM2Assumption, Rows DEF IInv, Types, Row
<1>2. names \in Seq(STRING) /\ NamesAnswer(names, Row, sized, Answered)
  <2>1. CASE authCnt = 0 /\ Row.kind = "plain"
    BY <1>1, <2>1 DEF Reads, RowIsSound, Answered, Row
  <2>2. CASE authCnt = 0 /\ Row.kind = "open"
    BY <1>1, <2>2 DEF Reads, RowIsSound, Answered, Row
  <2>3. CASE authCnt # 0
    <3>1. Row.kind # "plain" /\ authCnt > 0
      BY <1>1, <2>3 DEF IInv, TagInv
    <3> QED
      BY <1>1, <2>3, <3>1 DEF Reads, RowIsSound, Answered, Row
  <2>4. Row.kind \in {"authorized", "unguarded"} => authCnt # 0
    BY DEF IInv, TagInv
  <2> QED
    BY <1>1, <2>1, <2>2, <2>3, <2>4 DEF Kinds
<1>3. /\ Answered \in Seq(STRING) /\ l \in Nat /\ Behind = o + sized + 1 /\ Behind \in Nat
      /\ sized \in Nat
  BY <1>1, Layouts DEF IInv, Types, Answered, Row, Behind
<1>4. /\ Len(packet) >= Behind + l
      /\ \A k \in 1..o : packet[k + 1] = Field("handle")
      /\ authCnt # 0 => packet[o + 2] = Size(l)
      /\ \A k \in 1..l : packet[Behind + k] = Field(Answered[k])
  BY DEF IInv, AnswerInv
<1>5. Len(packet) \in Nat
  BY DEF IInv, Types
<1> HIDE DEF names, o, l
<1>6. /\ Len(names) \in Nat /\ DOMAIN names = 1..Len(names) /\ Len(names) < Behind + l
      /\ \A k \in 1..Len(names) :
           IF k <= o THEN names[k] = "handle"
           ELSE IF k < Behind THEN names[k] = "paramSz"
           ELSE names[k] # "paramSz" /\ names[k] = Answered[k - Behind + 1]
  <2>1. Len(names) \in Nat /\ DOMAIN names = 1..Len(names)
    BY <1>2
  <2> QED
    BY <1>2, <1>3, <2>1 DEF NamesAnswer, o, l
<1>7. ASSUME NEW k \in 1..Len(names)
      PROVE  packet[k + 1] = IF names[k] = "paramSz" THEN Size(l) ELSE Field(names[k])
  <2>1. CASE k <= o
    BY <1>1, <1>4, <1>6, <2>1
  <2>2. CASE ~ (k <= o) /\ k < Behind
    <3>1. authCnt # 0 /\ k = o + 1
      BY <1>1, <1>3, <1>6, <2>2
    <3>2. k + 1 = o + 2
      BY <1>1, <3>1
    <3> QED
      BY <1>4, <1>6, <2>2, <3>1, <3>2
  <2>3. CASE ~ (k <= o) /\ ~ (k < Behind)
    <3>1. k - Behind + 1 \in 1..l /\ Behind + (k - Behind + 1) = k + 1
      BY <1>1, <1>3, <1>6, <2>3
    <3> QED
      BY <1>4, <1>6, <2>3, <3>1
  <2> QED
    BY <2>1, <2>2, <2>3
<1>8. Len(names) < Len(packet)
  BY <1>3, <1>4, <1>5, <1>6
<1> QED
  BY <1>6, <1>7, <1>8

\* What a function reads from an answer is what the TPM put there.
THEOREM AnswersAreReadInPlace == Spec => []AnswersReadInPlace
  BY Invariance, InvImpliesInPlace, PTL

\* After a call that succeeded the library has the last nonce of every session.
THEOREM SessionsStayInStep == Spec => []SessionsInStep
<1>1. IInv => SessionsInStep
  BY DEF IInv
<1> QED
  BY <1>1, Invariance, PTL

-----------------------------------------------------------------------------
(* The wrappers.                                                           *)

HandleIds == Objects \union SessionIds \union {Persistent}
Loads == {"none", "key", "temporary", "hmac", "policy"}

\* What Done goes through, and the steps it takes.
World ==
    [handle : [Structures -> Int], hmacKeyLoaded : BOOLEAN,
     slot : [0 .. 1 -> [handle : Int, attrs : SUBSET Attributes]],
     loaded : [HandleIds -> Loads], kept : SUBSET {"slot", "session"}, missed : BOOLEAN,
     active : BOOLEAN, failed : Nat, ok : BOOLEAN, new : SUBSET HandleIds]

Making == {"key", "temporary", "hmac", "policy"}

StepSet ==
    [op : {"command", "unload", "slot", "handle", "session", "save", "put", "copy", "reset",
           "active", "keyLoaded", "keyUnloaded", "error"},
     traits : SUBSET {"sessions", "auth", "enc", "dec"}, uses : SUBSET Structures,
     into : Structures \union {"none"}, from : Structures \union {"none", "parent"},
     makes : Making \union {"none", "end", "clear", "persist"}, index : 0 .. 1, value : Int,
     attrs : SUBSET Attributes, always : BOOLEAN, ignore : SUBSET {"refused", "lost"}]

\* The steps that send something: what is made goes into a structure, and what is unloaded
\* comes from one.
Sending ==
    {t \in StepSet :
       \/ /\ t.op = "command"
          /\ t.makes \in Making <=> t.into # "none"
       \/ t.op = "unload" /\ t.into # "none" /\ t.uses = {t.into} /\ t.makes = "none"}

\* The slots that a command may go with.
SlotSets == {{}, {0}, {0, 1}}

NewHandle(w, t) == CHOOSE h \in Room(w, t.makes) : TRUE

\* What the TPM has after a command.
Going(w, t) ==
    IF t.op = "unload" \/ t.makes = "end" THEN {w.handle[s] : s \in t.uses}
    ELSE IF t.makes = "clear" THEN {h \in Objects \union {Persistent} : w.loaded[h] = "key"}
    ELSE {}

Coming(w, t) ==
    IF t.makes \in Making THEN {NewHandle(w, t)}
    ELSE IF t.makes = "persist" THEN {Persistent} ELSE {}

LoadedThen(w, t, sent) ==
    [h \in HandleIds |->
       IF h \in Going(w, t) \/ (0 \in sent /\ h = w.slot[0].handle /\ h \in SessionIds)
       THEN "none"
       ELSE IF h \in Coming(w, t) THEN IF t.makes = "persist" THEN "key" ELSE t.makes
       ELSE w.loaded[h]]

Refuses(w, t, v) ==
    /\ v \in World
    /\ v.handle = w.handle /\ v.slot = w.slot /\ v.loaded = w.loaded /\ v.kept = w.kept
    /\ v.missed = w.missed /\ v.active = w.active /\ v.hmacKeyLoaded = w.hmacKeyLoaded
    /\ v.failed = w.failed + 1 /\ (v.ok => w.ok /\ t.ignore # {})

Answers(w, t, sent, v) ==
    /\ v.ok = w.ok /\ v.failed = w.failed
    /\ v.handle = IF t.op = "unload" THEN [w.handle EXCEPT ![t.into] = None]
                  ELSE IF t.into # "none" THEN [w.handle EXCEPT ![t.into] = NewHandle(w, t)]
                  ELSE w.handle
    /\ IF t.op = "unload" /\ t.into = "session" THEN v.kept = {} /\ ~v.missed
       ELSE IF t.makes = "hmac" THEN v.kept = {"session"} /\ ~v.missed
       ELSE v.kept = (IF 1 \in sent THEN {"slot"} ELSE w.kept) /\ v.missed = w.missed

Loses(w, t, sent, v) ==
    /\ v.failed = w.failed + 1 /\ (v.ok => w.ok /\ t.ignore # {}) /\ v.handle = w.handle
    /\ \/ v.kept = (IF 1 \in sent THEN {} ELSE w.kept) /\ v.missed = (w.missed \/ 1 \in sent)
       \/ v.kept = (IF 1 \in sent THEN {"slot"} ELSE w.kept) /\ v.missed = w.missed

Executes(w, t, sent, v) ==
    /\ v \in World /\ v.slot = w.slot /\ v.active = w.active
    /\ v.hmacKeyLoaded = w.hmacKeyLoaded /\ v.loaded = LoadedThen(w, t, sent)
    /\ 1 \in sent => w.slot[1].handle \in SessionIds
    /\ t.makes \in Making => NewHandle(w, t) \in Room(w, t.makes)
    /\ t.makes = "persist" => w.loaded[Persistent] = "none"
    /\ Answers(w, t, sent, v) \/ Loses(w, t, sent, v)

LEMMA HandleFactsOfTpm ==
    /\ Objects \subseteq Nat \ {0} /\ SessionIds \subseteq Nat \ {0}
    /\ Objects \cap SessionIds = {} /\ HandleIds \subseteq Int
    /\ None \notin HandleIds /\ Password \notin HandleIds /\ Counter \notin HandleIds
    /\ Persistent \notin Objects \union SessionIds /\ None # Password
    /\ None # Persistent /\ None # Counter
<1> QED BY WrapAssumption DEF Objects, HandleIds, None, Password, Counter, Persistent

\* What an executed command leaves.
LEMMA ExecuteFacts ==
    ASSUME NEW w \in World, NEW t \in Sending, NEW sent \in SlotSets,
           t.makes \in Making => Room(w, t.makes) # {}
    PROVE  LET v == Execute(w, t, sent)
           IN /\ v \in World /\ v.handle = w.handle /\ v.slot = w.slot /\ v.active = w.active
              /\ v.hmacKeyLoaded = w.hmacKeyLoaded /\ v.loaded = LoadedThen(w, t, sent)
              /\ v.kept = (IF 1 \in sent THEN {} ELSE w.kept) /\ v.missed = w.missed
              /\ v.ok = w.ok /\ v.failed = w.failed /\ v.new = Coming(w, t)
              /\ t.makes \in Making => NewHandle(w, t) \in Room(w, t.makes)
<1> DEFINE l == LoadedThen(w, t, sent)
<1>1. t.makes \in Making => NewHandle(w, t) \in Room(w, t.makes)
  BY DEF NewHandle
<1>2. Room(w, t.makes) \subseteq HandleIds
  BY DEF Room, HandleIds
<1>3. Coming(w, t) \subseteq HandleIds
  BY <1>1, <1>2 DEF Coming, HandleIds
<1>4. l \in [HandleIds -> Loads]
  BY <1>1 DEF LoadedThen, World, Loads, Sending, StepSet, Coming, Making
<1>5. DOMAIN w.loaded = HandleIds
  BY DEF World
<1>6. Execute(w, t, sent) =
        [w EXCEPT !.loaded = l, !.kept = IF 1 \in sent THEN {} ELSE w.kept,
                  !.new = Coming(w, t)]
  <2>1. (CASE t.op = "unload" -> {w.handle[s] : s \in t.uses}
           [] t.makes = "end" -> {w.handle[s] : s \in t.uses}
           [] t.makes = "clear" -> {h \in Objects \union {Persistent} : w.loaded[h] = "key"}
           [] OTHER -> {}) = Going(w, t)
    BY DEF Going, Sending, StepSet
  <2>2. (IF t.makes \in {"key", "temporary", "hmac", "policy"}
         THEN {CHOOSE h \in Room(w, t.makes) : TRUE}
         ELSE IF t.makes = "persist" THEN {Persistent} ELSE {}) = Coming(w, t)
    BY DEF Coming, NewHandle, Making
  <2> DEFINE ended == IF 0 \in sent THEN {w.slot[0].handle} \cap SessionIds ELSE {}
  <2>3. [h \in DOMAIN w.loaded |->
           IF h \in Going(w, t) \union ended THEN "none"
           ELSE IF h \in Coming(w, t) THEN IF t.makes = "persist" THEN "key" ELSE t.makes
           ELSE w.loaded[h]] = l
    BY <1>5 DEF LoadedThen
  <2> HIDE DEF l
  <2> QED BY <2>1, <2>2, <2>3 DEF Execute
<1> HIDE DEF l
<1>7. (IF 1 \in sent THEN {} ELSE w.kept) \in SUBSET {"slot", "session"}
  BY DEF World
<1>8. [w EXCEPT !.loaded = l, !.kept = IF 1 \in sent THEN {} ELSE w.kept,
                !.new = Coming(w, t)] \in World
  BY <1>3, <1>4, <1>7 DEF World
<1>9. /\ [w EXCEPT !.loaded = l, !.kept = IF 1 \in sent THEN {} ELSE w.kept,
                !.new = Coming(w, t)].loaded = l
      /\ [w EXCEPT !.loaded = l, !.kept = IF 1 \in sent THEN {} ELSE w.kept,
                !.new = Coming(w, t)].new = Coming(w, t)
  BY DEF World
<1> QED BY <1>1, <1>6, <1>8, <1>9 DEF World, l

\* A step that fails.
LEMMA FailFacts ==
    ASSUME NEW w \in World, NEW t \in StepSet, NEW how
    PROVE  LET v == Fail(w, t, how)
           IN /\ v \in World /\ v.handle = w.handle /\ v.slot = w.slot /\ v.loaded = w.loaded
              /\ v.kept = w.kept /\ v.missed = w.missed /\ v.active = w.active
              /\ v.hmacKeyLoaded = w.hmacKeyLoaded /\ v.failed = w.failed + 1
              /\ v.ok => w.ok /\ t.ignore # {}
<1> DEFINE o == w.ok /\ how \in t.ignore
           f == w.failed + 1
           v == Fail(w, t, how)
<1>1. o \in BOOLEAN /\ (o => w.ok /\ t.ignore # {}) /\ f \in Nat
  BY DEF World
<1>2. v = [w EXCEPT !.ok = o, !.failed = f]
  BY DEF Fail
<1> HIDE DEF o, f, v
<1>3. v \in World
  BY <1>1, <1>2 DEF World
<1>4. v.ok = o
  BY <1>2 DEF World
<1>5. /\ v.handle = w.handle /\ v.slot = w.slot /\ v.loaded = w.loaded
      /\ v.kept = w.kept /\ v.missed = w.missed /\ v.active = w.active
      /\ v.hmacKeyLoaded = w.hmacKeyLoaded /\ v.failed = f
  BY <1>2 DEF World
<1> QED BY <1>1, <1>3, <1>4, <1>5 DEF f, v

\* A structure that is given another handle without a command.
LEMMA ForgottenFacts ==
    ASSUME NEW w \in World, NEW s \in Structures, NEW h \in Int
    PROVE  LET v == Forgotten([w EXCEPT !.handle[s] = h], s)
           IN /\ v \in World /\ v.slot = w.slot /\ v.loaded = w.loaded
              /\ v.active = w.active /\ v.hmacKeyLoaded = w.hmacKeyLoaded
              /\ v.ok = w.ok /\ v.failed = w.failed
              /\ v.handle = [w.handle EXCEPT ![s] = h]
              /\ IF s = "session" THEN v.kept = {} /\ ~v.missed
                 ELSE v.kept = w.kept /\ v.missed = w.missed
<1> DEFINE x == [w EXCEPT !.handle[s] = h]
           v == Forgotten(x, s)
<1>1. /\ x \in World /\ x.slot = w.slot /\ x.loaded = w.loaded /\ x.active = w.active
      /\ x.hmacKeyLoaded = w.hmacKeyLoaded /\ x.ok = w.ok /\ x.failed = w.failed
      /\ x.handle = [w.handle EXCEPT ![s] = h] /\ x.kept = w.kept /\ x.missed = w.missed
  BY DEF World
<1> HIDE DEF x
<1>2. CASE s = "session"
  <2>1. v = [x EXCEPT !.kept = {}, !.missed = FALSE]
    BY <1>2 DEF Forgotten
  <2> HIDE DEF v
  <2>2. v \in World /\ v.kept = {} /\ ~v.missed
    BY <1>1, <2>1 DEF World
  <2>3. /\ v.slot = x.slot /\ v.loaded = x.loaded /\ v.active = x.active
        /\ v.hmacKeyLoaded = x.hmacKeyLoaded /\ v.ok = x.ok /\ v.failed = x.failed
        /\ v.handle = x.handle
    BY <1>1, <2>1 DEF World
  <2>4. v.handle = [w.handle EXCEPT ![s] = h]
    BY ONLY <1>1, <2>3
  <2>5. /\ v.slot = w.slot /\ v.loaded = w.loaded
        /\ v.active = w.active /\ v.hmacKeyLoaded = w.hmacKeyLoaded
        /\ v.ok = w.ok /\ v.failed = w.failed
    BY ONLY <1>1, <2>3
  <2> QED BY ONLY <1>2, <2>2, <2>4, <2>5 DEF v, x
<1>3. CASE s # "session"
  <2>1. v = x
    BY <1>3 DEF Forgotten
  <2>2. /\ v \in World /\ v.slot = w.slot /\ v.loaded = w.loaded
        /\ v.active = w.active /\ v.hmacKeyLoaded = w.hmacKeyLoaded
        /\ v.ok = w.ok /\ v.failed = w.failed /\ v.kept = w.kept /\ v.missed = w.missed
        /\ v.handle = [w.handle EXCEPT ![s] = h]
    <3> HIDE DEF v
    <3> QED BY ONLY <1>1, <2>1
  <2> QED BY ONLY <1>3, <2>2 DEF v, x
<1> QED BY <1>2, <1>3 DEF v, x

\* An answer that arrives.
LEMMA AcceptFacts ==
    ASSUME NEW w \in World, NEW t \in Sending, NEW h \in Int,
           t.makes \in Making => w.new = {h}
    PROVE  LET v == Accept(w, t)
           IN /\ v \in World /\ v.slot = w.slot /\ v.loaded = w.loaded
              /\ v.active = w.active /\ v.hmacKeyLoaded = w.hmacKeyLoaded
              /\ v.ok = w.ok /\ v.failed = w.failed
              /\ v.handle = IF t.op = "unload" THEN [w.handle EXCEPT ![t.into] = None]
                            ELSE IF t.into # "none"
                            THEN [w.handle EXCEPT ![t.into] = h]
                            ELSE w.handle
              /\ IF t.op = "unload" /\ t.into = "session" THEN v.kept = {} /\ ~v.missed
                 ELSE IF t.makes = "hmac" THEN v.kept = {"session"} /\ ~v.missed
                 ELSE v.kept = w.kept /\ v.missed = w.missed

<1> DEFINE v == Accept(w, t)
<1>1. CASE t.op = "unload"
  <2>1. t.into \in Structures /\ t.makes # "hmac"
    BY <1>1 DEF Sending, StepSet
  <2>2. v = Forgotten([w EXCEPT !.handle[t.into] = None], t.into)
    BY <1>1 DEF Accept
  <2>3. None \in Int
    BY DEF None
  <2> HIDE DEF v
  <2>4. /\ v \in World /\ v.slot = w.slot /\ v.loaded = w.loaded
        /\ v.active = w.active /\ v.hmacKeyLoaded = w.hmacKeyLoaded
        /\ v.ok = w.ok /\ v.failed = w.failed
        /\ v.handle = [w.handle EXCEPT ![t.into] = None]
        /\ IF t.into = "session" THEN v.kept = {} /\ ~v.missed
           ELSE v.kept = w.kept /\ v.missed = w.missed
    BY <2>1, <2>2, <2>3, ForgottenFacts
  <2> QED BY <1>1, <2>1, <2>4 DEF v
<1>2. CASE t.op # "unload" /\ t.into # "none"
  <2> DEFINE k == IF t.makes = "hmac" THEN {"session"} ELSE w.kept
             m == IF t.makes = "hmac" THEN FALSE ELSE w.missed
  <2>1. t.into \in Structures /\ t.makes \in Making
    BY <1>2 DEF Sending, StepSet
  <2>2. w.new = {h}
    BY <2>1
  <2>4. (CHOOSE g \in w.new : TRUE) = h
    BY <2>2
  <2>5. v = [w EXCEPT !.handle = [w.handle EXCEPT ![t.into] = h], !.kept = k, !.missed = m]
    BY <1>2, <2>4 DEF Accept
  <2>6. k \in SUBSET {"slot", "session"} /\ m \in BOOLEAN
    BY DEF World
  <2> HIDE DEF k, m, v
  <2>7. [w.handle EXCEPT ![t.into] = h] \in [Structures -> Int]
    BY <2>1 DEF World
  <2> DEFINE g == [w.handle EXCEPT ![t.into] = h]
  <2>8. v = [w EXCEPT !.handle = g, !.kept = k, !.missed = m]
    BY <2>5
  <2>9. g \in [Structures -> Int]
    BY <2>7
  <2> HIDE DEF g
  <2>10. v \in World /\ v.handle = g /\ v.kept = k /\ v.missed = m
    BY <2>6, <2>8, <2>9 DEF World
  <2>11. /\ v.slot = w.slot /\ v.loaded = w.loaded /\ v.active = w.active
         /\ v.hmacKeyLoaded = w.hmacKeyLoaded /\ v.ok = w.ok /\ v.failed = w.failed
    BY <2>8 DEF World
  <2> QED BY <1>2, <2>10, <2>11 DEF g, k, m, v
<1>3. CASE t.op # "unload" /\ t.into = "none"
  <2>1. t.makes # "hmac"
    BY <1>3 DEF Sending, Making
  <2>2. v = w
    BY <1>3 DEF Accept
  <2> QED BY <1>3, <2>1, <2>2
<1> QED BY <1>1, <1>2, <1>3

\* Every way in which a command may go.
LEMMA TransmitFacts ==
    ASSUME NEW w \in World, NEW t \in Sending, NEW how
    PROVE  \/ Refuses(w, t, Transmit(w, t, how))
           \/ \E sent \in SlotSets : Executes(w, t, sent, Transmit(w, t, how))
<1> DEFINE n == AuthCount(w, t.traits)
           sent == 0 .. n - 1
           attrs == IF 1 \in sent THEN w.slot[1].attrs ELSE {}
           refused ==
             \/ how = "refused"
             \/ "sessions" \in t.traits /\ n = 0
             \/ "decrypt" \in attrs /\ "enc" \in t.traits
             \/ \E s \in t.uses : ~Live(w, w.handle[s])
             \/ \E k \in sent : w.slot[k].handle # Password /\ ~Live(w, w.slot[k].handle)
             \/ t.makes \in {"key", "temporary", "hmac", "policy"} /\ Room(w, t.makes) = {}
             \/ t.makes = "persist" /\ w.loaded[Persistent] # "none"
           E == Execute(w, t, sent)
           R == [E EXCEPT !.kept = IF 1 \in sent THEN {"slot"} ELSE @]
           v == Transmit(w, t, how)
<1>1. v = IF refused THEN Fail(w, t, "refused")
          ELSE IF how = "lost" THEN [Fail(E, t, "lost") EXCEPT !.missed = @ \/ 1 \in sent]
          ELSE IF "encrypt" \in attrs /\ "dec" \in t.traits THEN Fail(R, t, "refused")
          ELSE Accept(R, t)
  BY DEF Transmit
<1>2. n \in {0, 1, 2} /\ (n = 2 => w.slot[1].handle \in SessionIds)
  BY DEF AuthCount
<1>3. sent \in SlotSets /\ (1 \in sent => w.slot[1].handle \in SessionIds)
  BY <1>2 DEF SlotSets
<1>4. CASE refused
  <2>1. v = Fail(w, t, "refused")
    BY <1>1, <1>4
  <2> HIDE DEF v
  <2>2. t \in StepSet
    BY DEF Sending
  <2>3. Refuses(w, t, v)
    BY <2>1, <2>2, FailFacts DEF Refuses
  <2> QED BY <2>3 DEF v
<1>5. CASE ~refused
  <2>1. t.makes \in Making => Room(w, t.makes) # {}
    BY <1>5 DEF Making
  <2>2. t.makes = "persist" => w.loaded[Persistent] = "none"
    BY <1>5
  <2>3. v = IF how = "lost" THEN [Fail(E, t, "lost") EXCEPT !.missed = @ \/ 1 \in sent]
            ELSE IF "encrypt" \in attrs /\ "dec" \in t.traits THEN Fail(R, t, "refused")
            ELSE Accept(R, t)
    BY <1>1, <1>5
  <2> HIDE DEF sent, attrs, refused, n, v
  <2>4. /\ E \in World /\ E.handle = w.handle /\ E.slot = w.slot /\ E.active = w.active
        /\ E.hmacKeyLoaded = w.hmacKeyLoaded /\ E.loaded = LoadedThen(w, t, sent)
        /\ E.kept = (IF 1 \in sent THEN {} ELSE w.kept) /\ E.missed = w.missed
        /\ E.ok = w.ok /\ E.failed = w.failed /\ E.new = Coming(w, t)
        /\ t.makes \in Making => NewHandle(w, t) \in Room(w, t.makes)
    BY <1>3, <2>1, ExecuteFacts
  <2> HIDE DEF E
  <2>5. /\ R \in World /\ R.handle = w.handle /\ R.slot = w.slot /\ R.active = w.active
        /\ R.hmacKeyLoaded = w.hmacKeyLoaded /\ R.loaded = LoadedThen(w, t, sent)
        /\ R.kept = (IF 1 \in sent THEN {"slot"} ELSE w.kept) /\ R.missed = w.missed
        /\ R.ok = w.ok /\ R.failed = w.failed /\ R.new = Coming(w, t)
    BY <2>4 DEF World
  <2> HIDE DEF R
  <2>6. t \in StepSet /\ Room(w, t.makes) \subseteq HandleIds
    BY DEF Sending, Room, HandleIds
  <2>7. CASE how = "lost"
    <3> DEFINE F == Fail(E, t, "lost")
               m == F.missed \/ 1 \in sent
    <3>1. v = [F EXCEPT !.missed = m]
      BY <2>3, <2>7
    <3>2. /\ F \in World /\ F.handle = E.handle /\ F.slot = E.slot /\ F.loaded = E.loaded
          /\ F.kept = E.kept /\ F.missed = E.missed /\ F.active = E.active
          /\ F.hmacKeyLoaded = E.hmacKeyLoaded /\ F.failed = E.failed + 1
          /\ F.ok => E.ok /\ t.ignore # {}
      BY <2>4, <2>6, FailFacts
    <3>3. m \in BOOLEAN /\ m = (w.missed \/ 1 \in sent)
      BY <2>4, <3>2
    <3> HIDE DEF F, m
    <3>4. v \in World /\ v.missed = m
      BY <3>1, <3>2, <3>3 DEF World
    <3>5. /\ v.handle = F.handle /\ v.slot = F.slot /\ v.loaded = F.loaded
          /\ v.kept = F.kept /\ v.active = F.active /\ v.hmacKeyLoaded = F.hmacKeyLoaded
          /\ v.failed = F.failed /\ v.ok = F.ok
      BY <3>1, <3>2 DEF World
    <3>6. Loses(w, t, sent, v)
      BY <2>4, <3>2, <3>3, <3>4, <3>5 DEF Loses
    <3>7. Executes(w, t, sent, v)
      BY <1>3, <2>2, <2>4, <3>2, <3>4, <3>5, <3>6 DEF Executes
    <3> QED BY <1>3, <3>7 DEF v
  <2>8. CASE how # "lost" /\ "encrypt" \in attrs /\ "dec" \in t.traits
    <3>1. v = Fail(R, t, "refused")
      BY <2>3, <2>8
    <3>2. /\ v \in World /\ v.handle = R.handle /\ v.slot = R.slot /\ v.loaded = R.loaded
          /\ v.kept = R.kept /\ v.missed = R.missed /\ v.active = R.active
          /\ v.hmacKeyLoaded = R.hmacKeyLoaded /\ v.failed = R.failed + 1
          /\ v.ok => R.ok /\ t.ignore # {}
      BY <2>5, <2>6, <3>1, FailFacts
    <3>3. Loses(w, t, sent, v)
      BY <2>5, <3>2 DEF Loses
    <3>4. Executes(w, t, sent, v)
      BY <1>3, <2>2, <2>4, <2>5, <3>2, <3>3 DEF Executes
    <3> QED BY <1>3, <3>4 DEF v
  <2>9. CASE how # "lost" /\ ~("encrypt" \in attrs /\ "dec" \in t.traits)
    <3>1. v = Accept(R, t)
      BY <2>3, <2>9
    <3>2. PICK h \in Int : t.makes \in Making => h = NewHandle(w, t)
      <4>1. CASE t.makes \in Making
        <5>1. NewHandle(w, t) \in Int
          BY <2>4, <2>6, <4>1, HandleFactsOfTpm
        <5> QED BY <5>1
      <4>2. CASE t.makes \notin Making
        BY <4>2
      <4> QED BY <4>1, <4>2
    <3>3. t.makes \in Making => R.new = {h}
      BY <2>5, <3>2 DEF Coming
    <3>4. t.op # "unload" /\ t.into # "none" => t.makes \in Making
      BY DEF Sending
    <3>5. /\ v \in World /\ v.slot = R.slot /\ v.loaded = R.loaded
          /\ v.active = R.active /\ v.hmacKeyLoaded = R.hmacKeyLoaded
          /\ v.ok = R.ok /\ v.failed = R.failed
          /\ v.handle = IF t.op = "unload" THEN [R.handle EXCEPT ![t.into] = None]
                        ELSE IF t.into # "none" THEN [R.handle EXCEPT ![t.into] = h]
                        ELSE R.handle
          /\ IF t.op = "unload" /\ t.into = "session" THEN v.kept = {} /\ ~v.missed
             ELSE IF t.makes = "hmac" THEN v.kept = {"session"} /\ ~v.missed
             ELSE v.kept = R.kept /\ v.missed = R.missed
      BY <2>5, <3>1, <3>3, AcceptFacts
    <3>6. Answers(w, t, sent, v)
      BY <2>5, <3>2, <3>4, <3>5 DEF Answers
    <3>7. Executes(w, t, sent, v)
      BY <1>3, <2>2, <2>4, <2>5, <3>5, <3>6 DEF Executes
    <3> QED BY <1>3, <3>7 DEF v
  <2> QED BY <2>7, <2>8, <2>9
<1> QED BY <1>4, <1>5

\* The steps that send nothing.
Alike(w, v, others) ==
    /\ v \in World
    /\ "handle" \in others \/ v.handle = w.handle
    /\ "hmacKeyLoaded" \in others \/ v.hmacKeyLoaded = w.hmacKeyLoaded
    /\ "slot" \in others \/ v.slot = w.slot
    /\ v.loaded = w.loaded
    /\ "kept" \in others \/ (v.kept = w.kept /\ v.missed = w.missed)
    /\ "active" \in others \/ v.active = w.active
    /\ v.ok = w.ok /\ v.failed = w.failed

LEMMA SlotFacts ==
    ASSUME NEW w \in World, NEW t \in StepSet, NEW how, NEW v, v = Do(w, t, how),
           t.op \in {"slot", "handle"}
    PROVE  /\ Alike(w, v, {"slot"})
           /\ \/ t.op = "handle" /\ v.slot = w.slot
              \/ LET k == IF t.op = "slot" THEN t.index ELSE 0
                     h == IF t.op = "slot" THEN t.value ELSE Password
                 IN v.slot = [w.slot EXCEPT ![k] = [handle |-> h, attrs |-> {}]]
<1>1. ASSUME NEW k \in 0 .. 1, NEW h \in Int,
             v = [w EXCEPT !.slot[k] = [handle |-> h, attrs |-> {}]]
      PROVE  /\ Alike(w, v, {"slot"})
             /\ v.slot = [w.slot EXCEPT ![k] = [handle |-> h, attrs |-> {}]]
  <2> DEFINE g == [w.slot EXCEPT ![k] = [handle |-> h, attrs |-> {}]]
  <2>1. v = [w EXCEPT !.slot = g]
    BY ONLY <1>1
  <2>2. g \in [0 .. 1 -> [handle : Int, attrs : SUBSET Attributes]]
    BY DEF World
  <2> HIDE DEF g
  <2>3. v \in World /\ v.slot = g
    BY <2>1, <2>2 DEF World
  <2>4. Alike(w, v, {"slot"})
    BY <2>1, <2>3 DEF World, Alike
  <2> QED BY <2>3, <2>4 DEF g
<1>2. CASE t.op = "slot"
  <2>1. v = [w EXCEPT !.slot[t.index] = [handle |-> t.value, attrs |-> {}]]
    BY <1>2 DEF Do
  <2>2. t.index \in 0 .. 1 /\ t.value \in Int
    BY DEF StepSet
  <2> QED BY <1>1, <1>2, <2>1, <2>2
<1>3. CASE t.op = "handle" /\ t.from = "key" /\ purpose = "policyKeys"
  <2>1. v = w
    BY <1>3 DEF Do
  <2> QED BY <1>3, <2>1 DEF Alike
<1>4. CASE t.op = "handle" /\ ~(t.from = "key" /\ purpose = "policyKeys")
  <2>1. v = [w EXCEPT !.slot[0] = [handle |-> Password, attrs |-> {}]]
    BY <1>4 DEF Do
  <2>2. 0 \in 0 .. 1 /\ Password \in Int
    BY DEF Password
  <2> QED BY <1>1, <1>4, <2>1, <2>2
<1> QED BY <1>2, <1>3, <1>4

\* A session is put into a slot, and its nonce is saved from it.
LEMMA SessionFacts ==
    ASSUME NEW w \in World, NEW t \in StepSet, NEW how, NEW v, v = Do(w, t, how),
           t.op \in {"session", "save"}
    PROVE  /\ Alike(w, v, {"slot", "kept"}) /\ v.missed = w.missed
           /\ t.op = "session" =>
                /\ v.slot = [w.slot EXCEPT ![t.index] =
                               [handle |-> w.handle["session"], attrs |-> t.attrs]]
                /\ v.kept = IF t.index = 1 /\ "session" \in w.kept THEN {"session", "slot"}
                            ELSE w.kept
           /\ t.op = "save" =>
                v.slot = w.slot /\ v.kept = IF "slot" \in w.kept THEN {"session"} ELSE {}
<1>1. CASE t.op = "session"
  <2> DEFINE g == [w.slot EXCEPT ![t.index] =
                     [handle |-> w.handle["session"], attrs |-> t.attrs]]
             k == IF t.index = 1 /\ "session" \in w.kept THEN {"session", "slot"} ELSE w.kept
  <2>1. v = Seated(w, t)
    BY <1>1 DEF Do
  <2>2. v = [w EXCEPT !.slot = g, !.kept = k]
    BY <2>1 DEF Seated
  <2>3. /\ k \in SUBSET {"slot", "session"}
        /\ t.index \in 0 .. 1 /\ t.attrs \in SUBSET Attributes /\ w.handle["session"] \in Int
    BY DEF World, StepSet, Structures
  <2>4. g \in [0 .. 1 -> [handle : Int, attrs : SUBSET Attributes]]
    BY <2>3 DEF World
  <2> HIDE DEF g, k
  <2>5. v \in World /\ v.slot = g /\ v.kept = k
    BY <2>2, <2>3, <2>4 DEF World
  <2>6. Alike(w, v, {"slot", "kept"}) /\ v.missed = w.missed
    BY <2>2, <2>5 DEF World, Alike
  <2> QED BY <1>1, <2>5, <2>6 DEF g, k
<1>2. CASE t.op = "save"
  <2> DEFINE k == IF "slot" \in w.kept THEN {"session"} ELSE {}
  <2>1. v = Saved(w)
    BY <1>2 DEF Do
  <2>2. v = [w EXCEPT !.kept = k]
    BY <2>1 DEF Saved
  <2>3. k \in SUBSET {"slot", "session"}
    OBVIOUS
  <2> HIDE DEF k
  <2>4. v \in World /\ v.kept = k
    BY <2>2, <2>3 DEF World
  <2>5. Alike(w, v, {"slot", "kept"}) /\ v.missed = w.missed /\ v.slot = w.slot
    BY <2>2, <2>4 DEF World, Alike
  <2> QED BY <1>2, <2>4, <2>5 DEF k
<1> QED BY <1>1, <1>2

\* A structure is given a handle.
LEMMA HandFacts ==
    ASSUME NEW w \in World, NEW t \in StepSet, NEW how, NEW v, v = Do(w, t, how),
           t.op \in {"put", "copy"}, t.into # "none", t.op = "copy" => t.from \in Structures
    PROVE  /\ Alike(w, v, {"handle", "kept"})
           /\ t.op = "put" => v.handle = [w.handle EXCEPT ![t.into] = t.value]
           /\ t.op = "copy" => v.handle = [w.handle EXCEPT ![t.into] = w.handle[t.from]]
           /\ IF t.op = "put" /\ t.into = "session" THEN v.kept = {} /\ ~v.missed
              ELSE v.kept = w.kept /\ v.missed = w.missed
<1>1. t.into \in Structures /\ t.value \in Int
  BY DEF StepSet
<1>2. CASE t.op = "put"
  <2>1. v = Forgotten([w EXCEPT !.handle[t.into] = t.value], t.into)
    BY <1>2 DEF Do
  <2>2. /\ v \in World /\ v.slot = w.slot /\ v.loaded = w.loaded
        /\ v.active = w.active /\ v.hmacKeyLoaded = w.hmacKeyLoaded
        /\ v.ok = w.ok /\ v.failed = w.failed
        /\ v.handle = [w.handle EXCEPT ![t.into] = t.value]
        /\ IF t.into = "session" THEN v.kept = {} /\ ~v.missed
           ELSE v.kept = w.kept /\ v.missed = w.missed
    BY <1>1, <2>1, ForgottenFacts
  <2> QED BY <1>2, <2>2 DEF Alike
<1>3. CASE t.op = "copy"
  <2> DEFINE g == [w.handle EXCEPT ![t.into] = w.handle[t.from]]
  <2>1. v = [w EXCEPT !.handle = g]
    BY <1>3 DEF Do
  <2>2. g \in [Structures -> Int]
    BY <1>1, <1>3 DEF World
  <2> HIDE DEF g
  <2>3. v \in World /\ v.handle = g
    BY <2>1, <2>2 DEF World
  <2>4. Alike(w, v, {"handle", "kept"}) /\ v.kept = w.kept /\ v.missed = w.missed
    BY <2>1, <2>3 DEF World, Alike
  <2> QED BY <1>3, <2>3, <2>4 DEF g
<1> QED BY <1>2, <1>3

\* The flags, and what cannot be done.
LEMMA FlagFacts ==
    ASSUME NEW w \in World, NEW t \in StepSet, NEW how, NEW v, v = Do(w, t, how)
    PROVE  /\ t.op = "reset" =>
                /\ Alike(w, v, {"slot", "active", "kept"}) /\ v.missed = w.missed
                /\ v.slot[0].handle = None /\ v.slot[1].handle = None
                /\ ~v.active /\ v.kept = w.kept \ {"slot"}
           /\ t.op = "active" => Alike(w, v, {"active"}) /\ v.active
           /\ t.op = "keyLoaded" => Alike(w, v, {"hmacKeyLoaded"}) /\ v.hmacKeyLoaded
           /\ t.op = "keyUnloaded" => Alike(w, v, {"hmacKeyLoaded"}) /\ ~v.hmacKeyLoaded
           /\ t.op = "error" => Refuses(w, t, v)
<1>1. CASE t.op = "reset"
  <2> DEFINE g == [k \in 0 .. 1 |-> [handle |-> None, attrs |-> {}]]
             j == w.kept \ {"slot"}
  <2>1. v = [w EXCEPT !.slot = g, !.active = FALSE, !.kept = j]
    BY <1>1 DEF Do
  <2>2. g \in [0 .. 1 -> [handle : Int, attrs : SUBSET Attributes]]
    BY DEF None
  <2>3. j \in SUBSET {"slot", "session"} /\ g[0].handle = None /\ g[1].handle = None
    BY DEF World
  <2> HIDE DEF g, j
  <2>4. v \in World /\ v.slot = g /\ v.kept = j /\ ~v.active
    BY <2>1, <2>2, <2>3 DEF World
  <2>5. Alike(w, v, {"slot", "active", "kept"}) /\ v.missed = w.missed
    BY <2>1, <2>4 DEF World, Alike
  <2> QED BY <1>1, <2>3, <2>4, <2>5 DEF j
<1>2. CASE t.op = "active"
  <2>1. v = [w EXCEPT !.active = TRUE]
    BY <1>2 DEF Do
  <2>2. v \in World /\ v.active
    BY <2>1 DEF World
  <2>3. Alike(w, v, {"active"})
    BY <2>1, <2>2 DEF World, Alike
  <2> QED BY <1>2, <2>2, <2>3
<1>3. CASE t.op = "keyLoaded"
  <2>1. v = [w EXCEPT !.hmacKeyLoaded = TRUE]
    BY <1>3 DEF Do
  <2>2. v \in World /\ v.hmacKeyLoaded
    BY <2>1 DEF World
  <2>3. Alike(w, v, {"hmacKeyLoaded"})
    BY <2>1, <2>2 DEF World, Alike
  <2> QED BY <1>3, <2>2, <2>3
<1>4. CASE t.op = "keyUnloaded"
  <2>1. v = [w EXCEPT !.hmacKeyLoaded = FALSE]
    BY <1>4 DEF Do
  <2>2. v \in World /\ ~v.hmacKeyLoaded
    BY <2>1 DEF World
  <2>3. Alike(w, v, {"hmacKeyLoaded"})
    BY <2>1, <2>2 DEF World, Alike
  <2> QED BY <1>4, <2>2, <2>3
<1>5. CASE t.op = "error"
  <2>1. v = Fail(w, t, "error")
    BY <1>5 DEF Do
  <2> QED BY <1>5, <2>1, FailFacts DEF Refuses
<1> QED BY <1>1, <1>2, <1>3, <1>4, <1>5

\* The steps that send something.
LEMMA SendingFacts ==
    ASSUME NEW w \in World, NEW t \in Sending, NEW how, NEW v, v = Do(w, t, how)
    PROVE  \/ t.op = "unload" /\ w.handle[t.into] \in {None, Persistent} /\ v = w
           \/ Refuses(w, t, v)
           \/ \E sent \in SlotSets : Executes(w, t, sent, v)
<1>1. v = Transmit(w, t, how)
      \/ (t.op = "unload" /\ w.handle[t.into] \in {None, Persistent} /\ v = w)
  <2>1. CASE t.op = "command"
    BY <2>1 DEF Do
  <2>2. CASE t.op = "unload"
    BY <2>2 DEF Do
  <2> QED BY <2>1, <2>2 DEF Sending
<1> QED BY <1>1, TransmitFacts

-----------------------------------------------------------------------------
(* Scripts.                                                                *)

\* However the step goes, it leads from the worlds of P to those of Q; and so do the steps
\* of a script, one after the other.
Takes(P, t, Q) == \A w \in P : \A how : Turn(w, t, how) \in Q

Leads(P, script, Q) ==
    \E I \in [0 .. Len(script) -> SUBSET World] :
       /\ P \subseteq I[0] /\ I[Len(script)] \subseteq Q
       /\ \A k \in 1 .. Len(script) : Takes(I[k - 1], script[k], I[k])

\* Induction over the natural numbers, for a set of them.
LEMMA Induction ==
    ASSUME NEW S, 0 \in S, \A n \in Nat : n \in S => n + 1 \in S
    PROVE  \A n \in Nat : n \in S
<1> DEFINE T == Nat \ S
           R == OpToRel(<, Nat)
<1>1. SUFFICES ASSUME T # {} PROVE FALSE
  OBVIOUS
<1>2. IsWellFoundedOn(R, Nat)
  BY NatLessThanWellFounded
<1>3. \A x, y \in Nat : x < y => << x, y >> \in R
  BY DEF OpToRel
<1> HIDE DEF R
<1>4. PICK x \in T : \A y \in T : << y, x >> \notin R
  <2>1. T \subseteq Nat
    OBVIOUS
  <2> HIDE DEF T
  <2> QED BY <1>1, <1>2, <2>1, WFMin
<1>5. x \in Nat /\ x # 0
  OBVIOUS
<1>6. x - 1 \in Nat /\ x - 1 < x /\ (x - 1) + 1 = x
  BY <1>5
<1>7. x - 1 \notin T
  BY <1>3, <1>4, <1>5, <1>6
<1> QED BY <1>5, <1>6, <1>7

\* One step, steps of a kind that keep to some worlds, and scripts one after the other.
LEMMA LeadsOne ==
    ASSUME NEW P \in SUBSET World, NEW Q \in SUBSET World, NEW t, Takes(P, t, Q)
    PROVE  Leads(P, << t >>, Q)
<1> DEFINE I == [k \in 0 .. 1 |-> IF k = 0 THEN P ELSE Q]
<1>1. I \in [0 .. Len(<< t >>) -> SUBSET World] /\ I[0] = P /\ I[1] = Q
  OBVIOUS
<1>2. << t >>[1] = t /\ Len(<< t >>) = 1
  OBVIOUS
<1>3. ASSUME NEW k \in 1 .. 1 PROVE Takes(I[k - 1], << t >>[k], I[k])
  <2>1. k = 1
    OBVIOUS
  <2> HIDE DEF I
  <2>2. k - 1 = 0
    BY <2>1
  <2> QED BY <1>1, <1>2, <2>1, <2>2
<1> HIDE DEF I
<1> QED BY <1>1, <1>2, <1>3 DEF Leads

LEMMA LeadsThree ==
    ASSUME NEW P \in SUBSET World, NEW Q \in SUBSET World, NEW R \in SUBSET World,
           NEW T \in SUBSET World, NEW x, NEW y, NEW z,
           Takes(P, x, Q), Takes(Q, y, R), Takes(R, z, T)
    PROVE  Leads(P, << x, y, z >>, T)
<1> DEFINE I == [k \in 0 .. 3 |-> IF k = 0 THEN P ELSE IF k = 1 THEN Q ELSE IF k = 2 THEN R ELSE T]
           script == << x, y, z >>
<1>1. I \in [0 .. 3 -> SUBSET World] /\ I[0] = P /\ I[1] = Q /\ I[2] = R /\ I[3] = T
  OBVIOUS
<1>2. script[1] = x /\ script[2] = y /\ script[3] = z /\ Len(script) = 3
  OBVIOUS
<1> HIDE DEF I, script
<1>3. ASSUME NEW k \in 1 .. 3 PROVE Takes(I[k - 1], script[k], I[k])
  <2>1. CASE k = 1
    <3>1. k - 1 = 0
      BY <2>1
    <3> QED BY <1>1, <1>2, <2>1, <3>1
  <2>2. CASE k = 2
    <3>1. k - 1 = 1
      BY <2>2
    <3> QED BY <1>1, <1>2, <2>2, <3>1
  <2>3. CASE k = 3
    <3>1. k - 1 = 2
      BY <2>3
    <3> QED BY <1>1, <1>2, <2>3, <3>1
  <2> QED BY <2>1, <2>2, <2>3
<1>4. Leads(P, script, T)
  BY <1>1, <1>2, <1>3 DEF Leads
<1> QED BY <1>4 DEF script

LEMMA LeadsAll ==
    ASSUME NEW P \in SUBSET World, NEW S, NEW script \in Seq(S),
           \A t \in S : Takes(P, t, P)
    PROVE  Leads(P, script, P)
<1> DEFINE I == [k \in 0 .. Len(script) |-> P]
<1>1. I \in [0 .. Len(script) -> SUBSET World] /\ Len(script) \in Nat
  OBVIOUS
<1>2. \A k \in 0 .. Len(script) : I[k] = P
  OBVIOUS
<1>3. ASSUME NEW k \in 1 .. Len(script) PROVE Takes(I[k - 1], script[k], I[k])
  <2>1. script[k] \in S
    OBVIOUS
  <2>2. I[k - 1] = P /\ I[k] = P
    BY <1>1, <1>2
  <2> HIDE DEF I
  <2> QED BY <2>1, <2>2
<1> HIDE DEF I
<1>4. P \subseteq I[0] /\ I[Len(script)] \subseteq P
  BY <1>1, <1>2
<1> QED BY <1>1, <1>3, <1>4 DEF Leads

LEMMA LeadsThen ==
    ASSUME NEW P \in SUBSET World, NEW Q, NEW R \in SUBSET World, NEW S,
           NEW a \in Seq(S), NEW b \in Seq(S),
           Leads(P, a, Q), Leads(Q, b, R)
    PROVE  Leads(P, a \o b, R)
<1>1. PICK I \in [0 .. Len(a) -> SUBSET World] :
         /\ P \subseteq I[0] /\ I[Len(a)] \subseteq Q
         /\ \A k \in 1 .. Len(a) : Takes(I[k - 1], a[k], I[k])
  BY DEF Leads
<1>2. PICK J \in [0 .. Len(b) -> SUBSET World] :
         /\ Q \subseteq J[0] /\ J[Len(b)] \subseteq R
         /\ \A k \in 1 .. Len(b) : Takes(J[k - 1], b[k], J[k])
  BY DEF Leads
<1> DEFINE l == Len(a)
           m == Len(b)
           K == [k \in 0 .. l + m |-> IF k < l THEN I[k] ELSE J[k - l]]
<1>3. l \in Nat /\ m \in Nat /\ Len(a \o b) = l + m
  OBVIOUS
<1>4. \A k \in 1 .. l + m : (a \o b)[k] = IF k <= l THEN a[k] ELSE b[k - l]
  OBVIOUS
<1> HIDE DEF l, m
<1>5. K \in [0 .. l + m -> SUBSET World]
  BY <1>3 DEF l, m
<1>6. \A k \in 0 .. l + m : K[k] = IF k < l THEN I[k] ELSE J[k - l]
  OBVIOUS
<1> HIDE DEF K
<1>7. P \subseteq K[0]
  <2>1. K[0] = IF 0 < l THEN I[0] ELSE J[0 - l]
    BY <1>3, <1>6
  <2>2. CASE 0 < l
    BY <1>1, <2>1, <2>2
  <2>3. CASE ~(0 < l)
    <3>1. l = 0 /\ 0 - l = 0
      BY <1>3, <2>3
    <3> QED BY <1>1, <1>2, <2>1, <2>3, <3>1 DEF l
  <2> QED BY <2>2, <2>3
<1>8. K[l + m] \subseteq R
  <2>1. (l + m) - l = m /\ ~(l + m < l) /\ l + m \in 0 .. l + m
    BY <1>3
  <2>2. K[l + m] = J[m]
    BY <1>6, <2>1
  <2> QED BY <1>2, <2>2 DEF m
<1>9. ASSUME NEW k \in 1 .. l + m PROVE Takes(K[k - 1], (a \o b)[k], K[k])
  <2>1. k \in Int /\ k - 1 \in 0 .. l + m /\ k \in 0 .. l + m
    BY <1>3
  <2>2. CASE k < l
    <3>1. K[k] = I[k] /\ K[k - 1] = I[k - 1] /\ (a \o b)[k] = a[k] /\ k \in 1 .. l
      BY <1>3, <1>4, <1>6, <2>1, <2>2
    <3> QED BY <1>1, <3>1 DEF l
  <2>3. CASE k = l
    <3>1. /\ k - k = 0 /\ K[k] = J[k - k] /\ K[k - 1] = I[k - 1] /\ (a \o b)[k] = a[k]
          /\ k \in 1 .. l
      BY <1>3, <1>4, <1>6, <2>1, <2>3
    <3>2. Takes(I[k - 1], a[k], I[k]) /\ I[k] \subseteq K[k]
      BY <1>1, <1>2, <2>3, <3>1 DEF l
    <3> QED BY <3>1, <3>2 DEF Takes
  <2>4. CASE k > l
    <3>1. /\ K[k] = J[k - l] /\ K[k - 1] = J[(k - l) - 1] /\ (a \o b)[k] = b[k - l]
          /\ k - l \in 1 .. m
      <4>1. (k - 1) - l = (k - l) - 1 /\ ~(k < l) /\ ~(k - 1 < l) /\ ~(k <= l)
        BY <1>3, <2>1, <2>4
      <4>2. k - l \in 1 .. m
        BY <1>3, <2>1, <2>4
      <4> QED BY <1>4, <1>6, <2>1, <4>1, <4>2
    <3> QED BY <1>2, <3>1 DEF m
  <2> QED BY <1>3, <2>1, <2>2, <2>3, <2>4
<1> QED BY <1>3, <1>5, <1>7, <1>8, <1>9 DEF Leads

LEMMA LeadsTo ==
    ASSUME NEW P, NEW Q, NEW script, Leads(P, script, Q),
           NEW P1 \in SUBSET P, NEW Q1, Q \subseteq Q1
    PROVE  Leads(P1, script, Q1)
<1>1. PICK I \in [0 .. Len(script) -> SUBSET World] :
         /\ P \subseteq I[0] /\ I[Len(script)] \subseteq Q
         /\ \A k \in 1 .. Len(script) : Takes(I[k - 1], script[k], I[k])
  BY DEF Leads
<1>2. P1 \subseteq I[0] /\ I[Len(script)] \subseteq Q1
  BY <1>1
<1> QED BY <1>1, <1>2 DEF Leads

\* What a script leads to is what it has done in the end.
LEMMA DoneLeads ==
    ASSUME NEW P, NEW Q, NEW S, NEW script \in Seq(S), NEW outs, Before \in P,
           Leads(P, script, Q)
    PROVE  Done(script, outs) \in Q
<1> DEFINE N == Len(script)
           how(k) == IF k \in DOMAIN outs THEN outs[k] ELSE "ok"
           Upto(n, f) ==
             f = [k \in 0 .. n |-> IF k = 0 THEN Before
                                   ELSE Turn(f[k - 1], script[k], how(k))]
           T == {n \in Nat : \E f : Upto(n, f)}
<1>1. 0 \in T
  <2> DEFINE f == [k \in 0 .. 0 |-> Before]
  <2>1. Upto(0, f)
    OBVIOUS
  <2> HIDE DEF f
  <2> QED BY <2>1
<1>2. ASSUME NEW n \in Nat, n \in T PROVE n + 1 \in T
  <2>1. PICK f : Upto(n, f)
    BY <1>2
  <2> DEFINE g == [k \in 0 .. n + 1 |->
                     IF k <= n THEN f[k] ELSE Turn(f[n], script[k], how(k))]
             h == [k \in 0 .. n + 1 |->
                     IF k = 0 THEN Before ELSE Turn(g[k - 1], script[k], how(k))]
  <2>2. ASSUME NEW k \in 0 .. n + 1
        PROVE  g[k] = IF k = 0 THEN Before ELSE Turn(g[k - 1], script[k], how(k))
    <3> HIDE DEF how
    <3>1. CASE k <= n
      <4>1. g[k] = f[k] /\ k \in 0 .. n /\ (k # 0 => k - 1 \in 0 .. n /\ g[k - 1] = f[k - 1])
        BY <3>1
      <4>2. f[k] = IF k = 0 THEN Before ELSE Turn(f[k - 1], script[k], how(k))
        BY <2>1, <4>1
      <4> QED BY <4>1, <4>2
    <3>2. CASE ~(k <= n)
      <4>1. k = n + 1 /\ k # 0 /\ k - 1 = n /\ k - 1 \in 0 .. n + 1 /\ k - 1 <= n
        BY <3>2
      <4>2. g[k] = Turn(f[n], script[k], how(k)) /\ g[k - 1] = f[n]
        BY <3>2, <4>1
      <4> QED BY <4>1, <4>2
    <3> QED BY <3>1, <3>2
  <2>3. \A k \in 0 .. n + 1 : g[k] = h[k]
    BY <2>2
  <2>4. g = [k \in 0 .. n + 1 |-> g[k]] /\ h = [k \in 0 .. n + 1 |-> h[k]]
    OBVIOUS
  <2>5. g = h
    <3> HIDE DEF g, h
    <3> QED BY <2>3, <2>4
  <2>6. Upto(n + 1, g)
    <3> HIDE DEF g
    <3> QED BY <2>5
  <2> HIDE DEF g
  <2> QED BY <2>6
<1>3. N \in Nat
  OBVIOUS
<1>4. N \in T
  <2> HIDE DEF T, N
  <2> QED BY ONLY <1>1, <1>2, <1>3, Induction
<1> DEFINE f == CHOOSE f : Upto(N, f)
<1>5. Upto(N, f)
  BY <1>4
<1>6. Done(script, outs) = f[N]
  BY DEF Done
<1> HIDE DEF f
<1>7. f[0] = Before /\ \A k \in 1 .. N : f[k] = Turn(f[k - 1], script[k], how(k))
  <2> HIDE DEF how, N
  <2> QED BY <1>3, <1>5
<1>8. PICK I \in [0 .. N -> SUBSET World] :
         /\ P \subseteq I[0] /\ I[N] \subseteq Q
         /\ \A k \in 1 .. N : Takes(I[k - 1], script[k], I[k])
  BY DEF Leads
<1> HIDE DEF how, N
<1> DEFINE In == {n \in Nat : n <= N => f[n] \in I[n]}
<1>9. 0 \in In
  BY <1>3, <1>7, <1>8
<1>10. ASSUME NEW n \in Nat, n \in In PROVE n + 1 \in In
  <2>1. SUFFICES ASSUME n + 1 <= N PROVE f[n + 1] \in I[n + 1]
    OBVIOUS
  <2>2. n + 1 \in 1 .. N /\ (n + 1) - 1 = n /\ n <= N
    BY <1>3, <2>1
  <2>3. f[n + 1] = Turn(f[n], script[n + 1], how(n + 1)) /\ f[n] \in I[n]
    BY <1>7, <1>10, <2>2
  <2>4. Takes(I[n], script[n + 1], I[n + 1])
    BY <1>8, <2>2
  <2> QED BY <2>3, <2>4 DEF Takes
<1>11. N \in In
  <2> HIDE DEF In
  <2> QED BY ONLY <1>3, <1>9, <1>10, Induction
<1> QED BY <1>3, <1>6, <1>8, <1>11

-----------------------------------------------------------------------------
(* The nonce of the session.                                               *)

\* The nonce is where it must be, because the session in slot 1 is the one in the structure
\* and is an HMAC session that the TPM has, because no such session is in slot 0, where it
\* would end with its use, and because no other structure of T names a session.
Kept(w) ==
    LET h == w.handle["session"]
    IN h \in SessionIds /\ w.loaded[h] = "hmac" /\ ~w.missed =>
         IF w.slot[1].handle = h THEN "slot" \in w.kept ELSE "session" \in w.kept

Sane(T) ==
    {w \in World :
       /\ w.handle["session"] \in {None} \union SessionIds
       /\ \A s \in T : w.handle[s] \notin SessionIds
       /\ w.slot[1].handle # None =>
            /\ w.slot[1].handle = w.handle["session"] /\ w.slot[1].handle \in SessionIds
            /\ w.loaded[w.slot[1].handle] = "hmac"
       /\ w.slot[0].handle \in SessionIds => w.loaded[w.slot[0].handle] # "hmac"
       /\ ~w.active => w.slot[1].handle = None
       /\ Kept(w)}

Others == Structures \ {"session"}

\* The steps that leave the session where it is.
Quiet(T) ==
    {t \in StepSet :
       \/ t.op = "command" /\ t.makes \in {"none", "clear", "persist"} /\ t.into = "none"
       \/ t.op = "command" /\ t.makes = "end" /\ t.into = "none" /\ t.uses \subseteq T
       \/ t.op = "command" /\ t.makes \in {"key", "temporary"} /\ t.into \in T
       \/ t.op = "unload" /\ t.into \in T /\ t.uses = {t.into} /\ t.makes = "none"
       \/ t.op = "slot" /\ t.index = 0 /\ t.value \in {None, Password}
       \/ t.op = "handle"
       \/ t.op = "put" /\ t.into \in T /\ t.value \notin SessionIds
       \/ t.op = "copy" /\ t.into \in T /\ t.from \in T
       \/ t.op \in {"active", "keyLoaded", "keyUnloaded", "error"}}

\* A command leaves the sessions that are not in slot 0, unless it is told to unload one.
LEMMA SessionsStay ==
    ASSUME NEW w \in World, NEW t \in Sending, NEW sent \in SlotSets, NEW v,
           Executes(w, t, sent, v),
           t.op = "unload" \/ t.makes = "end" =>
             \A s \in t.uses : w.handle[s] \notin SessionIds,
           t.makes \notin {"hmac", "policy"}
    PROVE  \A h \in SessionIds :
             /\ v.loaded[h] \in {w.loaded[h], "none"}
             /\ h # w.slot[0].handle => v.loaded[h] = w.loaded[h]
<1> TAKE h \in SessionIds
<1>1. h \in HandleIds /\ h \notin Objects \union {Persistent}
  BY HandleFactsOfTpm DEF HandleIds
<1>2. h \notin Going(w, t)
  BY <1>1 DEF Going
<1>3. h \notin Coming(w, t)
  <2>1. t.makes \in Making => Room(w, t.makes) \subseteq Objects
    BY DEF Room, Making
  <2>2. t.makes \in Making => NewHandle(w, t) \in Objects
    BY <2>1 DEF Executes
  <2> QED BY <1>1, <2>2 DEF Coming
<1>4. v.loaded[h] = IF 0 \in sent /\ h = w.slot[0].handle THEN "none" ELSE w.loaded[h]
  BY <1>1, <1>2, <1>3 DEF Executes, LoadedThen
<1> QED BY <1>4

LEMMA QuietSteps ==
    ASSUME NEW T \in SUBSET Others, NEW w \in Sane(T), NEW t \in Quiet(T), NEW how
    PROVE  Do(w, t, how) \in Sane(T)
<1> DEFINE V == Do(w, t, how)
<1>0. PICK v : v = V
  OBVIOUS
<1> HIDE DEF V
<1>1. w \in World /\ t \in StepSet /\ v = Do(w, t, how) /\ "session" \notin T /\ T \subseteq Structures
  BY <1>0 DEF Sane, Quiet, Others, V
<1>2. /\ w.handle["session"] \in {None} \union SessionIds
      /\ \A s \in T : w.handle[s] \notin SessionIds
      /\ w.slot[1].handle # None =>
            /\ w.slot[1].handle = w.handle["session"] /\ w.slot[1].handle \in SessionIds
            /\ w.loaded[w.slot[1].handle] = "hmac"
      /\ w.slot[0].handle \in SessionIds => w.loaded[w.slot[0].handle] # "hmac"
      /\ ~w.active => w.slot[1].handle = None
      /\ Kept(w)
  BY DEF Sane
<1>3. /\ "none" \notin T /\ "session" \notin T
      /\ \/ t.op = "command" /\ t.makes \in {"none", "clear", "persist"} /\ t.into = "none"
         \/ t.op = "command" /\ t.makes = "end" /\ t.into = "none" /\ t.uses \subseteq T
         \/ t.op = "command" /\ t.makes \in {"key", "temporary"} /\ t.into \in T
         \/ t.op = "unload" /\ t.into \in T /\ t.uses = {t.into} /\ t.makes = "none"
         \/ t.op = "slot" /\ t.index = 0 /\ t.value \in {None, Password}
         \/ t.op = "handle"
         \/ t.op = "put" /\ t.into \in T /\ t.value \notin SessionIds
         \/ t.op = "copy" /\ t.into \in T /\ t.from \in T
         \/ t.op \in {"active", "keyLoaded", "keyUnloaded", "error"}
  BY <1>1 DEF Quiet, Structures
<1>4. v \in Sane(T)
  <2>1. CASE t.op \in {"command", "unload"}
    <3>1. t \in Sending
      BY <1>1, <1>3, <2>1 DEF Sending, Making
    <3>2. t.op = "unload" \/ t.makes = "end" => \A s \in t.uses : w.handle[s] \notin SessionIds
      BY <1>2, <1>3, <2>1
    <3>3. CASE v = w
      BY <3>3
    <3>4. CASE Refuses(w, t, v)
      BY <1>2, <3>4 DEF Refuses, Sane, Kept
    <3>5. ASSUME NEW sent \in SlotSets, Executes(w, t, sent, v)
          PROVE  v \in Sane(T)
      <4>1. t.makes \notin {"hmac", "policy"}
        BY <1>3, <2>1
      <4>2. \A h \in SessionIds :
              /\ v.loaded[h] \in {w.loaded[h], "none"}
              /\ h # w.slot[0].handle => v.loaded[h] = w.loaded[h]
        <5>1. w \in World /\ t \in Sending /\ sent \in SlotSets
          BY <1>1, <3>1
        <5> QED BY ONLY <3>2, <3>5, <4>1, <5>1, SessionsStay
      <4>3. /\ v \in World /\ v.slot = w.slot /\ v.active = w.active
            /\ 1 \in sent => w.slot[1].handle \in SessionIds
        BY <3>5 DEF Executes
      <4>4. v.handle["session"] = w.handle["session"] /\ \A s \in T : v.handle[s] \notin SessionIds
        <5>1. CASE v.handle = w.handle
          BY <1>2, <5>1
        <5>2. CASE v.handle # w.handle
          <6>1. Answers(w, t, sent, v)
            BY <3>5, <5>2 DEF Executes, Loses
          <6>2. PICK h : /\ t.into \in T /\ v.handle = [w.handle EXCEPT ![t.into] = h]
                         /\ h \notin SessionIds
            <7>1. CASE t.op = "unload"
              BY <1>3, <6>1, <7>1, HandleFactsOfTpm DEF Answers, HandleIds
            <7>2. CASE t.op # "unload"
              <8>1. t.into # "none"
                BY <5>2, <6>1, <7>2 DEF Answers
              <8>2. t.makes \in {"key", "temporary"} /\ t.into \in T
                BY <1>3, <2>1, <7>2, <8>1
              <8>3. NewHandle(w, t) \in Objects
                BY <3>5, <8>2 DEF Executes, Room, Making
              <8> QED BY <6>1, <7>2, <8>1, <8>2, <8>3, HandleFactsOfTpm DEF Answers
            <7> QED BY <7>1, <7>2
          <6> QED BY <1>1, <1>2, <6>2 DEF World
        <5> QED BY <5>1, <5>2
      <4>5. \/ v.kept = w.kept /\ (v.missed <=> w.missed)
            \/ 1 \in sent /\ "slot" \in v.kept /\ (v.missed <=> w.missed)
            \/ 1 \in sent /\ v.missed
        <5>1. CASE Answers(w, t, sent, v)
          <6>1. t.into # "session" /\ t.makes # "hmac"
            BY <1>3, <2>1, <4>1
          <6> QED BY <5>1, <6>1 DEF Answers
        <5>2. CASE Loses(w, t, sent, v)
          <6>1. CASE 1 \in sent
            BY <5>2, <6>1 DEF Loses
          <6>2. CASE 1 \notin sent
            BY <5>2, <6>2 DEF Loses
          <6> QED BY <6>1, <6>2
        <5> QED BY <3>5, <5>1, <5>2 DEF Executes
      <4>6. None \notin SessionIds
        BY HandleFactsOfTpm DEF HandleIds
      <4>7. v.slot[1].handle # None =>
              /\ v.slot[1].handle = v.handle["session"] /\ v.slot[1].handle \in SessionIds
              /\ v.loaded[v.slot[1].handle] = "hmac"
        <5>1. SUFFICES ASSUME w.slot[1].handle # None
                       PROVE  /\ w.slot[1].handle = w.handle["session"]
                              /\ w.slot[1].handle \in SessionIds
                              /\ v.loaded[w.slot[1].handle] = "hmac"
          BY <4>3, <4>4
        <5>2. w.slot[1].handle \in SessionIds /\ w.slot[1].handle # w.slot[0].handle
          BY <1>2, <5>1
        <5>3. v.loaded[w.slot[1].handle] = w.loaded[w.slot[1].handle]
          BY <4>2, <5>2
        <5> QED BY <1>2, <5>1, <5>3
      <4>8. v.slot[0].handle \in SessionIds => v.loaded[v.slot[0].handle] # "hmac"
        <5>1. SUFFICES ASSUME w.slot[0].handle \in SessionIds
                       PROVE  v.loaded[w.slot[0].handle] # "hmac"
          BY <4>3
        <5>2. v.loaded[w.slot[0].handle] \in {w.loaded[w.slot[0].handle], "none"}
          BY <4>2, <5>1
        <5> QED BY <1>2, <5>1, <5>2
      <4>9. Kept(v)
        <5>1. SUFFICES ASSUME v.handle["session"] \in SessionIds,
                              v.loaded[v.handle["session"]] = "hmac", ~v.missed
                       PROVE  IF v.slot[1].handle = v.handle["session"] THEN "slot" \in v.kept
                              ELSE "session" \in v.kept
          BY DEF Kept
        <5>2. w.loaded[w.handle["session"]] = "hmac"
          <6>1. w.handle["session"] \in SessionIds
            BY <4>4, <5>1
          <6>2. v.loaded[w.handle["session"]] \in {w.loaded[w.handle["session"]], "none"}
            BY <4>2, <6>1
          <6> QED BY <4>4, <5>1, <6>2
        <5>3. ~w.missed => IF v.slot[1].handle = v.handle["session"] THEN "slot" \in w.kept
                           ELSE "session" \in w.kept
          BY <1>2, <4>3, <4>4, <5>1, <5>2 DEF Kept
        <5>4. 1 \in sent => v.slot[1].handle = v.handle["session"]
          BY <1>2, <4>3, <4>4, <4>6
        <5> QED BY <4>5, <5>1, <5>3, <5>4
      <4> QED BY <1>2, <4>3, <4>4, <4>7, <4>8, <4>9 DEF Sane
    <3> QED BY <1>1, <3>1, <3>3, <3>4, <3>5, SendingFacts
  <2>2. CASE t.op \in {"slot", "handle"}
    <3>1. /\ Alike(w, v, {"slot"})
          /\ \/ t.op = "handle" /\ v.slot = w.slot
             \/ LET k == IF t.op = "slot" THEN t.index ELSE 0
                    h == IF t.op = "slot" THEN t.value ELSE Password
                IN v.slot = [w.slot EXCEPT ![k] = [handle |-> h, attrs |-> {}]]
      BY <1>1, <2>2, SlotFacts
    <3>2. v.slot = w.slot \/ \E h \in {None, Password} :
                               v.slot = [w.slot EXCEPT ![0] = [handle |-> h, attrs |-> {}]]
      BY <1>3, <2>2, <3>1
    <3>3. v.slot[1] = w.slot[1] /\ v.slot[0].handle \in {w.slot[0].handle, None, Password}
      BY <1>1, <3>2 DEF World
    <3>4. None \notin SessionIds /\ Password \notin SessionIds
      BY HandleFactsOfTpm DEF HandleIds
    <3> QED BY <1>2, <3>1, <3>3, <3>4 DEF Sane, Alike, Kept
  <2>3. CASE t.op \in {"put", "copy"}
    <3>1. /\ t.into \in T /\ (t.op = "put" => t.value \notin SessionIds)
          /\ t.op = "copy" => t.from \in T
      BY <1>3, <2>3
    <3>2. t.into # "none" /\ t.into # "session" /\ (t.op = "copy" => t.from \in Structures)
      BY <1>1, <1>3, <3>1
    <3>3. /\ Alike(w, v, {"handle", "kept"})
          /\ t.op = "put" => v.handle = [w.handle EXCEPT ![t.into] = t.value]
          /\ t.op = "copy" => v.handle = [w.handle EXCEPT ![t.into] = w.handle[t.from]]
          /\ v.kept = w.kept /\ v.missed = w.missed
      BY <1>1, <2>3, <3>2, HandFacts
    <3>4. v.handle["session"] = w.handle["session"] /\ \A s \in T : v.handle[s] \notin SessionIds
      <4>1. w.handle \in [Structures -> Int]
        BY <1>1 DEF World
      <4>2. PICK h : h \notin SessionIds /\ v.handle = [w.handle EXCEPT ![t.into] = h]
        BY <1>2, <2>3, <3>1, <3>3
      <4> QED BY <1>1, <1>2, <3>1, <3>2, <4>1, <4>2
    <3> QED BY <1>2, <3>3, <3>4 DEF Sane, Alike, Kept
  <2>4. CASE t.op \in {"active", "keyLoaded", "keyUnloaded", "error"}
    <3>1. \/ Alike(w, v, {"hmacKeyLoaded"})
          \/ Alike(w, v, {"active"}) /\ v.active
          \/ Refuses(w, t, v)
      BY <1>1, <2>4, FlagFacts
    <3> QED BY <1>2, <3>1 DEF Sane, Alike, Kept, Refuses
  <2> QED BY <1>3, <2>1, <2>2, <2>3, <2>4
<1> QED BY <1>0, <1>4 DEF V

-----------------------------------------------------------------------------
(* The steps of the wrappers.                                              *)

\* Steps that no structure is given a handle by, and that end nothing.
Bare ==
    {t \in StepSet :
       \/ t.op = "command" /\ t.makes \in {"none", "clear", "persist"} /\ t.into = "none"
       \/ t.op = "slot" /\ t.index = 0 /\ t.value \in {None, Password}
       \/ t.op \in {"handle", "active", "error"}}

LEMMA StepFields ==
    ASSUME NEW op
    PROVE  LET t == Step(op)
           IN /\ op \in {"command", "unload", "slot", "handle", "session", "save", "put",
                         "copy", "reset", "active", "keyLoaded", "keyUnloaded", "error"}
                 => t \in StepSet
              /\ t.op = op /\ t.into = "none" /\ t.from = "none" /\ t.makes = "none"
              /\ t.uses = {} /\ t.index = 0 /\ t.value = None
              /\ ~t.always /\ t.ignore = {}
<1>1. None \in Int
  BY DEF None
<1> QED BY <1>1 DEF Step, StepSet

\* A command on structures, and one that makes something.
LEMMA RunFields ==
    ASSUME NEW c, NEW uses \in SUBSET Structures
    PROVE  LET t == Run(c, uses)
           IN /\ t \in StepSet /\ t.op = "command" /\ t.uses = uses /\ t.into = "none"
              /\ t.from = "none" /\ t.makes = "none" /\ ~t.always /\ t.ignore = {}
<1>1. Traits(c) \in SUBSET {"sessions", "auth", "enc", "dec"}
  <2> DEFINE d == Commands[c]
  <2>1. Traits(c) = (IF d.kind \in {"authorized", "unguarded"} THEN {"sessions"} ELSE {})
                    \union (IF d.flags \cap {"user1", "admin", "dup"} # {} THEN {"auth"} ELSE {})
                    \union (d.flags \cap {"enc", "dec"})
    BY DEF Traits
  <2> HIDE DEF d
  <2> QED BY <2>1
<1>2. Step("command") \in StepSet
  BY StepFields
<1> DEFINE t == Run(c, uses)
<1>3. t = [Step("command") EXCEPT !.traits = Traits(c), !.uses = uses]
  BY DEF Run
<1>4. t \in StepSet
  <2> HIDE DEF t
  <2> QED BY <1>1, <1>2, <1>3 DEF StepSet
<1>5. t.op = "command" /\ t.uses = uses /\ t.into = "none" /\ t.from = "none"
      /\ t.makes = "none" /\ t.ignore = {}
  <2> HIDE DEF t
  <2> QED BY <1>2, <1>3, StepFields DEF StepSet
<1>6. ~t.always
  <2>1. ~Step("command").always
    BY StepFields
  <2> HIDE DEF t
  <2> QED BY <1>2, <1>3, <2>1 DEF StepSet
<1> QED BY <1>4, <1>5, <1>6

LEMMA MakeFields ==
    ASSUME NEW c, NEW uses \in SUBSET Structures, NEW kind \in Making, NEW s \in Structures
    PROVE  LET t == Make(c, uses, kind, s)
           IN /\ t \in StepSet /\ t.op = "command" /\ t.uses = uses /\ t.into = s
              /\ t.makes = kind /\ ~t.always /\ t.ignore = {}
<1> DEFINE r == Run(c, uses)
           t == Make(c, uses, kind, s)
<1>1. t = [r EXCEPT !.makes = kind, !.into = s]
  BY DEF Make
<1>2. r \in StepSet /\ r.op = "command" /\ r.uses = uses /\ ~r.always /\ r.ignore = {}
  BY RunFields
<1> HIDE DEF r, t
<1>3. t \in StepSet /\ t.op = "command" /\ t.uses = uses /\ t.into = s /\ t.makes = kind
  BY <1>1, <1>2 DEF StepSet
<1>4. t.always = r.always /\ t.ignore = r.ignore
  BY <1>1, <1>2 DEF StepSet
<1> QED BY <1>2, <1>3, <1>4 DEF t

\* A step whose failures do not count, and one that is always taken.
LEMMA IgnoringFields ==
    ASSUME NEW r \in StepSet
    PROVE  LET t == Ignoring(r)
           IN /\ t \in StepSet /\ t.op = r.op /\ t.uses = r.uses /\ t.into = r.into
              /\ t.from = r.from /\ t.makes = r.makes /\ t.index = r.index
              /\ t.value = r.value /\ t.always = r.always
<1> DEFINE t == Ignoring(r)
<1>1. t = [r EXCEPT !.ignore = {"refused", "lost"}]
  BY DEF Ignoring
<1> HIDE DEF t
<1>2. t \in StepSet
  BY <1>1 DEF StepSet
<1> QED BY <1>1, <1>2 DEF StepSet, t

LEMMA AlwaysFields ==
    ASSUME NEW r \in StepSet
    PROVE  LET t == Always(r)
           IN /\ t \in StepSet /\ t.op = r.op /\ t.uses = r.uses /\ t.into = r.into
              /\ t.from = r.from /\ t.makes = r.makes /\ t.index = r.index
              /\ t.value = r.value /\ t.always /\ t.ignore = r.ignore
<1> DEFINE t == Always(r)
<1>1. t = [r EXCEPT !.always = TRUE]
  BY DEF Always
<1> HIDE DEF t
<1>2. t \in StepSet /\ t.always
  BY <1>1 DEF StepSet
<1> QED BY <1>1, <1>2 DEF StepSet, t

\* Structures that are cleared, given a handle, or given that of another.
LEMMA HandFields ==
    ASSUME NEW s \in Structures, NEW q \in Structures, NEW h \in Int
    PROVE  /\ Put(h, s) \in StepSet /\ Put(h, s).op = "put" /\ Put(h, s).value = h
           /\ Put(h, s).into = s /\ ~Put(h, s).always
           /\ Clear(s) = Put(None, s)
           /\ Copy(q, s) \in StepSet /\ Copy(q, s).op = "copy" /\ Copy(q, s).from = q
           /\ Copy(q, s).into = s /\ ~Copy(q, s).always
<1>1. /\ Step("put") \in StepSet /\ Step("put").op = "put" /\ ~Step("put").always
      /\ Step("copy") \in StepSet /\ Step("copy").op = "copy" /\ ~Step("copy").always
  BY StepFields
<1> DEFINE p == Put(h, s)
           c == Copy(q, s)
<1>2. p = [Step("put") EXCEPT !.value = h, !.into = s]
  BY DEF Put
<1>3. c = [Step("copy") EXCEPT !.from = q, !.into = s]
  BY DEF Copy
<1> HIDE DEF p, c
<1>4. p \in StepSet /\ p.op = "put" /\ p.value = h /\ p.into = s
  BY <1>1, <1>2 DEF StepSet
<1>5. c \in StepSet /\ c.op = "copy" /\ c.from = q /\ c.into = s
  BY <1>1, <1>3 DEF StepSet
<1>6. p.always = Step("put").always /\ c.always = Step("copy").always
  BY <1>1, <1>2, <1>3 DEF StepSet
<1> QED BY <1>1, <1>4, <1>5, <1>6 DEF p, c, Clear

\* What is unloaded.
LEMMA UnloadFields ==
    ASSUME NEW s \in Structures
    PROVE  LET t == wolfTPM2_UnloadHandle(s)
           IN /\ t \in StepSet /\ t.op = "unload" /\ t.uses = {s} /\ t.into = s
              /\ t.makes = "none" /\ ~t.always
<1> DEFINE r == Run("FlushContext", {s})
           t == wolfTPM2_UnloadHandle(s)
<1>1. t = [r EXCEPT !.op = "unload", !.into = s]
  BY DEF wolfTPM2_UnloadHandle
<1>2. r \in StepSet /\ r.uses = {s} /\ ~r.always /\ r.makes = "none"
  BY RunFields
<1> HIDE DEF r, t
<1>3. t \in StepSet /\ t.op = "unload" /\ t.uses = {s} /\ t.into = s /\ t.makes = "none"
  BY <1>1, <1>2 DEF StepSet
<1>4. t.always = r.always
  BY <1>1, <1>2 DEF StepSet
<1> QED BY <1>2, <1>3, <1>4 DEF t

LEMMA PlainSteps ==
    /\ \A c : \A uses \in SUBSET Structures :
         Run(c, uses) \in Bare /\ Ignoring(Run(c, uses)) \in Bare
    /\ \A s : wolfTPM2_SetAuthHandle(s) \in Bare \/ s \notin Structures \union {"parent"}
    /\ wolfTPM2_SetAuthPassword \in Bare /\ wolfTPM2_SetAuth(0, None) \in Bare
    /\ Error \in Bare /\ Step("active") \in Bare
    /\ GetNonce \in Bare /\ Ignoring(GetNonce) \in Bare
    /\ [GetNonce EXCEPT !.ignore = {"refused"}] \in Bare
    /\ [Run("Clear", {}) EXCEPT !.makes = "clear"] \in Bare
    /\ \A s \in Structures : [Run("EvictControl", {s}) EXCEPT !.makes = "persist"] \in Bare
<1>1. ASSUME NEW c, NEW uses \in SUBSET Structures
      PROVE  Run(c, uses) \in Bare /\ Ignoring(Run(c, uses)) \in Bare
  BY RunFields, IgnoringFields DEF Bare
<1>2. ASSUME NEW s \in Structures \union {"parent"} PROVE wolfTPM2_SetAuthHandle(s) \in Bare
  <2>1. Step("handle") \in StepSet /\ Step("handle").op = "handle"
    BY StepFields
  <2>2. [Step("handle") EXCEPT !.from = s] \in StepSet
    BY <2>1 DEF StepSet
  <2>3. [Step("handle") EXCEPT !.from = s].op = "handle"
    BY <2>1 DEF StepSet
  <2> QED BY <2>2, <2>3 DEF Bare, wolfTPM2_SetAuthHandle
<1>3. ASSUME NEW h \in {None, Password} PROVE wolfTPM2_SetAuth(0, h) \in Bare
  <2>1. Step("slot") \in StepSet /\ Step("slot").op = "slot"
    BY StepFields
  <2> DEFINE t == [Step("slot") EXCEPT !.index = 0, !.value = h]
  <2>2. h \in Int /\ 0 \in 0 .. 1
    BY DEF None, Password
  <2> HIDE DEF t
  <2>3. t = [Step("slot") EXCEPT !.index = 0, !.value = h]
    BY DEF t
  <2>4. t \in StepSet
    BY <2>1, <2>2, <2>3 DEF StepSet
  <2>5. t.op = "slot" /\ t.index = 0 /\ t.value = h
    BY <2>1, <2>3 DEF StepSet
  <2>6. t \in Bare
    BY <2>4, <2>5 DEF Bare
  <2> QED BY <2>6 DEF t, wolfTPM2_SetAuth
<1>4. Error \in Bare /\ Step("active") \in Bare
  BY StepFields DEF Error, Bare
<1>5. GetNonce \in Bare /\ Ignoring(GetNonce) \in Bare
  BY <1>1 DEF GetNonce
<1>6. [GetNonce EXCEPT !.ignore = {"refused"}] \in Bare
  <2>1. GetNonce \in StepSet /\ GetNonce.op = "command" /\ GetNonce.into = "none" /\ GetNonce.makes = "none"
    BY RunFields DEF GetNonce
  <2> DEFINE t == [GetNonce EXCEPT !.ignore = {"refused"}]
  <2>2. t \in StepSet /\ t.op = "command" /\ t.into = "none" /\ t.makes = "none"
    BY <2>1 DEF StepSet
  <2> QED BY <2>2 DEF Bare
<1>7. ASSUME NEW c, NEW uses \in SUBSET Structures, NEW m \in {"clear", "persist"}
      PROVE  [Run(c, uses) EXCEPT !.makes = m] \in Bare
  <2> DEFINE r == Run(c, uses)
             t == [r EXCEPT !.makes = m]
  <2>1. r \in StepSet /\ r.op = "command" /\ r.into = "none"
    BY RunFields
  <2> HIDE DEF r
  <2>2. t \in StepSet /\ t.op = "command" /\ t.into = "none" /\ t.makes = m
    BY <2>1 DEF StepSet
  <2> HIDE DEF t
  <2>3. t \in Bare
    BY <2>2 DEF Bare
  <2> QED BY <2>3 DEF t, r
<1> QED BY <1>1, <1>2, <1>3, <1>4, <1>5, <1>6, <1>7 DEF wolfTPM2_SetAuthPassword

\* The scripts of plain steps.
LEMMA TimesOfSteps ==
    ASSUME NEW S, NEW t \in S, NEW n \in Nat
    PROVE  Times(n, t) \in Seq(S)
<1>1. Times(n, t) \in [1 .. n -> S]
  BY DEF Times
<1>2. \A f \in [1 .. n -> S] : f \in Seq(S)
  OBVIOUS
<1> QED BY <1>1, <1>2

LEMMA PlainScripts ==
    /\ {wolfTPM2_SelfTest, wolfTPM2_GetCapabilities, wolfTPM2_Clear, wolfTPM2_ResetPCR,
        wolfTPM2_ReadPCR, wolfTPM2_ExtendPCR, wolfTPM2_Shutdown, wolfTPM2_UnsetAuth(0),
        wolfTPM2_ChangePlatformAuth(FALSE), wolfTPM2_NVReadPublic, wolfTPM2_NVCreate,
        wolfTPM2_NVDelete, wolfTPM2_LoadSymmetricKey} \subseteq Seq(Bare)
    /\ {wolfTPM2_GetTime, wolfTPM2_SignHash, wolfTPM2_VerifyHash, wolfTPM2_ECDHGen,
        wolfTPM2_ECDHGenZ, wolfTPM2_RsaEncrypt, wolfTPM2_RsaDecrypt} \subseteq Seq(Bare)
    /\ {wolfTPM2_PolicyRestart, wolfTPM2_GetPolicyDigest, wolfTPM2_PolicyPCR}
         \subseteq Seq(Bare)
<1>1. /\ {} \in SUBSET Structures /\ {"key"} \in SUBSET Structures /\ {"session"} \in SUBSET Structures
      /\ "key" \in Structures \union {"parent"} /\ "parent" \in Structures \union {"parent"}
      /\ "hash" \in Structures \union {"parent"}
  BY DEF Structures
<1>2. \A a \in Bare : << a >> \in Seq(Bare)
  OBVIOUS
<1>3. \A a \in Bare, b \in Bare : << a, b >> \in Seq(Bare)
  OBVIOUS
<1>4. \A a \in Seq(Bare), b \in Seq(Bare) : a \o b \in Seq(Bare)
  OBVIOUS
<1>5. \A c : Run(c, {}) \in Bare /\ Run(c, {"key"}) \in Bare /\ Run(c, {"session"}) \in Bare
             /\ Ignoring(Run(c, {})) \in Bare
  BY <1>1, PlainSteps
<1>6. /\ wolfTPM2_SetAuthHandle("key") \in Bare /\ wolfTPM2_SetAuthHandle("parent") \in Bare
      /\ wolfTPM2_SetAuthPassword \in Bare /\ wolfTPM2_SetAuth(0, None) \in Bare
      /\ Error \in Bare /\ GetNonce \in Bare
      /\ [Run("Clear", {}) EXCEPT !.makes = "clear"] \in Bare
  BY <1>1, PlainSteps
<1>7. wolfTPM2_SelfTest \in Seq(Bare)
  BY <1>2, <1>5 DEF wolfTPM2_SelfTest
<1>8. wolfTPM2_GetCapabilities \in Seq(Bare) /\ wolfTPM2_GetRandom(1) \in Seq(Bare)
  BY <1>5, TimesOfSteps DEF wolfTPM2_GetCapabilities, wolfTPM2_GetRandom
<1>9. wolfTPM2_Clear \in Seq(Bare)
  BY <1>2, <1>6 DEF wolfTPM2_Clear
<1>10. wolfTPM2_ResetPCR \in Seq(Bare)
  BY <1>2, <1>5 DEF wolfTPM2_ResetPCR
<1>11. wolfTPM2_ReadPCR \in Seq(Bare) /\ wolfTPM2_ExtendPCR \in Seq(Bare)
  BY <1>3, <1>5, <1>6 DEF wolfTPM2_ReadPCR, wolfTPM2_ExtendPCR
<1>12. wolfTPM2_Shutdown \in Seq(Bare)
  BY <1>3, <1>5 DEF wolfTPM2_Shutdown
<1>13. wolfTPM2_UnsetAuth(0) \in Seq(Bare)
  BY <1>2, <1>6 DEF wolfTPM2_UnsetAuth
<1>14. wolfTPM2_ChangePlatformAuth(FALSE) \in Seq(Bare)
  <2>1. wolfTPM2_ChangePlatformAuth(FALSE) = << >> \o << GetNonce, Run("HierarchyChangeAuth", {}) >>
    BY DEF wolfTPM2_ChangePlatformAuth
  <2>2. << >> \in Seq(Bare) /\ << GetNonce, Run("HierarchyChangeAuth", {}) >> \in Seq(Bare)
    BY <1>3, <1>5, <1>6
  <2> QED BY <1>4, <2>1, <2>2
<1>15. wolfTPM2_NVReadPublic \in Seq(Bare)
  BY <1>2, <1>5 DEF wolfTPM2_NVReadPublic
<1>16. wolfTPM2_NVCreate \in Seq(Bare)
  <2>1. << wolfTPM2_SetAuthHandle("parent"), Run("NV_DefineSpace", {}) >> \in Seq(Bare)
    BY <1>3, <1>5, <1>6
  <2> QED BY <1>4, <1>15, <2>1 DEF wolfTPM2_NVCreate, wolfTPM2_NVCreateAuth, wolfTPM2_NVOpen
<1>17. wolfTPM2_NVDelete \in Seq(Bare)
  BY <1>3, <1>5, <1>6 DEF wolfTPM2_NVDelete, wolfTPM2_NVDeleteAuth
<1>18. wolfTPM2_LoadSymmetricKey \in Seq(Bare)
  BY <1>2, <1>4, <1>6, <1>8 DEF wolfTPM2_LoadSymmetricKey
<1>19. wolfTPM2_GetTime \in Seq(Bare)
  BY <1>2, <1>5 DEF wolfTPM2_GetTime
<1>20. \A c : OnKey(c) \in Seq(Bare)
  BY <1>3, <1>5, <1>6 DEF OnKey
<1>21. /\ wolfTPM2_SignHash \in Seq(Bare) /\ wolfTPM2_VerifyHash \in Seq(Bare)
       /\ wolfTPM2_ECDHGen \in Seq(Bare) /\ wolfTPM2_ECDHGenZ \in Seq(Bare)
       /\ wolfTPM2_RsaEncrypt \in Seq(Bare) /\ wolfTPM2_RsaDecrypt \in Seq(Bare)
  BY <1>20 DEF wolfTPM2_SignHash, wolfTPM2_SignHashScheme, wolfTPM2_VerifyHash,
       wolfTPM2_VerifyHashTicket, wolfTPM2_ECDHGen, wolfTPM2_ECDHGenZ,
       wolfTPM2_RsaEncrypt, wolfTPM2_RsaDecrypt
<1>22. /\ wolfTPM2_PolicyRestart \in Seq(Bare) /\ wolfTPM2_GetPolicyDigest \in Seq(Bare)
       /\ wolfTPM2_PolicyPCR \in Seq(Bare)
  BY <1>2, <1>5 DEF wolfTPM2_PolicyRestart, wolfTPM2_GetPolicyDigest, wolfTPM2_PolicyPCR
<1>23. {wolfTPM2_SelfTest, wolfTPM2_GetCapabilities, wolfTPM2_Clear, wolfTPM2_ResetPCR,
        wolfTPM2_ReadPCR, wolfTPM2_ExtendPCR, wolfTPM2_Shutdown, wolfTPM2_UnsetAuth(0),
        wolfTPM2_ChangePlatformAuth(FALSE), wolfTPM2_NVReadPublic, wolfTPM2_NVCreate,
        wolfTPM2_NVDelete, wolfTPM2_LoadSymmetricKey} \subseteq Seq(Bare)
  BY <1>7, <1>8, <1>9, <1>10, <1>11, <1>12, <1>13, <1>14, <1>15, <1>16, <1>17, <1>18
<1>24. {wolfTPM2_GetTime, wolfTPM2_SignHash, wolfTPM2_VerifyHash, wolfTPM2_ECDHGen,
        wolfTPM2_ECDHGenZ, wolfTPM2_RsaEncrypt, wolfTPM2_RsaDecrypt} \subseteq Seq(Bare)
  BY <1>19, <1>21
<1> QED BY <1>22, <1>23, <1>24

\* And those that depend on how many pieces there are.
LEMMA PlainPieces ==
    ASSUME NEW n \in Rounds, NEW k \in BOOLEAN
    PROVE  /\ {wolfTPM2_GetRandom(n), wolfTPM2_NVWrite(n), wolfTPM2_NVRead(n)} \subseteq Seq(Bare)
           /\ {wolfTPM2_NVWriteAuth(k, n), wolfTPM2_NVReadAuth(k, n)} \subseteq Seq(Bare)
           /\ wolfTPM2_EncryptDecrypt(n) \in Seq(Bare) /\ wolfTPM2_HmacUpdate(n) \in Seq(Bare)
<1>1. /\ {} \in SUBSET Structures /\ {"key"} \in SUBSET Structures /\ {"hash"} \in SUBSET Structures
      /\ "key" \in Structures \union {"parent"} /\ "hash" \in Structures \union {"parent"}
  BY DEF Structures
<1>2. \A a \in Bare : << a >> \in Seq(Bare)
  OBVIOUS
<1>3. \A a \in Seq(Bare), b \in Seq(Bare) : a \o b \in Seq(Bare)
  OBVIOUS
<1>4. \A c : /\ Run(c, {}) \in Bare /\ Run(c, {"key"}) \in Bare /\ Run(c, {"hash"}) \in Bare
  BY <1>1, PlainSteps
<1>5. wolfTPM2_SetAuthHandle("key") \in Bare /\ wolfTPM2_SetAuthHandle("hash") \in Bare
  BY <1>1, PlainSteps
<1>6. n \in Nat /\ (n # 0 => n - 1 \in Nat)
  BY WrapAssumption
<1>7. \A m \in Nat : \A c : Times(m, Run(c, {})) \in Seq(Bare) /\ Times(m, Run(c, {"hash"})) \in Seq(Bare)
  BY <1>4, TimesOfSteps
<1>8. << >> \in Seq(Bare) /\ wolfTPM2_NVOpen \in Seq(Bare)
  BY <1>2, <1>4 DEF wolfTPM2_NVOpen, wolfTPM2_NVReadPublic
<1>9. Opened(TRUE) \in Seq(Bare) /\ Opened(FALSE) \in Seq(Bare)
  BY <1>8 DEF Opened
<1>10. ASSUME NEW j \in BOOLEAN
       PROVE  wolfTPM2_NVWriteAuth(j, n) \in Seq(Bare) /\ wolfTPM2_NVReadAuth(j, n) \in Seq(Bare)
  <2>1. Opened(j) \in Seq(Bare)
    BY <1>9
  <2>2. CASE n = 0
    BY <1>3, <1>6, <1>7, <1>8, <2>1, <2>2 DEF wolfTPM2_NVWriteAuth, wolfTPM2_NVReadAuth
  <2>3. CASE n # 0
    <3>1. Times(n - 1, Run("NV_Write", {})) \in Seq(Bare) /\ << Run("NV_Write", {}) >> \in Seq(Bare)
      BY <1>2, <1>4, <1>6, <1>7, <2>3
    <3>2. << Run("NV_Write", {}) >> \o wolfTPM2_NVOpen \o Times(n - 1, Run("NV_Write", {})) \in Seq(Bare)
      BY <1>3, <1>8, <3>1
    <3>3. wolfTPM2_NVWriteAuth(j, n) \in Seq(Bare)
      BY <1>3, <2>1, <2>3, <3>2 DEF wolfTPM2_NVWriteAuth
    <3> QED BY <1>3, <1>6, <1>7, <2>1, <3>3 DEF wolfTPM2_NVReadAuth
  <2> QED BY <2>2, <2>3
<1>11. {wolfTPM2_GetRandom(n), wolfTPM2_NVWrite(n), wolfTPM2_NVRead(n)} \subseteq Seq(Bare)
  BY <1>6, <1>7, <1>10 DEF wolfTPM2_GetRandom, wolfTPM2_NVWrite, wolfTPM2_NVRead
<1>12. wolfTPM2_EncryptDecrypt(n) \in Seq(Bare)
  <2> DEFINE a == wolfTPM2_SetAuthHandle("key")
             b == Run("EncryptDecrypt2", {"key"})
  <2>1. a \in Bare /\ b \in Bare
    BY <1>4, <1>5
  <2>2. wolfTPM2_EncryptDecryptBlock = << a, b >>
    BY DEF wolfTPM2_EncryptDecryptBlock, OnKey
  <2> HIDE DEF a, b
  <2>3. \A j \in 1 .. 2 * n : wolfTPM2_EncryptDecryptBlock[IF j % 2 = 1 THEN 1 ELSE 2] \in Bare
    BY <2>1, <2>2
  <2>4. wolfTPM2_EncryptDecrypt(n) \in [1 .. 2 * n -> Bare]
    BY <2>3 DEF wolfTPM2_EncryptDecrypt
  <2>5. 2 * n \in Nat
    BY <1>6
  <2>6. \A m \in Nat : \A f \in [1 .. m -> Bare] : f \in Seq(Bare)
    OBVIOUS
  <2> QED BY <2>4, <2>5, <2>6
<1>13. wolfTPM2_HmacUpdate(n) \in Seq(Bare)
  BY <1>2, <1>3, <1>5, <1>6, <1>7 DEF wolfTPM2_HmacUpdate, wolfTPM2_HashUpdate
<1> QED BY <1>10, <1>11, <1>12, <1>13

LEMMA LockScripts ==
    ASSUME NEW k \in BOOLEAN
    PROVE  {wolfTPM2_NVIncrement(k), wolfTPM2_NVWriteLock(k)} \subseteq Seq(Bare)
<1>1. \A c : Run(c, {}) \in Bare
  BY PlainSteps
<1>2. \A a \in Bare : << a >> \in Seq(Bare)
  OBVIOUS
<1>3. \A a \in Seq(Bare), b \in Seq(Bare) : a \o b \in Seq(Bare)
  OBVIOUS
<1>4. << >> \in Seq(Bare) /\ wolfTPM2_NVOpen \in Seq(Bare)
  BY <1>1, <1>2 DEF wolfTPM2_NVOpen, wolfTPM2_NVReadPublic
<1>5. Opened(k) \in Seq(Bare)
  BY <1>4 DEF Opened
<1> QED BY <1>1, <1>2, <1>3, <1>5 DEF wolfTPM2_NVIncrement, wolfTPM2_NVWriteLock

\* What gives a structure a handle, or takes it.
LEMMA QuietMembers ==
    /\ Bare \subseteq Quiet(Others)
    /\ \A s \in Others :
         /\ wolfTPM2_UnloadHandle(s) \in Quiet(Others)
         /\ Ignoring(wolfTPM2_UnloadHandle(s)) \in Quiet(Others)
         /\ Always(Ignoring(wolfTPM2_UnloadHandle(s))) \in Quiet(Others)
         /\ Clear(s) \in Quiet(Others) /\ Always(Clear(s)) \in Quiet(Others)
         /\ \A h \in Objects \union {None, Persistent, Counter} : Put(h, s) \in Quiet(Others)
         /\ \A q \in Others : Copy(q, s) \in Quiet(Others) /\ Always(Copy(q, s)) \in Quiet(Others)
         /\ \A c : \A uses \in SUBSET Structures :
              /\ Make(c, uses, "key", s) \in Quiet(Others)
              /\ Make(c, uses, "temporary", s) \in Quiet(Others)
         /\ \A c : [Run(c, {s}) EXCEPT !.makes = "end", !.from = s] \in Quiet(Others)
    /\ Step("keyLoaded") \in Quiet(Others) /\ Always(Step("keyUnloaded")) \in Quiet(Others)
<1>0. Others \subseteq Structures /\ None \in Int
  BY DEF Others, None
<1>1. Bare \subseteq Quiet(Others)
  BY DEF Bare, Quiet
<1>2. ASSUME NEW s \in Others
      PROVE  /\ wolfTPM2_UnloadHandle(s) \in Quiet(Others)
             /\ Ignoring(wolfTPM2_UnloadHandle(s)) \in Quiet(Others)
             /\ Always(Ignoring(wolfTPM2_UnloadHandle(s))) \in Quiet(Others)
  <2> DEFINE r == wolfTPM2_UnloadHandle(s)
             g == Ignoring(r)
             a == Always(g)
  <2>1. r \in StepSet /\ r.op = "unload" /\ r.uses = {s} /\ r.into = s /\ r.makes = "none"
    BY <1>0, UnloadFields
  <2>2. g \in StepSet /\ g.op = "unload" /\ g.uses = {s} /\ g.into = s /\ g.makes = "none"
    <3> HIDE DEF r
    <3> QED BY <2>1, IgnoringFields
  <2>3. a \in StepSet /\ a.op = "unload" /\ a.uses = {s} /\ a.into = s /\ a.makes = "none"
    <3> HIDE DEF g
    <3> QED BY <2>2, AlwaysFields
  <2> HIDE DEF r, g, a
  <2>4. r \in Quiet(Others) /\ g \in Quiet(Others) /\ a \in Quiet(Others)
    BY <2>1, <2>2, <2>3 DEF Quiet
  <2> QED BY <2>4 DEF r, g, a
<1>3. ASSUME NEW s \in Others, NEW h \in Objects \union {None, Persistent, Counter}
      PROVE  Put(h, s) \in Quiet(Others) /\ Always(Put(h, s)) \in Quiet(Others)
  <2> DEFINE p == Put(h, s)
             a == Always(p)
  <2>1. h \in Int /\ h \notin SessionIds
    BY HandleFactsOfTpm DEF Objects, HandleIds, None, Persistent, Counter
  <2>2. p \in StepSet /\ p.op = "put" /\ p.value = h /\ p.into = s
    BY <1>0, <2>1, HandFields
  <2>3. a \in StepSet /\ a.op = "put" /\ a.value = h /\ a.into = s
    <3> HIDE DEF p
    <3> QED BY <2>2, AlwaysFields
  <2> HIDE DEF p, a
  <2>4. p \in Quiet(Others) /\ a \in Quiet(Others)
    BY <2>1, <2>2, <2>3 DEF Quiet
  <2> QED BY <2>4 DEF p, a
<1>4. ASSUME NEW s \in Others PROVE Clear(s) \in Quiet(Others) /\ Always(Clear(s)) \in Quiet(Others)
  BY <1>3 DEF Clear
<1>5. ASSUME NEW s \in Others, NEW q \in Others
      PROVE  Copy(q, s) \in Quiet(Others) /\ Always(Copy(q, s)) \in Quiet(Others)
  <2> DEFINE p == Copy(q, s)
             a == Always(p)
  <2>1. p \in StepSet /\ p.op = "copy" /\ p.from = q /\ p.into = s
    BY <1>0, HandFields
  <2>2. a \in StepSet /\ a.op = "copy" /\ a.from = q /\ a.into = s
    <3> HIDE DEF p
    <3> QED BY <2>1, AlwaysFields
  <2> HIDE DEF p, a
  <2>3. p \in Quiet(Others) /\ a \in Quiet(Others)
    BY <2>1, <2>2 DEF Quiet
  <2> QED BY <2>3 DEF p, a
<1>6. ASSUME NEW s \in Others, NEW c, NEW uses \in SUBSET Structures, NEW kind \in {"key", "temporary"}
      PROVE  Make(c, uses, kind, s) \in Quiet(Others)
  <2> DEFINE p == Make(c, uses, kind, s)
  <2>1. kind \in Making
    BY DEF Making
  <2>2. p \in StepSet /\ p.op = "command" /\ p.into = s /\ p.makes = kind
    BY <1>0, <2>1, MakeFields
  <2> HIDE DEF p
  <2>3. p \in Quiet(Others)
    BY <2>2 DEF Quiet
  <2> QED BY <2>3 DEF p
<1>7. ASSUME NEW s \in Others, NEW c
      PROVE  [Run(c, {s}) EXCEPT !.makes = "end", !.from = s] \in Quiet(Others)
  <2> DEFINE r == Run(c, {s})
             e == [r EXCEPT !.makes = "end", !.from = s]
  <2>1. r \in StepSet /\ r.op = "command" /\ r.uses = {s} /\ r.into = "none"
    BY <1>0, RunFields
  <2> HIDE DEF r
  <2>2. e \in StepSet
    BY <1>0, <2>1 DEF StepSet
  <2>3. e.op = "command" /\ e.uses = {s} /\ e.into = "none" /\ e.makes = "end"
    BY <2>1 DEF StepSet
  <2> HIDE DEF e
  <2>4. e \in Quiet(Others)
    BY <2>2, <2>3 DEF Quiet
  <2> QED BY <2>4 DEF r, e
<1>8. Step("keyLoaded") \in Quiet(Others)
  BY StepFields DEF Quiet
<1>9. Always(Step("keyUnloaded")) \in Quiet(Others)
  <2>1. Step("keyUnloaded") \in StepSet /\ Step("keyUnloaded").op = "keyUnloaded"
    BY StepFields
  <2> QED BY <2>1, AlwaysFields DEF Quiet
<1> QED BY <1>1, <1>2, <1>3, <1>4, <1>5, <1>6, <1>7, <1>8, <1>9

\* The wrappers that have nothing to do with the session.
LEMMA QuietScripts ==
    /\ wolfTPM2_UnloadHandles_AllTransient \in Seq(Quiet(Others))
    /\ {wolfTPM2_ChangeAuthKey, wolfTPM2_NVStoreKey, << wolfTPM2_UnloadHandle("key") >>}
         \subseteq Seq(Quiet(Others))
    /\ {wolfTPM2_CreateEK, wolfTPM2_CreateSRK, wolfTPM2_ECDHGenKey,
        wolfTPM2_CreateAndLoadAIK, wolfTPM2_LoadRsaPublicKey, wolfTPM2_LoadEccPublicKey,
        wolfTPM2_LoadPrivateKey, wolfTPM2_LoadRsaPrivateKey, wolfTPM2_LoadEccPrivateKey,
        wolfTPM2_CreateLoadedKey("key"), wolfTPM2_ReadPublicKey, wolfTPM2_ECDHEGenKey,
        wolfTPM2_CreateKeySeal("key"), wolfTPM2_CreateKey("key") \o wolfTPM2_LoadKey("key")}
         \subseteq Seq(Quiet(Others))
    /\ {wolfTPM2_NVDeleteKey, wolfTPM2_ECDHEGenZ} \subseteq Seq(Quiet(Others))
    /\ {wolfTPM2_HashStart, wolfTPM2_HmacStart(FALSE), wolfTPM2_HmacStart(TRUE),
        wolfTPM2_HashFinish, wolfTPM2_HmacFinish(FALSE), wolfTPM2_HmacFinish(TRUE)}
         \subseteq Seq(Quiet(Others))
<1> DEFINE S == Quiet(Others)
<1>1. /\ "key" \in Others /\ "hash" \in Others /\ "hmacKey" \in Others /\ "local" \in Others
      /\ {} \in SUBSET Structures /\ {"key"} \in SUBSET Structures
      /\ {"local"} \in SUBSET Structures /\ {"hmacKey"} \in SUBSET Structures
  BY DEF Structures, Others
<1>2. /\ wolfTPM2_SetAuthHandle("key") \in S /\ wolfTPM2_SetAuthHandle("parent") \in S
      /\ wolfTPM2_SetAuthHandle("hash") \in S /\ wolfTPM2_SetAuthPassword \in S
      /\ Error \in S /\ GetNonce \in S /\ Ignoring(GetNonce) \in S
      /\ [Run("EvictControl", {"key"}) EXCEPT !.makes = "persist"] \in S
  <2>1. "key" \in Structures /\ "hash" \in Structures
    BY DEF Structures
  <2>2. /\ wolfTPM2_SetAuthHandle("key") \in Bare /\ wolfTPM2_SetAuthHandle("parent") \in Bare
        /\ wolfTPM2_SetAuthHandle("hash") \in Bare /\ wolfTPM2_SetAuthPassword \in Bare
        /\ Error \in Bare /\ GetNonce \in Bare /\ Ignoring(GetNonce) \in Bare
        /\ [Run("EvictControl", {"key"}) EXCEPT !.makes = "persist"] \in Bare
    BY <2>1, PlainSteps
  <2> HIDE DEF S
  <2> QED BY <2>2, QuietMembers DEF S
<1>3. \A c : Run(c, {}) \in S /\ Run(c, {"key"}) \in S /\ Run(c, {"local"}) \in S
  BY <1>1, PlainSteps, QuietMembers
<1>4. \A s \in Others :
         /\ wolfTPM2_UnloadHandle(s) \in S
         /\ Ignoring(wolfTPM2_UnloadHandle(s)) \in S
         /\ Always(Ignoring(wolfTPM2_UnloadHandle(s))) \in S
         /\ Clear(s) \in S /\ Always(Clear(s)) \in S
         /\ Put(Persistent, s) \in S /\ Put(Counter, s) \in S
  BY QuietMembers
<1>5. \A s \in Others, q \in Others : Copy(q, s) \in S /\ Always(Copy(q, s)) \in S
  BY QuietMembers
<1>6. \A s \in Others : \A c :
         /\ Make(c, {}, "key", s) \in S /\ Make(c, {}, "temporary", s) \in S
         /\ Make(c, {"hmacKey"}, "temporary", s) \in S
         /\ [Run(c, {s}) EXCEPT !.makes = "end", !.from = s] \in S
  BY <1>1, QuietMembers
<1>7. Step("keyLoaded") \in S /\ Always(Step("keyUnloaded")) \in S
  BY QuietMembers
<1>8. \A h \in Objects : Put(h, "local") \in S
  BY <1>1, QuietMembers
<1> HIDE DEF S
<1>9. \A a \in Seq(S), b \in Seq(S) : a \o b \in Seq(S)
  OBVIOUS
<1>10. << >> \in Seq(S) /\ \A a \in S : << a >> \in Seq(S)
  OBVIOUS
<1>11. \A a \in S, b \in S : << a, b >> \in Seq(S)
  OBVIOUS
<1>12. \A a \in S, b \in S, c \in S : << a, b, c >> \in Seq(S)
  OBVIOUS
<1>13. \A a \in S, b \in S, c \in S, d \in S : << a, b, c, d >> \in Seq(S)
  OBVIOUS
<1>14. \A a \in S, b \in S, c \in S, d \in S, e \in S : << a, b, c, d, e >> \in Seq(S)
  OBVIOUS
<1>15. wolfTPM2_UnloadHandles_AllTransient \in Seq(S)
  <2> DEFINE a == Ignoring(wolfTPM2_UnloadHandle("local"))
             n == MAX_HANDLE_NUM
             f == wolfTPM2_UnloadHandles_AllTransient
  <2>1. a \in S /\ n \in Nat
    BY <1>1, <1>4, WrapAssumption
  <2>2. f = [j \in 1 .. 2 * n |-> IF j % 2 = 1 THEN Put(1 + (j \div 2), "local") ELSE a]
    BY DEF wolfTPM2_UnloadHandles_AllTransient, wolfTPM2_UnloadHandles
  <2> HIDE DEF a, f
  <2>3. ASSUME NEW j \in 1 .. 2 * n, j % 2 = 1 PROVE Put(1 + (j \div 2), "local") \in S
    <3>1. 1 + (j \div 2) \in 1 .. n
      BY <2>1, <2>3
    <3> QED BY <1>8, <3>1 DEF Objects
  <2>4. f \in [1 .. 2 * n -> S] /\ 2 * n \in Nat
    BY <2>1, <2>2, <2>3
  <2>5. \A m \in Nat : \A g \in [1 .. m -> S] : g \in Seq(S)
    OBVIOUS
  <2> HIDE DEF n
  <2> QED BY <2>4, <2>5 DEF f
<1>16. wolfTPM2_ChangeAuthKey \in Seq(S)
  BY <1>1, <1>2, <1>3, <1>4, <1>6, <1>14 DEF wolfTPM2_ChangeAuthKey
<1>17. wolfTPM2_NVStoreKey \in Seq(S)
  BY <1>1, <1>2, <1>4, <1>13 DEF wolfTPM2_NVStoreKey
<1>18. << wolfTPM2_UnloadHandle("key") >> \in Seq(S)
  BY <1>1, <1>4, <1>10
<1>19. /\ wolfTPM2_CreateEK \in Seq(S) /\ wolfTPM2_CreateSRK \in Seq(S)
       /\ wolfTPM2_ECDHGenKey \in Seq(S)
  BY <1>1, <1>2, <1>4, <1>6, <1>12
     DEF wolfTPM2_CreateEK, wolfTPM2_CreateSRK, wolfTPM2_ECDHGenKey, wolfTPM2_CreatePrimaryKey
<1>20. \A s \in Others : wolfTPM2_CreateKey(s) \in Seq(S) /\ wolfTPM2_LoadKey(s) \in Seq(S)
  BY <1>2, <1>3, <1>4, <1>6, <1>11, <1>12 DEF wolfTPM2_CreateKey, wolfTPM2_LoadKey
<1>21. << Always(Copy("local", "key")) >> \in Seq(S) /\ << Copy("key", "local") >> \in Seq(S)
  BY <1>1, <1>5, <1>10
<1>22. wolfTPM2_CreateAndLoadAIK \in Seq(S)
  BY <1>1, <1>9, <1>20, <1>21 DEF wolfTPM2_CreateAndLoadAIK, wolfTPM2_CreateAndLoadKey
<1>23. wolfTPM2_LoadRsaPublicKey \in Seq(S) /\ wolfTPM2_LoadEccPublicKey \in Seq(S)
  BY <1>1, <1>6, <1>10 DEF wolfTPM2_LoadRsaPublicKey, wolfTPM2_LoadRsaPublicKey_ex,
     wolfTPM2_LoadEccPublicKey, wolfTPM2_LoadPublicKey, wolfTPM2_LoadPublicKey_ex
<1>24. wolfTPM2_ImportPrivateKey \in Seq(S) /\ << Ignoring(GetNonce) >> \in Seq(S)
  BY <1>2, <1>10, <1>11 DEF wolfTPM2_ImportPrivateKey
<1>25. wolfTPM2_ImportRsaPrivateKey \in Seq(S) /\ wolfTPM2_ImportEccPrivateKey \in Seq(S)
  BY <1>9, <1>24 DEF wolfTPM2_ImportRsaPrivateKey, wolfTPM2_ImportRsaPrivateKeySeed,
     wolfTPM2_ImportEccPrivateKey, wolfTPM2_ImportEccPrivateKeySeed
<1>26. \A a \in Seq(S) : Imported(a) \in Seq(S)
  BY <1>1, <1>9, <1>20, <1>21 DEF Imported
<1>27. /\ wolfTPM2_LoadPrivateKey \in Seq(S) /\ wolfTPM2_LoadRsaPrivateKey \in Seq(S)
       /\ wolfTPM2_LoadEccPrivateKey \in Seq(S)
  BY <1>24, <1>25, <1>26 DEF wolfTPM2_LoadPrivateKey, wolfTPM2_LoadRsaPrivateKey,
     wolfTPM2_LoadRsaPrivateKey_ex, wolfTPM2_LoadEccPrivateKey
<1>28. wolfTPM2_CreateLoadedKey("key") \in Seq(S)
  BY <1>1, <1>2, <1>4, <1>6, <1>12 DEF wolfTPM2_CreateLoadedKey
<1>29. wolfTPM2_ReadPublicKey \in Seq(S)
  BY <1>1, <1>3, <1>4, <1>5, <1>12 DEF wolfTPM2_ReadPublicKey
<1>30. wolfTPM2_ECDHEGenKey \in Seq(S)
  BY <1>1, <1>3, <1>4, <1>11 DEF wolfTPM2_ECDHEGenKey
<1>31. wolfTPM2_CreateKeySeal("key") \in Seq(S) /\ wolfTPM2_CreateKey("key") \o wolfTPM2_LoadKey("key") \in Seq(S)
  BY <1>1, <1>9, <1>20 DEF wolfTPM2_CreateKeySeal, wolfTPM2_CreateKeySeal_ex
<1>32. wolfTPM2_NVDeleteKey \in Seq(S)
  BY <1>1, <1>4, <1>6, <1>11 DEF wolfTPM2_NVDeleteKey
<1>33. wolfTPM2_ECDHEGenZ \in Seq(S)
  BY <1>1, <1>2, <1>3, <1>4, <1>12 DEF wolfTPM2_ECDHEGenZ
<1>34. wolfTPM2_HashStart \in Seq(S)
  BY <1>1, <1>6, <1>10 DEF wolfTPM2_HashStart
<1>35. wolfTPM2_LoadKeyedHashKey("hmacKey") \in Seq(S)
  BY <1>1, <1>2, <1>3, <1>4, <1>6, <1>13 DEF wolfTPM2_LoadKeyedHashKey
<1>36. wolfTPM2_HmacStart(FALSE) \in Seq(S) /\ wolfTPM2_HmacStart(TRUE) \in Seq(S)
  <2>1. << wolfTPM2_SetAuthHandle("hash"), Make("HMAC_Start", {"hmacKey"}, "temporary", "hash") >>
          \in Seq(S)
    BY <1>1, <1>2, <1>6, <1>11
  <2>2. << Step("keyLoaded") >> \in Seq(S)
    BY <1>7, <1>10
  <2> QED BY <1>9, <1>10, <1>35, <2>1, <2>2 DEF wolfTPM2_HmacStart
<1>37. wolfTPM2_HashFinish \in Seq(S)
  BY <1>1, <1>2, <1>4, <1>6, <1>12 DEF wolfTPM2_HashFinish
<1>38. wolfTPM2_HmacFinish(FALSE) \in Seq(S) /\ wolfTPM2_HmacFinish(TRUE) \in Seq(S)
  BY <1>1, <1>4, <1>7, <1>9, <1>10, <1>11, <1>37 DEF wolfTPM2_HmacFinish
<1>39. {wolfTPM2_ChangeAuthKey, wolfTPM2_NVStoreKey, << wolfTPM2_UnloadHandle("key") >>} \subseteq Seq(S)
  BY <1>16, <1>17, <1>18
<1>40. {wolfTPM2_CreateEK, wolfTPM2_CreateSRK, wolfTPM2_ECDHGenKey,
        wolfTPM2_CreateAndLoadAIK, wolfTPM2_LoadRsaPublicKey, wolfTPM2_LoadEccPublicKey,
        wolfTPM2_LoadPrivateKey, wolfTPM2_LoadRsaPrivateKey, wolfTPM2_LoadEccPrivateKey,
        wolfTPM2_CreateLoadedKey("key"), wolfTPM2_ReadPublicKey, wolfTPM2_ECDHEGenKey,
        wolfTPM2_CreateKeySeal("key"), wolfTPM2_CreateKey("key") \o wolfTPM2_LoadKey("key")}
         \subseteq Seq(S)
  BY <1>19, <1>22, <1>23, <1>27, <1>28, <1>29, <1>30, <1>31
<1>41. {wolfTPM2_HashStart, wolfTPM2_HmacStart(FALSE), wolfTPM2_HmacStart(TRUE),
        wolfTPM2_HashFinish, wolfTPM2_HmacFinish(FALSE), wolfTPM2_HmacFinish(TRUE)} \subseteq Seq(S)
  BY <1>34, <1>36, <1>37, <1>38
<1> QED BY <1>15, <1>32, <1>33, <1>39, <1>40, <1>41 DEF S

-----------------------------------------------------------------------------
(* The wrappers that start a session, seat it and end it.                  *)

\* Quiet steps leave slot 1 and the session's structure.
LEMMA QuietSlots ==
    ASSUME NEW T \in SUBSET Others, NEW w \in World, NEW t \in Quiet(T), NEW how
    PROVE  LET v == Turn(w, t, how)
           IN /\ v.slot[1] = w.slot[1] /\ v.handle["session"] = w.handle["session"]
              /\ v.slot[0].handle \in {w.slot[0].handle, None, Password}
<1> DEFINE V == Do(w, t, how)
<1>0. PICK v : v = V
  OBVIOUS
<1> HIDE DEF V
<1>1. t \in StepSet /\ v = Do(w, t, how) /\ T \subseteq Structures
  BY <1>0 DEF Quiet, Others, V
<1>2. /\ "none" \notin T /\ "session" \notin T
      /\ \/ t.op = "command" /\ t.makes \in {"none", "clear", "persist"} /\ t.into = "none"
         \/ t.op = "command" /\ t.makes = "end" /\ t.into = "none" /\ t.uses \subseteq T
         \/ t.op = "command" /\ t.makes \in {"key", "temporary"} /\ t.into \in T
         \/ t.op = "unload" /\ t.into \in T /\ t.uses = {t.into} /\ t.makes = "none"
         \/ t.op = "slot" /\ t.index = 0 /\ t.value \in {None, Password}
         \/ t.op = "handle"
         \/ t.op = "put" /\ t.into \in T /\ t.value \notin SessionIds
         \/ t.op = "copy" /\ t.into \in T /\ t.from \in T
         \/ t.op \in {"active", "keyLoaded", "keyUnloaded", "error"}
  BY DEF Quiet, Others, Structures
<1>3. w.handle \in [Structures -> Int] /\ "session" \in Structures
  BY DEF World, Structures
<1>4. /\ v.slot[1] = w.slot[1] /\ v.handle["session"] = w.handle["session"]
      /\ v.slot[0].handle \in {w.slot[0].handle, None, Password}
  <2>1. CASE t.op \in {"command", "unload"}
    <3>1. t \in Sending
      BY <1>1, <1>2, <2>1 DEF Sending, Making
    <3>2. CASE v = w
      BY <3>2
    <3>3. CASE Refuses(w, t, v)
      BY <3>3 DEF Refuses
    <3>4. ASSUME NEW sent \in SlotSets, Executes(w, t, sent, v)
          PROVE  v.slot = w.slot /\ v.handle["session"] = w.handle["session"]
      <4>1. v.slot = w.slot
        BY <3>4 DEF Executes
      <4>2. v.handle = w.handle \/ (t.into \in T /\ \E h : v.handle = [w.handle EXCEPT ![t.into] = h])
        <5>1. CASE Answers(w, t, sent, v)
          <6>1. t.into \in T \/ (t.into = "none" /\ t.op # "unload")
            BY <1>2, <2>1
          <6> QED BY <5>1, <6>1 DEF Answers
        <5>2. CASE Loses(w, t, sent, v)
          BY <5>2 DEF Loses
        <5> QED BY <3>4, <5>1, <5>2 DEF Executes
      <4>3. v.handle["session"] = w.handle["session"]
        BY <1>1, <1>2, <1>3, <4>2
      <4> QED BY <4>1, <4>3
    <3> QED BY <1>1, <3>1, <3>2, <3>3, <3>4, SendingFacts
  <2>2. CASE t.op \in {"slot", "handle"}
    <3>1. /\ Alike(w, v, {"slot"})
          /\ \/ t.op = "handle" /\ v.slot = w.slot
             \/ LET k == IF t.op = "slot" THEN t.index ELSE 0
                    h == IF t.op = "slot" THEN t.value ELSE Password
                IN v.slot = [w.slot EXCEPT ![k] = [handle |-> h, attrs |-> {}]]
      BY <1>1, <2>2, SlotFacts
    <3>2. v.slot = w.slot \/ \E h \in {None, Password} :
                               v.slot = [w.slot EXCEPT ![0] = [handle |-> h, attrs |-> {}]]
      BY <1>2, <2>2, <3>1
    <3>3. v.slot[1] = w.slot[1] /\ v.slot[0].handle \in {w.slot[0].handle, None, Password}
      BY <3>2 DEF World
    <3> QED BY <3>1, <3>3 DEF Alike
  <2>3. CASE t.op \in {"put", "copy"}
    <3>1. /\ t.into \in T /\ t.into # "none" /\ t.into # "session"
          /\ t.op = "copy" => t.from \in Structures
      BY <1>1, <1>2, <2>3
    <3>2. /\ Alike(w, v, {"handle", "kept"})
          /\ t.op = "put" => v.handle = [w.handle EXCEPT ![t.into] = t.value]
          /\ t.op = "copy" => v.handle = [w.handle EXCEPT ![t.into] = w.handle[t.from]]
      BY <1>1, <2>3, <3>1, HandFacts
    <3> QED BY <1>1, <1>3, <2>3, <3>1, <3>2 DEF Alike
  <2>4. CASE t.op \in {"active", "keyLoaded", "keyUnloaded", "error"}
    <3>1. \/ Alike(w, v, {"hmacKeyLoaded"}) \/ Alike(w, v, {"active"}) \/ Refuses(w, t, v)
      BY <1>1, <2>4, FlagFacts
    <3> QED BY <3>1 DEF Alike, Refuses
  <2> QED BY <1>2, <2>1, <2>2, <2>3, <2>4
<1>5. Turn(w, t, how) = w \/ Turn(w, t, how) = v
  BY <1>1 DEF Turn
<1> QED BY <1>4, <1>5

\* What a script of quiet steps keeps, with a condition on the session and on the slots.
Steady(T, idle, unset) ==
    {w \in Sane(T) : /\ idle => w.slot[1].handle = None
                     /\ unset => /\ w.handle["session"] = None
                                 /\ w.slot[0].handle \notin SessionIds}

LEMMA SteadyFacts ==
    ASSUME NEW T \in SUBSET Others, NEW idle \in BOOLEAN, NEW unset \in BOOLEAN
    PROVE  /\ Steady(T, idle, unset) \in SUBSET World
           /\ Steady(T, idle, unset) \subseteq Sane(T) /\ Sane(T) = Steady(T, FALSE, FALSE)
           /\ Bare \subseteq Quiet(T)
           /\ \A t \in Quiet(T) : Takes(Steady(T, idle, unset), t, Steady(T, idle, unset))
<1>1. Steady(T, idle, unset) \in SUBSET World /\ Steady(T, idle, unset) \subseteq Sane(T)
  BY DEF Steady, Sane
<1>2. Sane(T) = Steady(T, FALSE, FALSE)
  BY DEF Steady
<1>3. Bare \subseteq Quiet(T)
  BY DEF Bare, Quiet
<1>4. ASSUME NEW t \in Quiet(T), NEW w \in Steady(T, idle, unset), NEW how
      PROVE  Turn(w, t, how) \in Steady(T, idle, unset)
  <2>1. w \in World /\ w \in Sane(T)
    BY <1>1
  <2>2. PICK v : v = Turn(w, t, how)
    OBVIOUS
  <2>3. v \in Sane(T)
    <3>1. v = w \/ v = Do(w, t, how)
      BY <2>2 DEF Turn
    <3> QED BY <2>1, <3>1, QuietSteps
  <2>4. /\ v.slot[1] = w.slot[1] /\ v.handle["session"] = w.handle["session"]
        /\ v.slot[0].handle \in {w.slot[0].handle, None, Password}
    BY <2>1, <2>2, QuietSlots
  <2>5. None \notin SessionIds /\ Password \notin SessionIds
    BY HandleFactsOfTpm DEF HandleIds
  <2>6. /\ idle => w.slot[1].handle = None
        /\ unset => w.handle["session"] = None /\ w.slot[0].handle \notin SessionIds
    BY DEF Steady
  <2> QED BY <2>2, <2>3, <2>4, <2>5, <2>6 DEF Steady
<1> QED BY <1>1, <1>2, <1>3, <1>4 DEF Takes

\* A script of quiet steps.
LEMMA QuietLeads ==
    ASSUME NEW T \in SUBSET Others, NEW idle \in BOOLEAN, NEW unset \in BOOLEAN,
           NEW script \in Seq(Quiet(T))
    PROVE  Leads(Steady(T, idle, unset), script, Steady(T, idle, unset))
BY SteadyFacts, LeadsAll

\* The steps of a session, from worlds that satisfy Sane to such worlds.
LEMMA ResetTakes ==
    Takes(Steady(Others, TRUE, FALSE), Step("reset"), Steady(Others, TRUE, FALSE))
<1> SUFFICES ASSUME NEW w \in Steady(Others, TRUE, FALSE), NEW how
             PROVE  Turn(w, Step("reset"), how) \in Steady(Others, TRUE, FALSE)
  BY DEF Takes
<1>1. PICK v : v = Turn(w, Step("reset"), how)
  OBVIOUS
<1>2. w \in World /\ w \in Sane(Others) /\ w.slot[1].handle = None
  BY DEF Steady, Sane
<1>3. Step("reset") \in StepSet /\ Step("reset").op = "reset"
  BY StepFields
<1>4. v = w \/ v = Do(w, Step("reset"), how)
  BY <1>1 DEF Turn
<1>5. CASE v = w
  BY <1>1, <1>5
<1>6. CASE v = Do(w, Step("reset"), how)
  <2>1. /\ Alike(w, v, {"slot", "active", "kept"}) /\ v.missed = w.missed
        /\ v.slot[0].handle = None /\ v.slot[1].handle = None
        /\ ~v.active /\ v.kept = w.kept \ {"slot"}
    BY <1>2, <1>3, <1>6, FlagFacts
  <2>2. None \notin SessionIds
    BY HandleFactsOfTpm DEF HandleIds
  <2>3. Kept(v)
    BY <1>2, <2>1, <2>2 DEF Sane, Kept, Alike
  <2>4. v \in Sane(Others)
    BY <1>2, <2>1, <2>2, <2>3 DEF Sane, Alike
  <2> QED BY <1>1, <2>1, <2>4 DEF Steady
<1> QED BY <1>4, <1>5, <1>6

LEMMA SessionFields ==
    ASSUME NEW j \in 0 .. 1, NEW a \in SUBSET Attributes
    PROVE  LET t == wolfTPM2_SetAuthSession(j, a)
           IN t \in StepSet /\ t.op = "session" /\ t.index = j /\ t.attrs = a
<1> DEFINE t == wolfTPM2_SetAuthSession(j, a)
<1>1. t = [Step("session") EXCEPT !.index = j, !.attrs = a, !.from = "session"]
  BY DEF wolfTPM2_SetAuthSession
<1>2. Step("session") \in StepSet /\ Step("session").op = "session"
  BY StepFields
<1>3. "session" \in Structures
  BY DEF Structures
<1> HIDE DEF t
<1>4. t \in StepSet
  BY <1>1, <1>2, <1>3 DEF StepSet
<1>5. t.op = "session" /\ t.index = j /\ t.attrs = a
  BY <1>1, <1>2 DEF StepSet
<1> QED BY <1>4, <1>5 DEF t

\* Where a session may be put into slot 1, and into slot 0.
Seatable ==
    {w \in Steady(Others, TRUE, FALSE) :
       w.active /\ w.handle["session"] \in SessionIds /\ w.loaded[w.handle["session"]] = "hmac"}
Spent ==
    {w \in Sane(Others) :
       w.handle["session"] \in SessionIds /\ w.loaded[w.handle["session"]] # "hmac"}

LEMMA SeatTakes ==
    ASSUME NEW a \in SUBSET Attributes
    PROVE  /\ Takes(Seatable, wolfTPM2_SetAuthSession(1, a), Sane(Others))
           /\ Takes(Spent, wolfTPM2_SetAuthSession(0, a), Sane(Others))
<1>1. ASSUME NEW j \in 0 .. 1, NEW w \in IF j = 1 THEN Seatable ELSE Spent, NEW how
      PROVE  Turn(w, wolfTPM2_SetAuthSession(j, a), how) \in Sane(Others)
  <2> DEFINE T == wolfTPM2_SetAuthSession(j, a)
  <2>1. PICK t : t = T
    OBVIOUS
  <2>2. PICK v : v = Turn(w, t, how)
    OBVIOUS
  <2>3. t \in StepSet /\ t.op = "session" /\ t.index = j /\ t.attrs = a
    BY <2>1, SessionFields
  <2> HIDE DEF T
  <2>4. w \in World /\ w \in Sane(Others) /\ w.handle["session"] \in SessionIds
    BY DEF Seatable, Spent, Steady, Sane
  <2>5. IF j = 1 THEN w.active /\ w.slot[1].handle = None /\ w.loaded[w.handle["session"]] = "hmac"
        ELSE w.loaded[w.handle["session"]] # "hmac"
    BY DEF Seatable, Spent, Steady
  <2>6. v = w \/ v = Do(w, t, how)
    BY <2>2 DEF Turn
  <2>7. CASE v = Do(w, t, how)
    <3>1. /\ Alike(w, v, {"slot", "kept"}) /\ v.missed = w.missed
          /\ v.slot = [w.slot EXCEPT ![j] = [handle |-> w.handle["session"], attrs |-> a]]
          /\ v.kept = IF j = 1 /\ "session" \in w.kept THEN {"session", "slot"} ELSE w.kept
      <4>1. t.op \in {"session", "save"} /\ t \in StepSet
        BY <2>3
      <4>2. /\ Alike(w, v, {"slot", "kept"}) /\ v.missed = w.missed
            /\ t.op = "session" =>
                 /\ v.slot = [w.slot EXCEPT ![t.index] =
                                [handle |-> w.handle["session"], attrs |-> t.attrs]]
                 /\ v.kept = IF t.index = 1 /\ "session" \in w.kept THEN {"session", "slot"}
                             ELSE w.kept
        BY ONLY <2>4, <2>7, <4>1, SessionFacts
      <4> QED BY <2>3, <4>2
    <3>2. w.slot \in [0 .. 1 -> [handle : Int, attrs : SUBSET Attributes]]
      BY <2>4 DEF World
    <3>3. v.slot[j].handle = w.handle["session"] /\ (j = 1 => v.slot[0] = w.slot[0])
          /\ (j = 0 => v.slot[1] = w.slot[1])
      BY <3>1, <3>2
    <3>4. None \notin SessionIds
      BY HandleFactsOfTpm DEF HandleIds
    <3>5. Kept(v)
      <4>1. CASE j = 1
        BY <2>4, <2>5, <3>1, <3>3, <3>4, <4>1 DEF Sane, Kept, Alike
      <4>2. CASE j = 0
        BY <2>4, <2>5, <3>1, <3>3, <3>4, <4>2 DEF Sane, Kept, Alike
      <4> QED BY <4>1, <4>2
    <3>6. v.slot[1].handle # None =>
            /\ v.slot[1].handle = v.handle["session"] /\ v.slot[1].handle \in SessionIds
            /\ v.loaded[v.slot[1].handle] = "hmac"
      <4>1. CASE j = 1
        BY <2>4, <2>5, <3>1, <3>3, <4>1 DEF Alike
      <4>2. CASE j = 0
        BY <2>4, <3>1, <3>3, <4>2 DEF Alike, Sane
      <4> QED BY <4>1, <4>2
    <3>7. /\ v.slot[0].handle \in SessionIds => v.loaded[v.slot[0].handle] # "hmac"
          /\ ~v.active => v.slot[1].handle = None
      <4>1. CASE j = 1
        BY <2>4, <2>5, <3>1, <3>3, <4>1 DEF Alike, Sane
      <4>2. CASE j = 0
        BY <2>4, <2>5, <3>1, <3>3, <4>2 DEF Alike, Sane
      <4> QED BY <4>1, <4>2
    <3> QED BY <2>1, <2>2, <2>4, <3>1, <3>5, <3>6, <3>7 DEF Sane, Alike, T
  <2> QED BY <2>1, <2>2, <2>4, <2>6, <2>7 DEF T
<1>2. /\ \A w \in Seatable : \A how : Turn(w, wolfTPM2_SetAuthSession(1, a), how) \in Sane(Others)
      /\ \A w \in Spent : \A how : Turn(w, wolfTPM2_SetAuthSession(0, a), how) \in Sane(Others)
  BY <1>1
<1> QED BY <1>2 DEF Takes

\* A session that is in no slot for HMACs is unloaded.
LEMMA UnloadSessionTakes ==
    Takes(Steady(Others, TRUE, FALSE), wolfTPM2_UnloadHandle("session"), Sane(Others))
<1> DEFINE T == wolfTPM2_UnloadHandle("session")
<1> SUFFICES ASSUME NEW w \in Steady(Others, TRUE, FALSE), NEW how
             PROVE  Turn(w, T, how) \in Sane(Others)
  BY DEF Takes
<1>1. PICK t : t = T
  OBVIOUS
<1>2. PICK v : v = Turn(w, t, how)
  OBVIOUS
<1>3. t \in StepSet /\ t.op = "unload" /\ t.uses = {"session"} /\ t.into = "session" /\ t.makes = "none"
  BY <1>1, UnloadFields DEF Structures
<1> HIDE DEF T
<1>4. w \in World /\ w \in Sane(Others) /\ w.slot[1].handle = None
  BY DEF Steady, Sane
<1>5. t \in Sending
  BY <1>3 DEF Sending
<1>6. v = w \/ v = Do(w, t, how)
  BY <1>2 DEF Turn
<1>7. CASE Refuses(w, t, v)
  BY <1>1, <1>2, <1>4, <1>7 DEF Refuses, Sane, Kept, T
<1>8. ASSUME NEW sent \in SlotSets, Executes(w, t, sent, v)
      PROVE  v \in Sane(Others)
  <2>1. /\ v \in World /\ v.slot = w.slot /\ v.active = w.active
        /\ v.loaded = LoadedThen(w, t, sent)
    BY <1>8 DEF Executes
  <2>2. None \notin SessionIds
    BY HandleFactsOfTpm DEF HandleIds
  <2>3. w.handle \in [Structures -> Int] /\ "session" \in Structures /\ Others \subseteq Structures \ {"session"}
    BY <1>4 DEF World, Structures, Others
  <2>4. \A h \in SessionIds : v.loaded[h] = "none" \/ v.loaded[h] = w.loaded[h]
    <3>1. Coming(w, t) = {}
      BY <1>3 DEF Coming, Making
    <3> QED BY <2>1, <3>1 DEF LoadedThen, HandleIds
  <2>5. Kept(v) /\ v.handle["session"] \in {None} \union SessionIds
        /\ \A s \in Others : v.handle[s] = w.handle[s]
    <3>1. CASE Answers(w, t, sent, v)
      <4>1. v.handle = [w.handle EXCEPT !["session"] = None]
        BY <1>3, <3>1 DEF Answers
      <4> QED BY <2>2, <2>3, <4>1 DEF Kept
    <3>2. CASE Loses(w, t, sent, v)
      <4>1. v.handle = w.handle
        BY <3>2 DEF Loses
      <4>2. w.handle["session"] \in SessionIds => v.loaded[w.handle["session"]] = "none"
        <5>1. Going(w, t) = {w.handle[s] : s \in {"session"}}
          BY <1>3 DEF Going
        <5> QED BY <2>1, <5>1 DEF LoadedThen, HandleIds
      <4> QED BY <1>4, <4>1, <4>2 DEF Kept, Sane
    <3> QED BY <1>8, <3>1, <3>2 DEF Executes
  <2>6. v.slot[0].handle \in SessionIds => v.loaded[v.slot[0].handle] # "hmac"
    BY <1>4, <2>1, <2>4 DEF Sane
  <2> QED BY <1>4, <2>1, <2>5, <2>6 DEF Sane
<1> QED BY <1>1, <1>2, <1>4, <1>5, <1>6, <1>7, <1>8, SendingFacts DEF T

\* A session is taken out of slot 1: first its nonce is saved.
Unseating == {w \in World :
    /\ w.handle["session"] \in {None} \union SessionIds
    /\ \A s \in Others : w.handle[s] \notin SessionIds
    /\ w.slot[0].handle \in SessionIds => w.loaded[w.slot[0].handle] # "hmac"
    /\ LET h == w.handle["session"]
       IN h \in SessionIds /\ w.loaded[h] = "hmac" /\ ~w.missed => "session" \in w.kept}

Seated1 == {w \in Sane(Others) : w.ok /\ w.slot[1].handle # None}

LEMMA UnseatTakes ==
    /\ Takes(Seated1, [Step("save") EXCEPT !.index = 1], {w \in Unseating : w.ok})
    /\ Takes({w \in Unseating : w.ok}, wolfTPM2_SetAuth(1, None), Sane(Others))
<1>0. None \notin SessionIds /\ None \in Int
  BY HandleFactsOfTpm DEF HandleIds, None
<1>1. ASSUME NEW w \in Seated1, NEW how
      PROVE  Turn(w, [Step("save") EXCEPT !.index = 1], how) \in {u \in Unseating : u.ok}
  <2> DEFINE T == [Step("save") EXCEPT !.index = 1]
  <2>1. PICK t : t = T
    OBVIOUS
  <2>2. PICK v : v = Turn(w, t, how)
    OBVIOUS
  <2>3. t \in StepSet /\ t.op = "save"
    BY <2>1, StepFields DEF StepSet
  <2>4. w \in World /\ w \in Sane(Others) /\ w.ok /\ w.slot[1].handle # None
    BY DEF Seated1, Sane
  <2>5. v = Do(w, t, how)
    BY <2>2, <2>4 DEF Turn
  <2>6. /\ Alike(w, v, {"slot", "kept"}) /\ v.missed = w.missed /\ v.slot = w.slot
        /\ v.kept = IF "slot" \in w.kept THEN {"session"} ELSE {}
    <3>1. t.op \in {"session", "save"} /\ t \in StepSet
      BY <2>3
    <3>2. /\ Alike(w, v, {"slot", "kept"}) /\ v.missed = w.missed
          /\ t.op = "session" =>
               /\ v.slot = [w.slot EXCEPT ![t.index] =
                              [handle |-> w.handle["session"], attrs |-> t.attrs]]
               /\ v.kept = IF t.index = 1 /\ "session" \in w.kept THEN {"session", "slot"}
                           ELSE w.kept
          /\ t.op = "save" =>
               v.slot = w.slot /\ v.kept = IF "slot" \in w.kept THEN {"session"} ELSE {}
      BY ONLY <2>4, <2>5, <3>1, SessionFacts
    <3> QED BY <2>3, <3>2
  <2>7. v \in Unseating /\ v.ok
    BY <2>4, <2>6 DEF Alike, Sane, Kept, Unseating
  <2> QED BY <2>1, <2>2, <2>7
<1>2. ASSUME NEW w \in {u \in Unseating : u.ok}, NEW how
      PROVE  Turn(w, wolfTPM2_SetAuth(1, None), how) \in Sane(Others)
  <2> DEFINE T == wolfTPM2_SetAuth(1, None)
  <2>1. PICK t : t = T
    OBVIOUS
  <2>2. PICK v : v = Turn(w, t, how)
    OBVIOUS
  <2>3. t \in StepSet /\ t.op = "slot" /\ t.index = 1 /\ t.value = None
    <3>1. Step("slot") \in StepSet /\ Step("slot").op = "slot"
      BY StepFields
    <3>2. t = [Step("slot") EXCEPT !.index = 1, !.value = None]
      BY <2>1 DEF wolfTPM2_SetAuth
    <3>3. 1 \in 0 .. 1
      OBVIOUS
    <3>4. t \in StepSet
      BY <1>0, <3>1, <3>2, <3>3 DEF StepSet
    <3>5. t.op = "slot" /\ t.index = 1 /\ t.value = None
      BY <3>1, <3>2 DEF StepSet
    <3> QED BY <3>4, <3>5
  <2>4. w \in World /\ w.ok /\ w \in Unseating
    BY DEF Unseating
  <2>5. v = Do(w, t, how)
    BY <2>2, <2>4 DEF Turn
  <2>6. /\ Alike(w, v, {"slot"})
        /\ v.slot = [w.slot EXCEPT ![1] = [handle |-> None, attrs |-> {}]]
    <3>1. t.op \in {"slot", "handle"} /\ t \in StepSet
      BY <2>3
    <3>2. \/ t.op = "handle" /\ v.slot = w.slot
          \/ LET k == IF t.op = "slot" THEN t.index ELSE 0
                 h == IF t.op = "slot" THEN t.value ELSE Password
             IN v.slot = [w.slot EXCEPT ![k] = [handle |-> h, attrs |-> {}]]
      BY ONLY <2>4, <2>5, <3>1, SlotFacts
    <3>3. Alike(w, v, {"slot"})
      BY ONLY <2>4, <2>5, <3>1, SlotFacts
    <3> QED BY <2>3, <3>1, <3>2, <3>3
  <2>7. v.slot[0] = w.slot[0] /\ v.slot[1].handle = None
    BY <2>4, <2>6 DEF World
  <2>8. v.slot[1].handle # v.handle["session"] \/ v.handle["session"] \notin SessionIds
    BY <1>0, <2>7
  <2>9. Kept(v)
    BY <2>4, <2>6, <2>8 DEF Alike, Kept, Unseating
  <2>10. v \in Sane(Others)
    <3>1. v.handle = w.handle /\ v.loaded = w.loaded /\ v \in World
      BY <2>6 DEF Alike
    <3> QED BY <2>4, <2>7, <2>9, <3>1 DEF Sane, Unseating
  <2> QED BY <2>1, <2>2, <2>10
<1> QED BY <1>1, <1>2 DEF Takes

\* A session has been started, and is named by the local structure only.
Begun ==
    {w \in Sane(Others \ {"local"}) :
       /\ w.handle["session"] = None /\ w.slot[0].handle \notin SessionIds
       /\ w.ok => LET h == w.handle["local"]
                  IN /\ h \in SessionIds
                     /\ w.loaded[h] = "hmac" => "session" \in w.kept}

LEMMA StartTakes ==
    /\ Takes(Steady(Others, FALSE, TRUE), Error, Steady(Others, FALSE, TRUE))
    /\ \A kind \in {"hmac", "policy"} :
         Takes(Steady(Others, FALSE, TRUE), Make("StartAuthSession", {}, kind, "local"), Begun)
    /\ Takes(Begun, Error, Begun)
    /\ Takes(Begun, Copy("local", "session"), Sane(Others \ {"local"}))
<1>0. None \notin SessionIds /\ None \in Int /\ SessionIds \subseteq HandleIds
  BY HandleFactsOfTpm DEF HandleIds, None
<1>1. Takes(Steady(Others, FALSE, TRUE), Error, Steady(Others, FALSE, TRUE))
  <2>1. Error \in Quiet(Others) /\ Others \in SUBSET Others
    BY PlainSteps, QuietMembers
  <2> QED BY <2>1, SteadyFacts
<1>2. ASSUME NEW kind \in {"hmac", "policy"}, NEW w \in Steady(Others, FALSE, TRUE), NEW how
      PROVE  Turn(w, Make("StartAuthSession", {}, kind, "local"), how) \in Begun
  <2> DEFINE T == Make("StartAuthSession", {}, kind, "local")
  <2>1. PICK t : t = T
    OBVIOUS
  <2>2. PICK v : v = Turn(w, t, how)
    OBVIOUS
  <2>3. /\ t \in StepSet /\ t.op = "command" /\ t.uses = {} /\ t.into = "local" /\ t.makes = kind
        /\ ~t.always /\ t.ignore = {}
    <3>1. kind \in Making /\ "local" \in Structures /\ {} \in SUBSET Structures
      BY DEF Making, Structures
    <3> QED BY <2>1, <3>1, MakeFields
  <2> HIDE DEF T
  <2>4. t \in Sending
    BY <2>3 DEF Sending, Making
  <2>5. /\ w \in World /\ w \in Sane(Others) /\ w.handle["session"] = None
        /\ w.slot[0].handle \notin SessionIds
    BY DEF Steady, Sane
  <2>6. w.slot[1].handle = None
    BY <1>0, <2>5 DEF Sane
  <2>7. w.handle \in [Structures -> Int] /\ "local" \in Structures /\ Others \subseteq Structures
        /\ "session" \in Structures
    BY <2>5 DEF World, Structures, Others
  <2>8. ASSUME ~w.ok PROVE v \in Begun
    <3>1. v = w
      BY <2>2, <2>3, <2>8 DEF Turn
    <3>2. w \in Sane(Others \ {"local"})
      BY <2>5 DEF Sane
    <3> QED BY <2>5, <2>8, <3>1, <3>2 DEF Begun
  <2>9. ASSUME w.ok PROVE v \in Begun
    <3>1. v = Do(w, t, how)
      BY <2>2, <2>9 DEF Turn
    <3>2. CASE Refuses(w, t, v)
      <4>1. v \in Sane(Others \ {"local"})
        BY <2>5, <3>2 DEF Refuses, Sane, Kept
      <4> QED BY <2>3, <2>5, <3>2, <4>1 DEF Refuses, Begun
    <3>3. ASSUME NEW sent \in SlotSets, Executes(w, t, sent, v)
          PROVE  v \in Begun
      <4>1. /\ v \in World /\ v.slot = w.slot /\ v.active = w.active
            /\ v.loaded = LoadedThen(w, t, sent)
        BY <3>3 DEF Executes
      <4>2. NewHandle(w, t) \in SessionIds
        BY <2>3, <3>3 DEF Executes, Making, Room
      <4>3. w.slot[0].handle \in SessionIds => v.loaded[w.slot[0].handle] # "hmac"
        BY <2>5
      <4>4. /\ v.handle["session"] = None
            /\ \A s \in Others \ {"local"} : v.handle[s] = w.handle[s]
            /\ v.ok => /\ v.handle["local"] = NewHandle(w, t)
                       /\ kind = "hmac" => v.kept = {"session"}
        <5>1. CASE Answers(w, t, sent, v)
          <6>1. v.handle = [w.handle EXCEPT !["local"] = NewHandle(w, t)]
            BY <2>3, <5>1 DEF Answers
          <6>2. kind = "hmac" => v.kept = {"session"}
            BY <2>3, <5>1 DEF Answers
          <6> QED BY <2>5, <2>7, <6>1, <6>2 DEF Others
        <5>2. CASE Loses(w, t, sent, v)
          BY <2>3, <2>5, <5>2 DEF Loses
        <5> QED BY <3>3, <5>1, <5>2 DEF Executes
      <4>5. v.loaded[NewHandle(w, t)] \in {kind, "none"}
        <5>1. Coming(w, t) = {NewHandle(w, t)} /\ Going(w, t) = {}
          BY <2>3 DEF Coming, Going, Making
        <5> QED BY <1>0, <2>3, <4>1, <4>2, <5>1 DEF LoadedThen
      <4>6. v.ok => LET h == v.handle["local"]
                    IN h \in SessionIds /\ (v.loaded[h] = "hmac" => "session" \in v.kept)
        BY <4>2, <4>4, <4>5
      <4>7. Kept(v)
        BY <1>0, <4>4 DEF Kept
      <4>8. v \in Sane(Others \ {"local"})
        BY <2>5, <2>6, <4>1, <4>3, <4>4, <4>7 DEF Sane
      <4> QED BY <2>5, <4>1, <4>4, <4>6, <4>8 DEF Begun
    <3> QED BY <2>3, <2>4, <2>5, <3>1, <3>2, <3>3, SendingFacts
  <2> QED BY <2>1, <2>2, <2>8, <2>9 DEF T
<1>3. ASSUME NEW w \in Begun, NEW how PROVE Turn(w, Error, how) \in Begun
  <2>1. PICK t : t = Error
    OBVIOUS
  <2>2. PICK v : v = Turn(w, t, how)
    OBVIOUS
  <2>3. t \in StepSet /\ t.op = "error" /\ t.ignore = {}
    BY <2>1, StepFields DEF Error
  <2>4. w \in World /\ (v = w \/ v = Do(w, t, how))
    BY <2>2 DEF Turn, Begun, Sane
  <2>5. CASE v = w
    BY <2>1, <2>2, <2>5
  <2>6. CASE v = Do(w, t, how)
    <3>1. Refuses(w, t, v)
      BY <2>3, <2>4, <2>6, FlagFacts
    <3>2. ~v.ok /\ v \in Sane(Others \ {"local"}) /\ v.handle = w.handle /\ v.slot = w.slot
      BY <2>3, <3>1 DEF Refuses, Begun, Sane, Kept
    <3>3. v \in Begun
      BY <3>2 DEF Begun
    <3> QED BY <2>1, <2>2, <3>3
  <2> QED BY <2>4, <2>5, <2>6
<1>4. ASSUME NEW w \in Begun, NEW how
      PROVE  Turn(w, Copy("local", "session"), how) \in Sane(Others \ {"local"})
  <2> DEFINE T == Copy("local", "session")
  <2>1. PICK t : t = T
    OBVIOUS
  <2>2. PICK v : v = Turn(w, t, how)
    OBVIOUS
  <2>3. /\ "local" \in Structures /\ "session" \in Structures /\ "session" # "none"
        /\ Others \subseteq Structures \ {"session"}
    BY DEF Structures, Others
  <2>4. t \in StepSet /\ t.op = "copy" /\ t.from = "local" /\ t.into = "session" /\ ~t.always
    BY <1>0, <2>1, <2>3, HandFields
  <2> HIDE DEF T
  <2>5. w \in World /\ w \in Sane(Others \ {"local"}) /\ w.handle["session"] = None
    BY DEF Begun, Sane
  <2>6. CASE ~w.ok
    <3>1. v = w
      BY <2>2, <2>4, <2>6 DEF Turn
    <3>2. w \in Sane(Others \ {"local"})
      BY <2>5
    <3> QED BY <2>1, <2>2, <3>1, <3>2 DEF T
  <2>7. CASE w.ok
    <3>1. v = Do(w, t, how)
      BY <2>2, <2>7 DEF Turn
    <3>2. t \in StepSet /\ t.op \in {"put", "copy"} /\ t.into # "none" /\ (t.op = "copy" => t.from \in Structures)
      BY <2>3, <2>4
    <3>3. /\ Alike(w, v, {"handle", "kept"})
          /\ t.op = "put" => v.handle = [w.handle EXCEPT ![t.into] = t.value]
          /\ t.op = "copy" => v.handle = [w.handle EXCEPT ![t.into] = w.handle[t.from]]
          /\ IF t.op = "put" /\ t.into = "session" THEN v.kept = {} /\ ~v.missed
             ELSE v.kept = w.kept /\ v.missed = w.missed
      BY ONLY <2>5, <3>1, <3>2, HandFacts
    <3>4. v.handle = [w.handle EXCEPT !["session"] = w.handle["local"]] /\ v.kept = w.kept
      BY <2>4, <3>3
    <3>5. w.handle \in [Structures -> Int]
      BY <2>5 DEF World
    <3>6. v.handle["session"] = w.handle["local"] /\ \A s \in Others : v.handle[s] = w.handle[s]
      BY <2>3, <3>4, <3>5
    <3>7. w.slot[1].handle = None
      BY <1>0, <2>5 DEF Sane
    <3>8. Kept(v) /\ v.handle["session"] \in SessionIds
      BY <1>0, <2>7, <3>3, <3>4, <3>6, <3>7 DEF Begun, Kept, Alike
    <3>9. v \in Sane(Others \ {"local"})
      BY <2>5, <3>3, <3>6, <3>7, <3>8 DEF Sane, Alike
    <3> QED BY <2>1, <2>2, <3>9 DEF T
  <2> QED BY <2>6, <2>7
<1> QED BY <1>1, <1>2, <1>3, <1>4 DEF Takes

\* The scripts of the session.
LEMMA SessionScripts ==
    /\ Leads(Steady(Others, TRUE, FALSE), wolfTPM2_Init, Steady(Others, TRUE, FALSE))
    /\ Leads(Steady(Others, TRUE, FALSE), wolfTPM2_Cleanup, Steady(Others, TRUE, FALSE))
    /\ \A a \in SUBSET Attributes :
         /\ Leads(Seatable, << wolfTPM2_SetAuthSession(1, a) >>, Sane(Others))
         /\ Leads(Spent, << wolfTPM2_SetAuthSession(0, a) >>, Sane(Others))
    /\ Leads(Seatable, wolfTPM2_ChangePlatformAuth(TRUE), Sane(Others))
    /\ Leads(Steady(Others, TRUE, FALSE), << wolfTPM2_UnloadHandle("session") >>, Sane(Others))
    /\ Leads(Seated1, wolfTPM2_UnsetAuthSession(1), Sane(Others))
<1> DEFINE I == Steady(Others, TRUE, FALSE)
<1>0. /\ I \in SUBSET World /\ Sane(Others) \in SUBSET World /\ Seatable \in SUBSET World
      /\ Spent \in SUBSET World /\ Seated1 \in SUBSET World /\ Unseating \in SUBSET World
      /\ Others \in SUBSET Others
  BY DEF Steady, Sane, Seatable, Spent, Seated1, Unseating
<1>1. /\ \A c : Run(c, {}) \in Bare /\ Ignoring(Run(c, {})) \in Bare
      /\ wolfTPM2_SetAuthPassword \in Bare /\ Step("active") \in Bare /\ GetNonce \in Bare
  <2>1. {} \in SUBSET Structures
    OBVIOUS
  <2> QED BY <2>1, PlainSteps
<1>2. ASSUME NEW script \in Seq(Bare), NEW idle \in BOOLEAN
      PROVE  /\ Leads(Steady(Others, idle, FALSE), script, Steady(Others, idle, FALSE))
             /\ script \in Seq(StepSet)
  <2>1. script \in Seq(Quiet(Others)) /\ script \in Seq(StepSet)
    <3>1. Bare \subseteq Quiet(Others) /\ Bare \subseteq StepSet
      BY QuietMembers DEF Bare
    <3> QED BY <3>1
  <2>2. FALSE \in BOOLEAN
    OBVIOUS
  <2> QED BY <1>0, <2>1, <2>2, QuietLeads
<1>3. << Step("reset") >> \in Seq(StepSet)
  BY StepFields
<1>4. Leads(I, << Step("reset") >>, I)
  BY <1>0, ResetTakes, LeadsOne
<1>5. Leads(I, wolfTPM2_Init, I)
  <2> DEFINE a == << Run("Startup", {}), wolfTPM2_SetAuthPassword, Step("active") >>
  <2>1. a \in Seq(Bare)
    BY <1>1
  <2>2. wolfTPM2_Init = << Step("reset") >> \o a
    BY DEF wolfTPM2_Init
  <2>3. Leads(I, a, I) /\ a \in Seq(StepSet)
    BY <1>2, <2>1
  <2> HIDE DEF I, a
  <2> QED BY <1>0, <1>3, <1>4, <2>2, <2>3, LeadsThen
<1>6. Leads(I, wolfTPM2_Cleanup, I)
  <2> DEFINE a == << Ignoring(Run("Shutdown", {})) >>
  <2>1. a \in Seq(Bare)
    BY <1>1
  <2>2. wolfTPM2_Cleanup = a \o << Step("reset") >>
    BY DEF wolfTPM2_Cleanup
  <2>3. Leads(I, a, I) /\ a \in Seq(StepSet)
    BY <1>2, <2>1
  <2> HIDE DEF I, a
  <2> QED BY <1>0, <1>3, <1>4, <2>2, <2>3, LeadsThen
<1>7. ASSUME NEW a \in SUBSET Attributes
      PROVE  /\ Leads(Seatable, << wolfTPM2_SetAuthSession(1, a) >>, Sane(Others))
             /\ Leads(Spent, << wolfTPM2_SetAuthSession(0, a) >>, Sane(Others))
  BY <1>0, SeatTakes, LeadsOne
<1>8. Leads(Seatable, wolfTPM2_ChangePlatformAuth(TRUE), Sane(Others))
  <2> DEFINE x == << wolfTPM2_SetAuthSession(1, {"decrypt", "encrypt", "continue"}) >>
             a == << GetNonce, Run("HierarchyChangeAuth", {}) >>
  <2>1. {"decrypt", "encrypt", "continue"} \in SUBSET Attributes
    BY DEF Attributes
  <2>2. Leads(Seatable, x, Sane(Others))
    BY <1>7, <2>1
  <2>3. 1 \in 0 .. 1
    OBVIOUS
  <2>4. x \in Seq(StepSet)
    BY <2>1, <2>3, SessionFields
  <2>5. a \in Seq(Bare)
    BY <1>1
  <2>6. wolfTPM2_ChangePlatformAuth(TRUE) = x \o a
    BY DEF wolfTPM2_ChangePlatformAuth
  <2>7. Sane(Others) = Steady(Others, FALSE, FALSE)
    BY DEF Steady
  <2>8. Leads(Sane(Others), a, Sane(Others)) /\ a \in Seq(StepSet)
    BY <1>2, <2>5, <2>7
  <2> HIDE DEF x, a
  <2> QED BY <1>0, <2>2, <2>4, <2>6, <2>8, LeadsThen
<1>9. Leads(I, << wolfTPM2_UnloadHandle("session") >>, Sane(Others))
  BY <1>0, UnloadSessionTakes, LeadsOne
<1>10. Leads(Seated1, wolfTPM2_UnsetAuthSession(1), Sane(Others))
  <2> DEFINE U == {w \in Unseating : w.ok}
             x == << [Step("save") EXCEPT !.index = 1] >>
             y == << wolfTPM2_SetAuth(1, None) >>
  <2>1. U \in SUBSET World
    BY <1>0
  <2>2. Leads(Seated1, x, U)
    BY <1>0, <2>1, UnseatTakes, LeadsOne
  <2>3. Leads(U, y, Sane(Others))
    BY <1>0, <2>1, UnseatTakes, LeadsOne
  <2>4. x \in Seq({[Step("save") EXCEPT !.index = 1], wolfTPM2_SetAuth(1, None)})
        /\ y \in Seq({[Step("save") EXCEPT !.index = 1], wolfTPM2_SetAuth(1, None)})
    OBVIOUS
  <2>5. wolfTPM2_UnsetAuthSession(1) = x \o y
    BY DEF wolfTPM2_UnsetAuthSession, wolfTPM2_UnsetAuth
  <2> HIDE DEF U, x, y
  <2> QED BY <1>0, <2>2, <2>3, <2>4, <2>5, LeadsThen
<1> QED BY <1>5, <1>6, <1>7, <1>8, <1>9, <1>10

\* A session is started only where the structure has none.
Unset == {w \in Sane(Others) : w.ok /\ w.handle["session"] = None}

LEMMA ClearTakes ==
    /\ Takes(Unset, Clear("session"), Unset)
    /\ \A h \in {None, Password} :
         Takes(Unset, wolfTPM2_SetAuth(0, h), Steady(Others, FALSE, TRUE))
<1>0. None \notin SessionIds /\ None \in Int /\ Password \notin SessionIds
  BY HandleFactsOfTpm DEF HandleIds, None
<1>1. ASSUME NEW w \in Unset, NEW how PROVE Turn(w, Clear("session"), how) \in Unset
  <2> DEFINE T == Clear("session")
  <2>1. PICK t : t = T
    OBVIOUS
  <2>2. PICK v : v = Turn(w, t, how)
    OBVIOUS
  <2>3. "session" \in Structures /\ "session" # "none" /\ Others \subseteq Structures \ {"session"}
    BY DEF Structures, Others
  <2>4. t \in StepSet /\ t.op = "put" /\ t.value = None /\ t.into = "session"
    BY <1>0, <2>1, <2>3, HandFields
  <2> HIDE DEF T
  <2>5. w \in World /\ w \in Sane(Others) /\ w.ok /\ w.handle["session"] = None
    BY DEF Unset, Sane
  <2>6. v = Do(w, t, how)
    BY <2>2, <2>5 DEF Turn
  <2>7. t \in StepSet /\ t.op \in {"put", "copy"} /\ t.into # "none" /\ (t.op = "copy" => t.from \in Structures)
    BY <2>3, <2>4
  <2>8. /\ Alike(w, v, {"handle", "kept"})
        /\ t.op = "put" => v.handle = [w.handle EXCEPT ![t.into] = t.value]
        /\ t.op = "copy" => v.handle = [w.handle EXCEPT ![t.into] = w.handle[t.from]]
        /\ IF t.op = "put" /\ t.into = "session" THEN v.kept = {} /\ ~v.missed
           ELSE v.kept = w.kept /\ v.missed = w.missed
    BY ONLY <2>5, <2>6, <2>7, HandFacts
  <2>9. v.handle = [w.handle EXCEPT !["session"] = None]
    BY <2>4, <2>8
  <2>10. w.handle \in [Structures -> Int]
    BY <2>5 DEF World
  <2>11. v.handle["session"] = None /\ \A s \in Others : v.handle[s] = w.handle[s]
    BY <2>3, <2>9, <2>10
  <2>12. w.slot[1].handle = None
    BY <1>0, <2>5 DEF Sane
  <2>13. Kept(v)
    BY <1>0, <2>11 DEF Kept
  <2>14. v \in Unset
    BY <2>5, <2>8, <2>11, <2>12, <2>13 DEF Sane, Alike, Unset
  <2> QED BY <2>1, <2>2, <2>14 DEF T
<1>2. ASSUME NEW h \in {None, Password}, NEW w \in Unset, NEW how
      PROVE  Turn(w, wolfTPM2_SetAuth(0, h), how) \in Steady(Others, FALSE, TRUE)
  <2> DEFINE T == wolfTPM2_SetAuth(0, h)
  <2>1. PICK t : t = T
    OBVIOUS
  <2>2. PICK v : v = Turn(w, t, how)
    OBVIOUS
  <2>3. t \in StepSet /\ t.op = "slot" /\ t.index = 0 /\ t.value = h
    <3>1. Step("slot") \in StepSet /\ Step("slot").op = "slot"
      BY StepFields
    <3>2. t = [Step("slot") EXCEPT !.index = 0, !.value = h]
      BY <2>1 DEF wolfTPM2_SetAuth
    <3>3. 0 \in 0 .. 1 /\ h \in Int
      BY DEF None, Password
    <3>4. t \in StepSet
      BY <3>1, <3>2, <3>3 DEF StepSet
    <3>5. t.op = "slot" /\ t.index = 0 /\ t.value = h
      BY <3>1, <3>2 DEF StepSet
    <3> QED BY <3>4, <3>5
  <2>4. w \in World /\ w \in Sane(Others) /\ w.ok /\ w.handle["session"] = None
    BY DEF Unset, Sane
  <2>5. v = Do(w, t, how)
    BY <2>2, <2>4 DEF Turn
  <2>6. t.op \in {"slot", "handle"} /\ t \in StepSet
    BY <2>3
  <2>7. /\ Alike(w, v, {"slot"})
        /\ \/ t.op = "handle" /\ v.slot = w.slot
           \/ LET k == IF t.op = "slot" THEN t.index ELSE 0
                  g == IF t.op = "slot" THEN t.value ELSE Password
              IN v.slot = [w.slot EXCEPT ![k] = [handle |-> g, attrs |-> {}]]
    BY ONLY <2>4, <2>5, <2>6, SlotFacts
  <2>8. v.slot = [w.slot EXCEPT ![0] = [handle |-> h, attrs |-> {}]]
    BY <2>3, <2>7
  <2>9. v.slot[0].handle = h /\ v.slot[1] = w.slot[1]
    BY <2>4, <2>8 DEF World
  <2>10. Kept(v)
    BY <2>4, <2>7, <2>9 DEF Sane, Kept, Alike
  <2>11. v \in Sane(Others)
    BY <1>0, <2>4, <2>7, <2>9, <2>10 DEF Sane, Alike
  <2>12. v \in Steady(Others, FALSE, TRUE)
    BY <1>0, <2>4, <2>7, <2>9, <2>11 DEF Steady, Alike
  <2> QED BY <2>1, <2>2, <2>12
<1> QED BY <1>1, <1>2 DEF Takes

LEMMA StartScripts ==
    /\ \A kind \in {"hmac", "policy"}, salted \in BOOLEAN, bound \in BOOLEAN :
         /\ Leads(Unset, wolfTPM2_StartSession(kind, salted, bound), Sane(Others \ {"local"}))
         /\ \E S : wolfTPM2_StartSession(kind, salted, bound) \in Seq(S)
    /\ Leads(Unset, wolfTPM2_CreateAuthSession_EkPolicy, Sane(Others \ {"local"}))
    /\ \E S : wolfTPM2_CreateAuthSession_EkPolicy \in Seq(S)
<1> DEFINE L == Sane(Others \ {"local"})
           U == Steady(Others, FALSE, TRUE)
           clear == Clear("session")
           nonce == [GetNonce EXCEPT !.ignore = {"refused"}]
           copy == Copy("local", "session")
<1>0. /\ Unset \in SUBSET World /\ U \in SUBSET World /\ Begun \in SUBSET World
      /\ L \in SUBSET World /\ Others \in SUBSET Others /\ Others \ {"local"} \in SUBSET Others
      /\ U \subseteq Sane(Others) /\ Sane(Others) \subseteq L
  BY DEF Steady, Sane, Unset, Begun
<1>1. GetNonce \in Bare /\ nonce \in Bare /\ Error \in Bare /\ Run("PolicySecret", {"session"}) \in Bare
  <2>1. {"session"} \in SUBSET Structures
    BY DEF Structures
  <2> QED BY <2>1, PlainSteps
<1>2. ASSUME NEW script \in Seq(Bare)
      PROVE  Leads(U, script, U) /\ Leads(L, script, L)
  <2>1. script \in Seq(Quiet(Others)) /\ script \in Seq(Quiet(Others \ {"local"}))
    <3>1. Bare \subseteq Quiet(Others) /\ Bare \subseteq Quiet(Others \ {"local"})
      BY DEF Bare, Quiet
    <3>2. ASSUME NEW A, NEW B, A \subseteq B, script \in Seq(A)
          PROVE  script \in Seq(B)
      BY <3>2
    <3>3. script \in Seq(Bare)
      OBVIOUS
    <3> QED BY ONLY <3>1, <3>2, <3>3
  <2>2. TRUE \in BOOLEAN /\ FALSE \in BOOLEAN /\ L = Steady(Others \ {"local"}, FALSE, FALSE)
    BY DEF Steady
  <2>3. Leads(U, script, U)
    BY <1>0, <2>1, <2>2, QuietLeads
  <2>4. Leads(Steady(Others \ {"local"}, FALSE, FALSE), script, Steady(Others \ {"local"}, FALSE, FALSE))
    BY ONLY <1>0, <2>1, <2>2, QuietLeads
  <2> QED BY <2>2, <2>3, <2>4
<1>3. Leads(U, << nonce >>, U) /\ Leads(U, << GetNonce, Error >>, U)
  <2>1. ASSUME NEW x \in Bare, NEW y \in Bare
        PROVE  << x >> \in Seq(Bare) /\ << x, y >> \in Seq(Bare)
    OBVIOUS
  <2>2. << nonce >> \in Seq(Bare) /\ << GetNonce, Error >> \in Seq(Bare)
    BY ONLY <1>1, <2>1
  <2> QED BY <1>2, <2>2
<1>4. \A kind \in {"hmac", "policy"} : Leads(U, << Make("StartAuthSession", {}, kind, "local") >>, Begun)
  BY <1>0, StartTakes, LeadsOne
<1>5. Leads(Begun, << Error >>, Begun) /\ Leads(Begun, << copy >>, L)
  BY <1>0, StartTakes, LeadsOne
<1>6. Takes(U, nonce, U)
  <2>1. nonce \in Quiet(Others) /\ TRUE \in BOOLEAN /\ FALSE \in BOOLEAN
    BY <1>1 DEF Bare, Quiet
  <2> HIDE DEF nonce
  <2> QED BY ONLY <1>0, <2>1, SteadyFacts DEF U
<1>7. /\ Takes(Unset, clear, Unset) /\ Takes(Unset, wolfTPM2_SetAuth(0, None), U)
       /\ Takes(Unset, wolfTPM2_SetAuthPassword, U)
  BY ClearTakes DEF wolfTPM2_SetAuthPassword
<1> HIDE DEF clear, nonce, copy, L, U
<1>8. ASSUME NEW kind \in {"hmac", "policy"}, NEW salted \in BOOLEAN, NEW bound \in BOOLEAN
      PROVE  /\ Leads(Unset, wolfTPM2_StartSession(kind, salted, bound), L)
             /\ \E S : wolfTPM2_StartSession(kind, salted, bound) \in Seq(S)
                       /\ Run("PolicySecret", {"session"}) \in S
  <2> DEFINE slt == IF salted THEN wolfTPM2_SetAuth(0, None) ELSE wolfTPM2_SetAuthPassword
             make == Make("StartAuthSession", {}, kind, "local")
             S == {clear, slt, nonce, GetNonce, Error, make, copy, Run("PolicySecret", {"session"})}
             front == << clear, slt, nonce >>
             end == IF bound THEN << Error >> ELSE << >>
  <2>1. wolfTPM2_StartSession(kind, salted, bound) =
          front \o IF salted THEN << GetNonce, Error >> ELSE << make >> \o end \o << copy >>
    BY DEF wolfTPM2_StartSession, clear, nonce, copy
  <2>2. /\ clear \in S /\ slt \in S /\ nonce \in S /\ GetNonce \in S /\ Error \in S
        /\ make \in S /\ copy \in S /\ Run("PolicySecret", {"session"}) \in S
    OBVIOUS
  <2>4. Leads(U, << make >>, Begun)
    BY <1>4
  <2> HIDE DEF slt, make, S
  <2>5. front \in Seq(S)
    BY <2>2
  <2>6. Takes(Unset, clear, Unset) /\ Takes(Unset, slt, U) /\ Takes(U, nonce, U)
    <3>1. CASE salted
      <4>1. slt = wolfTPM2_SetAuth(0, None)
        BY <3>1 DEF slt
      <4> QED BY ONLY <1>6, <1>7, <4>1
    <3>2. CASE ~salted
      <4>1. slt = wolfTPM2_SetAuthPassword
        BY <3>2 DEF slt
      <4> QED BY ONLY <1>6, <1>7, <4>1
    <3> QED BY <3>1, <3>2
  <2>7. Leads(Unset, front, U)
    BY <1>0, <2>6, LeadsThree
  <2> HIDE DEF front
  <2>8. CASE salted
    <3>1. << GetNonce, Error >> \in Seq(S)
      BY <2>2
    <3>2. Leads(Unset, front \o << GetNonce, Error >>, U)
      BY <1>0, <1>3, <2>5, <2>7, <3>1, LeadsThen
    <3>3. Leads(Unset, front \o << GetNonce, Error >>, L)
      <4>1. U \subseteq L /\ Unset \in SUBSET Unset
        BY <1>0
      <4> QED BY <3>2, <4>1, LeadsTo
    <3>4. front \o << GetNonce, Error >> \in Seq(S)
      BY <2>5, <3>1
    <3> QED BY <2>1, <2>2, <2>8, <3>3, <3>4
  <2>9. CASE ~salted
    <3>1. << make >> \in Seq(S) /\ << copy >> \in Seq(S) /\ end \in Seq(S) /\ << make >> \o end \in Seq(S)
      BY <2>2
    <3>2. Leads(U, << make >> \o end, Begun)
      <4>1. CASE bound
        <5>1. end = << Error >>
          BY <4>1
        <5> HIDE DEF end
        <5> QED BY <1>0, <1>5, <2>4, <3>1, <5>1, LeadsThen
      <4>2. CASE ~bound
        <5>1. << make >> \o end = << make >>
          BY <4>2
        <5> QED BY <2>4, <5>1
      <4> QED BY <4>1, <4>2
    <3> HIDE DEF end
    <3>3. Leads(U, (<< make >> \o end) \o << copy >>, L)
      BY <1>0, <1>5, <3>1, <3>2, LeadsThen
    <3> DEFINE tail == (<< make >> \o end) \o << copy >>
    <3>4. tail \in Seq(S)
      BY <3>1
    <3>5. Leads(U, tail, L)
      BY <3>3
    <3>6. wolfTPM2_StartSession(kind, salted, bound) = front \o tail
      BY <2>1, <2>9
    <3> HIDE DEF tail
    <3>7. Leads(Unset, front \o tail, L)
      BY <1>0, <2>5, <2>7, <3>4, <3>5, LeadsThen
    <3>8. front \o tail \in Seq(S)
      BY <2>5, <3>4
    <3> QED BY <2>2, <3>6, <3>7, <3>8
  <2> QED BY <2>8, <2>9
<1>9. /\ Leads(Unset, wolfTPM2_CreateAuthSession_EkPolicy, L)
       /\ \E S : wolfTPM2_CreateAuthSession_EkPolicy \in Seq(S)
  <2> DEFINE a == wolfTPM2_StartSession("policy", FALSE, FALSE)
             b == << Run("PolicySecret", {"session"}) >>
  <2>1. PICK S : a \in Seq(S) /\ Run("PolicySecret", {"session"}) \in S
    BY <1>8
  <2>2. Leads(Unset, a, L)
    BY <1>8
  <2>3. b \in Seq(S) /\ Leads(L, b, L)
    <3>1. ASSUME NEW x, NEW A, x \in A
          PROVE  << x >> \in Seq(A)
      BY <3>1
    <3>2. b \in Seq(S) /\ b \in Seq(Bare)
      BY ONLY <1>1, <2>1, <3>1
    <3> QED BY <1>2, <3>2
  <2>4. wolfTPM2_CreateAuthSession_EkPolicy = a \o b
    BY DEF wolfTPM2_CreateAuthSession_EkPolicy
  <2> HIDE DEF a, b
  <2>5. Leads(Unset, a \o b, L)
    BY <1>0, <2>1, <2>2, <2>3, LeadsThen
  <2>6. a \o b \in Seq(S)
    BY <2>1, <2>3
  <2> QED BY <2>4, <2>5, <2>6
<1> QED BY <1>8, <1>9 DEF L

\* The scripts that concern a session are sequences.
LEMMA SessionSequences ==
    /\ \E S : wolfTPM2_Init \in Seq(S)
    /\ \E S : wolfTPM2_Cleanup \in Seq(S)
    /\ \E S : wolfTPM2_ChangePlatformAuth(TRUE) \in Seq(S)
    /\ \E S : << wolfTPM2_UnloadHandle("session") >> \in Seq(S)
    /\ \E S : wolfTPM2_UnsetAuthSession(1) \in Seq(S)
    /\ \A j, a : \E S : << wolfTPM2_SetAuthSession(j, a) >> \in Seq(S)
<1>1. ASSUME NEW x, NEW y, NEW z, NEW u
      PROVE  /\ << x >> \in Seq({x}) /\ << x, y >> \in Seq({x, y})
             /\ << x >> \o << y >> \in Seq({x, y}) /\ << x >> \o << y, z >> \in Seq({x, y, z})
             /\ << x, y, z, u >> \in Seq({x, y, z, u})
  <2>1. << x >> \in Seq({x}) /\ << x, y >> \in Seq({x, y}) /\ << x, y, z, u >> \in Seq({x, y, z, u})
    OBVIOUS
  <2>2. << x >> \o << y >> \in Seq({x, y})
    <3>1. << x >> \in Seq({x, y}) /\ << y >> \in Seq({x, y})
      OBVIOUS
    <3> QED BY ONLY <3>1, ConcatProperties
  <2>3. << x >> \o << y, z >> \in Seq({x, y, z})
    <3>1. << x >> \in Seq({x, y, z}) /\ << y, z >> \in Seq({x, y, z})
      OBVIOUS
    <3> QED BY ONLY <3>1, ConcatProperties
  <2> QED BY <2>1, <2>2, <2>3
<1>2. \A x : \E S : << x >> \in Seq(S)
  BY <1>1
<1>3. \A x, y : \E S : << x, y >> \in Seq(S)
  BY <1>1
<1>4. \A x, y : \E S : << x >> \o << y >> \in Seq(S)
  BY <1>1
<1>5. \A x, y, z : \E S : << x >> \o << y, z >> \in Seq(S)
  BY <1>1
<1>6. \A x, y, z, u : \E S : << x, y, z, u >> \in Seq(S)
  BY <1>1
<1>7. \E S : wolfTPM2_Init \in Seq(S)
  BY ONLY <1>6 DEF wolfTPM2_Init
<1>8. \E S : wolfTPM2_Cleanup \in Seq(S)
  BY ONLY <1>3 DEF wolfTPM2_Cleanup
<1>9. \E S : wolfTPM2_ChangePlatformAuth(TRUE) \in Seq(S)
  BY ONLY <1>5 DEF wolfTPM2_ChangePlatformAuth
<1>10. \E S : wolfTPM2_UnsetAuthSession(1) \in Seq(S)
  BY ONLY <1>4 DEF wolfTPM2_UnsetAuthSession, wolfTPM2_UnsetAuth
<1> QED BY <1>2, <1>7, <1>8, <1>9, <1>10

-----------------------------------------------------------------------------
(* The nonces of sessions: the invariant, and why every call keeps it.     *)

\* Between two calls nothing is in a wrapper's own structure, and what the scripts go
\* through and come back to holds of the variables.
WrapperInv == Before \in Sane(Others) /\ handle["local"] = None

\* A call whose script leads to where the wrapper's own structure may hold a session.
LEMMA CallKeeps ==
    ASSUME NEW P, NEW script, NEW outs, \E S : script \in Seq(S),
           Before \in P, Leads(P, script, Sane(Others \ {"local"})),
           CallWrapper(script, outs)
    PROVE  WrapperInv'
<1>1. PICK w : /\ w = Done(script, outs)
               /\ handle' = [w.handle EXCEPT !["local"] = None]
               /\ hmacKeyLoaded' = w.hmacKeyLoaded /\ slot' = w.slot /\ loaded' = w.loaded
               /\ kept' = w.kept /\ missed' = w.missed /\ active' = w.active
  BY DEF CallWrapper
<1>2. w \in Sane(Others \ {"local"})
  BY <1>1, DoneLeads
<1>3. w \in World
  BY <1>2 DEF Sane
<1> DEFINE b == Before'
<1>4. /\ b.handle = handle' /\ b.slot = slot' /\ b.loaded = loaded' /\ b.kept = kept'
      /\ b.missed = missed' /\ b.active = active'
  BY DEF Before
<1>5. "local" \in Structures /\ "session" \in Structures /\ "session" # "local" /\ None \in Int
  BY DEF Structures, None
<1>6. handle' \in [Structures -> Int] /\ handle'["local"] = None
      /\ \A s \in Structures \ {"local"} : handle'[s] = w.handle[s]
  BY <1>1, <1>3, <1>5 DEF World
<1>7. b \in World
  BY <1>1, <1>3, <1>6 DEF World, Before
<1> HIDE DEF b
<1>8. b.handle["session"] = w.handle["session"] /\ b.slot = w.slot /\ b.loaded = w.loaded
      /\ b.kept = w.kept /\ b.missed = w.missed /\ b.active = w.active
  BY <1>1, <1>4, <1>5, <1>6
<1>9. \A s \in Others : b.handle[s] \notin SessionIds
  <2>1. None \notin SessionIds
    BY HandleFactsOfTpm DEF HandleIds
  <2> QED BY <1>2, <1>4, <1>6, <2>1 DEF Others, Sane
<1>10. Kept(b)
  BY <1>2, <1>8 DEF Kept, Sane
<1>11. b \in Sane(Others)
  BY <1>2, <1>7, <1>8, <1>9, <1>10 DEF Sane
<1> QED BY <1>6, <1>11 DEF WrapperInv, b

LEMMA CallsFacts ==
    ASSUME NEW scripts, Perform(Calls(scripts))
    PROVE  \E script \in scripts : \E outs : CallWrapper(script, outs)
BY DEF Perform, Calls

LEMMA QuietKeeps ==
    ASSUME WrapperInv, NEW scripts, scripts \subseteq Seq(Quiet(Others)),
           Perform(Calls(scripts))
    PROVE  WrapperInv'
<1>1. PICK script \in scripts : \E outs : CallWrapper(script, outs)
  BY CallsFacts
<1>2. script \in Seq(Quiet(Others)) /\ Others \in SUBSET Others /\ FALSE \in BOOLEAN
  OBVIOUS
<1>3. Leads(Steady(Others, FALSE, FALSE), script, Steady(Others, FALSE, FALSE))
  BY <1>2, QuietLeads
<1>4. Steady(Others, FALSE, FALSE) = Sane(Others)
  BY DEF Steady
<1>5. Leads(Sane(Others), script, Sane(Others))
  BY <1>3, <1>4
<1>6. Sane(Others) \subseteq Sane(Others \ {"local"}) /\ Sane(Others) \in SUBSET Sane(Others)
  BY DEF Sane
<1>7. Leads(Sane(Others), script, Sane(Others \ {"local"}))
  BY <1>5, <1>6, LeadsTo
<1> QED BY <1>1, <1>2, <1>7, CallKeeps DEF WrapperInv

LEMMA LeadsKeep ==
    ASSUME NEW P \in SUBSET World, Before \in P, NEW scripts, Perform(Calls(scripts)),
           \A script \in scripts : /\ Leads(P, script, Sane(Others \ {"local"}))
                                   /\ \E S : script \in Seq(S)
    PROVE  WrapperInv'
BY CallsFacts, CallKeeps

LEMMA SaneWide == Sane(Others) \subseteq Sane(Others \ {"local"})
BY DEF Sane

LEMMA LeadsWide ==
    ASSUME NEW P, NEW script, Leads(P, script, Sane(Others))
    PROVE  Leads(P, script, Sane(Others \ {"local"}))
<1>1. P \in SUBSET P
  OBVIOUS
<1> QED BY <1>1, SaneWide, LeadsTo

LEMMA PlainIsQuiet == Seq(Bare) \subseteq Seq(Quiet(Others))
<1>1. Bare \subseteq Quiet(Others)
  BY QuietMembers
<1> HIDE DEF Bare, Quiet
<1>2. ASSUME NEW A, NEW B, A \subseteq B
      PROVE  Seq(A) \subseteq Seq(B)
  BY <1>2
<1> QED BY <1>1, <1>2

LEMMA DeviceKeeps ==
    ASSUME WrapperInv, UseDevice
    PROVE  WrapperInv'
<1> DEFINE P == Steady(Others, TRUE, FALSE)
<1>1. P \in SUBSET World /\ P \subseteq Sane(Others)
  BY DEF Steady, Sane
<1>2. Leads(P, wolfTPM2_Init, Sane(Others \ {"local"}))
      /\ Leads(P, wolfTPM2_Cleanup, Sane(Others \ {"local"}))
  <2>1. P \in SUBSET P /\ P \subseteq Sane(Others \ {"local"})
    BY <1>1, SaneWide
  <2> QED BY <2>1, SessionScripts, LeadsTo
<1>3. Before.slot = slot /\ Before.active = active
  BY DEF Before
<1>4. slot[1].handle = None => Before \in P
  BY <1>3 DEF WrapperInv, Steady
<1>5. ~active => slot[1].handle = None
  BY <1>3 DEF WrapperInv, Sane
<1> HIDE DEF P
<1>6. CASE ~active /\ Perform(Starting)
  <2>1. Before \in P
    BY <1>4, <1>5, <1>6
  <2> DEFINE A == {wolfTPM2_Init}
  <2>2. Perform(Calls(A))
    BY <1>6 DEF Starting
  <2>3. \A script \in A : Leads(P, script, Sane(Others \ {"local"})) /\ \E S : script \in Seq(S)
    BY <1>2, SessionSequences
  <2> HIDE DEF A
  <2> QED BY <1>1, <2>1, <2>2, <2>3, LeadsKeep
<1>7. CASE active /\ slot[1].handle = None /\ Perform(Stopping)
  <2>1. Before \in P
    BY <1>4, <1>7
  <2> DEFINE A == {wolfTPM2_Init, wolfTPM2_Cleanup}
  <2>2. Perform(Calls(A))
    BY <1>7 DEF Stopping
  <2>3. \A script \in A : Leads(P, script, Sane(Others \ {"local"})) /\ \E S : script \in Seq(S)
    BY <1>2, SessionSequences
  <2> HIDE DEF A
  <2> QED BY <1>1, <2>1, <2>2, <2>3, LeadsKeep
<1>8. CASE active /\ Perform(Anytime)
  <2> DEFINE A == {wolfTPM2_SelfTest, wolfTPM2_GetCapabilities, wolfTPM2_Clear, wolfTPM2_ResetPCR,
                   wolfTPM2_ReadPCR, wolfTPM2_ExtendPCR, wolfTPM2_Shutdown, wolfTPM2_UnsetAuth(0),
                   wolfTPM2_UnloadHandles_AllTransient, wolfTPM2_ChangePlatformAuth(FALSE),
                   wolfTPM2_NVReadPublic, wolfTPM2_NVCreate, wolfTPM2_NVDelete}
             B == UNION {{wolfTPM2_GetRandom(n), wolfTPM2_NVWrite(n), wolfTPM2_NVRead(n)} :
                          n \in Rounds}
             C == UNION {{wolfTPM2_NVWriteAuth(k, n), wolfTPM2_NVReadAuth(k, n)} :
                           k \in BOOLEAN, n \in Rounds}
             D == UNION {{wolfTPM2_NVIncrement(k), wolfTPM2_NVWriteLock(k)} : k \in BOOLEAN}
  <2>1. Perform(Calls(A \union B \union C \union D))
    <3>1. Anytime = Calls(A \union B \union C \union D)
      BY DEF Anytime
    <3> QED BY <1>8, <3>1
  <2>2. A \subseteq Seq(Quiet(Others))
    BY PlainScripts, PlainIsQuiet, QuietScripts
  <2>3. B \subseteq Seq(Quiet(Others))
    <3>1. \A n \in Rounds : {wolfTPM2_GetRandom(n), wolfTPM2_NVWrite(n), wolfTPM2_NVRead(n)}
                              \subseteq Seq(Bare)
      BY PlainPieces
    <3> QED BY <3>1, PlainIsQuiet
  <2>4. C \subseteq Seq(Quiet(Others))
    <3>1. \A k \in BOOLEAN, n \in Rounds :
            {wolfTPM2_NVWriteAuth(k, n), wolfTPM2_NVReadAuth(k, n)} \subseteq Seq(Bare)
      BY PlainPieces
    <3> QED BY <3>1, PlainIsQuiet
  <2>5. D \subseteq Seq(Quiet(Others))
    <3>1. \A k \in BOOLEAN : {wolfTPM2_NVIncrement(k), wolfTPM2_NVWriteLock(k)} \subseteq Seq(Bare)
      BY LockScripts
    <3> QED BY <3>1, PlainIsQuiet
  <2> HIDE DEF A, B, C, D
  <2>6. A \union B \union C \union D \subseteq Seq(Quiet(Others))
    BY <2>2, <2>3, <2>4, <2>5
  <2> QED BY <2>1, <2>6, QuietKeeps
<1> QED BY <1>6, <1>7, <1>8 DEF UseDevice

LEMMA KeyKeeps ==
    ASSUME WrapperInv, UseKey
    PROVE  WrapperInv'
<1>1. CASE Perform(WithKey)
  <2> DEFINE A == {wolfTPM2_GetTime, wolfTPM2_ChangeAuthKey, wolfTPM2_NVStoreKey, wolfTPM2_SignHash,
                   wolfTPM2_VerifyHash, wolfTPM2_ECDHGen, wolfTPM2_ECDHGenZ, wolfTPM2_RsaEncrypt,
                   wolfTPM2_RsaDecrypt, << wolfTPM2_UnloadHandle("key") >>}
             B == {wolfTPM2_EncryptDecrypt(n) : n \in Rounds}
  <2>1. Perform(Calls(A \union B))
    BY <1>1 DEF WithKey
  <2>2. A \subseteq Seq(Quiet(Others))
    BY PlainScripts, PlainIsQuiet, QuietScripts
  <2>3. B \subseteq Seq(Quiet(Others))
    <3>1. \A n \in Rounds : wolfTPM2_EncryptDecrypt(n) \in Seq(Bare)
      BY PlainPieces
    <3> QED BY <3>1, PlainIsQuiet
  <2> HIDE DEF A, B
  <2>4. A \union B \subseteq Seq(Quiet(Others))
    BY <2>2, <2>3
  <2> QED BY <2>1, <2>4, QuietKeeps
<1>2. CASE Perform(IntoKey)
  <2> DEFINE A == {wolfTPM2_CreateEK, wolfTPM2_CreateSRK, wolfTPM2_ECDHGenKey,
           wolfTPM2_CreateAndLoadAIK, wolfTPM2_LoadRsaPublicKey, wolfTPM2_LoadEccPublicKey,
           wolfTPM2_LoadPrivateKey, wolfTPM2_LoadRsaPrivateKey, wolfTPM2_LoadEccPrivateKey,
           wolfTPM2_LoadSymmetricKey, wolfTPM2_CreateLoadedKey("key"),
           wolfTPM2_ReadPublicKey, wolfTPM2_ECDHEGenKey, wolfTPM2_CreateKeySeal("key"),
           wolfTPM2_CreateKey("key") \o wolfTPM2_LoadKey("key")}
  <2>1. Perform(Calls(A))
    BY <1>2 DEF IntoKey
  <2>2. A \subseteq Seq(Quiet(Others))
    BY PlainScripts, PlainIsQuiet, QuietScripts
  <2> HIDE DEF A
  <2> QED BY <2>1, <2>2, QuietKeeps
<1>3. CASE Perform(Deleting)
  <2>1. {wolfTPM2_NVDeleteKey} \subseteq Seq(Quiet(Others)) /\ Perform(Calls({wolfTPM2_NVDeleteKey}))
    BY <1>3, QuietScripts DEF Deleting
  <2> QED BY <2>1, QuietKeeps
<1>4. CASE Perform(Agreeing)
  <2>1. {wolfTPM2_ECDHEGenZ} \subseteq Seq(Quiet(Others)) /\ Perform(Calls({wolfTPM2_ECDHEGenZ}))
    BY <1>4, QuietScripts DEF Agreeing
  <2> QED BY <2>1, QuietKeeps
<1> QED BY <1>1, <1>2, <1>3, <1>4 DEF UseKey

LEMMA HashKeeps ==
    ASSUME WrapperInv, UseHash
    PROVE  WrapperInv'
<1>1. CASE Perform(IntoHash)
  <2> DEFINE A == {wolfTPM2_HashStart, wolfTPM2_HmacStart(FALSE)}
  <2>1. A \subseteq Seq(Quiet(Others)) /\ Perform(Calls(A))
    BY <1>1, QuietScripts DEF IntoHash
  <2> QED BY <2>1, QuietKeeps
<1>2. CASE Perform(IntoHashAgain)
  <2> DEFINE A == {wolfTPM2_HashStart, wolfTPM2_HmacStart(TRUE)}
  <2>1. A \subseteq Seq(Quiet(Others)) /\ Perform(Calls(A))
    BY <1>2, QuietScripts DEF IntoHashAgain
  <2> QED BY <2>1, QuietKeeps
<1>3. CASE Perform(WithHash)
  <2> DEFINE A == {wolfTPM2_HashFinish}
             B == {wolfTPM2_HmacFinish(keep) : keep \in BOOLEAN}
             C == {wolfTPM2_HmacUpdate(n) : n \in Rounds}
  <2>1. Perform(Calls(A \union B \union C))
    BY <1>3 DEF WithHash
  <2>2. A \subseteq Seq(Quiet(Others))
    BY QuietScripts
  <2>3. B \subseteq Seq(Quiet(Others))
    <3>1. \A keep \in BOOLEAN : keep = TRUE \/ keep = FALSE
      OBVIOUS
    <3> QED BY <3>1, QuietScripts
  <2>4. C \subseteq Seq(Quiet(Others))
    <3>1. \A n \in Rounds : wolfTPM2_HmacUpdate(n) \in Seq(Bare)
      BY PlainPieces
    <3> QED BY <3>1, PlainIsQuiet
  <2> HIDE DEF A, B, C
  <2>5. A \union B \union C \subseteq Seq(Quiet(Others))
    BY <2>2, <2>3, <2>4
  <2> QED BY <2>1, <2>5, QuietKeeps
<1> QED BY <1>1, <1>2, <1>3 DEF UseHash

LEMMA SessionKeeps ==
    ASSUME WrapperInv, UseSession
    PROVE  WrapperInv'
<1> DEFINE h == handle["session"]
           L == Sane(Others \ {"local"})
<1>0. /\ Before.slot = slot /\ Before.active = active /\ Before.ok /\ Before.handle = handle
      /\ Before.loaded = loaded /\ active
  BY DEF Before, UseSession
<1>1. Before \in Sane(Others) /\ h \in {None} \union SessionIds
  BY <1>0 DEF WrapperInv, Sane
<1>2. Unset \in SUBSET World /\ Seatable \in SUBSET World /\ Spent \in SUBSET World
      /\ Seated1 \in SUBSET World
  BY DEF Unset, Seatable, Spent, Seated1, Steady, Sane
<1>3. CASE h = None /\ Perform(IntoSession)
  <2> DEFINE A == {wolfTPM2_StartSession(kind, salted, bound) :
                     kind \in {"hmac", "policy"}, salted \in BOOLEAN, bound \in BOOLEAN}
             B == {wolfTPM2_CreateAuthSession_EkPolicy}
  <2>1. Perform(Calls(A \union B))
    BY <1>3 DEF IntoSession
  <2>2. Before \in Unset
    BY <1>0, <1>1, <1>3 DEF Unset
  <2>3. \A script \in A : Leads(Unset, script, L) /\ \E S : script \in Seq(S)
    <3> HIDE DEF A
    <3> SUFFICES ASSUME NEW script \in A
                 PROVE  Leads(Unset, script, L) /\ \E S : script \in Seq(S)
      OBVIOUS
    <3>1. PICK kind \in {"hmac", "policy"}, salted \in BOOLEAN, bound \in BOOLEAN :
                 script = wolfTPM2_StartSession(kind, salted, bound)
      BY DEF A
    <3> QED BY <3>1, StartScripts
  <2>4. \A script \in B : Leads(Unset, script, L) /\ \E S : script \in Seq(S)
    BY StartScripts
  <2> HIDE DEF A, B
  <2>5. \A script \in A \union B : Leads(Unset, script, L) /\ \E S : script \in Seq(S)
    BY <2>3, <2>4
  <2> QED BY <1>2, <2>1, <2>2, <2>5, LeadsKeep
<1>4. CASE Perform(WithSession)
  <2> DEFINE A == {wolfTPM2_PolicyRestart, wolfTPM2_GetPolicyDigest, wolfTPM2_PolicyPCR}
  <2>1. A \subseteq Seq(Quiet(Others)) /\ Perform(Calls(A))
    BY <1>4, PlainScripts, PlainIsQuiet DEF WithSession
  <2> QED BY <2>1, QuietKeeps
<1>5. CASE h # None /\ slot[1].handle = None /\ loaded[h] = "hmac" /\ Perform(Seat)
  <2> DEFINE A == {<< wolfTPM2_SetAuthSession(1, attrs) >> :
                     attrs \in {{"continue", "audit"}, {"continue", "encrypt"}}}
             B == {wolfTPM2_ChangePlatformAuth(TRUE), << wolfTPM2_UnloadHandle("session") >>}
  <2>1. Perform(Calls(A \union B))
    BY <1>5 DEF Seat
  <2>2. Before \in Seatable
    BY <1>0, <1>1, <1>5 DEF Seatable, Steady
  <2>3. \A script \in A : Leads(Seatable, script, L) /\ \E S : script \in Seq(S)
    <3>1. {{"continue", "audit"}, {"continue", "encrypt"}} \subseteq SUBSET Attributes
      BY DEF Attributes
    <3> SUFFICES ASSUME NEW script \in A
                 PROVE  Leads(Seatable, script, L) /\ \E S : script \in Seq(S)
      OBVIOUS
    <3>2. PICK attrs \in {{"continue", "audit"}, {"continue", "encrypt"}} :
                 script = << wolfTPM2_SetAuthSession(1, attrs) >>
      OBVIOUS
    <3>3. Leads(Seatable, << wolfTPM2_SetAuthSession(1, attrs) >>, Sane(Others))
      BY <3>1, SessionScripts
    <3>4. \E S : << wolfTPM2_SetAuthSession(1, attrs) >> \in Seq(S)
      BY SessionSequences
    <3> HIDE DEF A
    <3> QED BY <3>2, <3>3, <3>4, LeadsWide
  <2>4. \A script \in B : Leads(Seatable, script, L) /\ \E S : script \in Seq(S)
    <3>1. Seatable \in SUBSET Steady(Others, TRUE, FALSE) /\ Sane(Others) \subseteq L
      BY SaneWide DEF Seatable
    <3>2. Leads(Seatable, << wolfTPM2_UnloadHandle("session") >>, L)
      BY <3>1, SessionScripts, LeadsTo
    <3> QED BY <3>2, SessionScripts, SessionSequences, LeadsWide
  <2> HIDE DEF A, B
  <2>5. \A script \in A \union B : Leads(Seatable, script, L) /\ \E S : script \in Seq(S)
    BY <2>3, <2>4
  <2> QED BY <1>2, <2>1, <2>2, <2>5, LeadsKeep
<1>6. CASE h # None /\ loaded[h] # "hmac" /\ Perform(SeatPolicy)
  <2> DEFINE A == {<< wolfTPM2_SetAuthSession(0, {}) >>, << wolfTPM2_UnloadHandle("session") >>}
  <2>1. Perform(Calls(A))
    BY <1>6 DEF SeatPolicy
  <2>2. Before \in Spent
    BY <1>0, <1>1, <1>6 DEF Spent
  <2>3. \A script \in A : Leads(Spent, script, L) /\ \E S : script \in Seq(S)
    <3>1. Leads(Spent, << wolfTPM2_SetAuthSession(0, {}) >>, L)
      BY SessionScripts, LeadsWide
    <3>2. Spent \in SUBSET Steady(Others, TRUE, FALSE) /\ Sane(Others) \subseteq L
      BY SaneWide DEF Spent, Steady, Sane
    <3>3. Leads(Spent, << wolfTPM2_UnloadHandle("session") >>, L)
      BY <3>2, SessionScripts, LeadsTo
    <3>4. /\ \E S : << wolfTPM2_SetAuthSession(0, {}) >> \in Seq(S)
          /\ \E S : << wolfTPM2_UnloadHandle("session") >> \in Seq(S)
      BY SessionSequences
    <3> QED BY ONLY <3>1, <3>3, <3>4
  <2> HIDE DEF A
  <2> QED BY <1>2, <2>1, <2>2, <2>3, LeadsKeep
<1>7. CASE slot[1].handle # None /\ Perform(Unseat)
  <2> DEFINE A == {wolfTPM2_UnsetAuthSession(1)}
  <2>1. Perform(Calls(A))
    BY <1>7 DEF Unseat
  <2>2. Before \in Seated1
    BY <1>0, <1>1, <1>7 DEF Seated1
  <2>3. \A script \in A : Leads(Seated1, script, L) /\ \E S : script \in Seq(S)
    BY SessionScripts, SessionSequences, LeadsWide
  <2> HIDE DEF A
  <2> QED BY <1>2, <2>1, <2>2, <2>3, LeadsKeep
<1> QED BY <1>3, <1>4, <1>5, <1>6, <1>7 DEF UseSession

\* Between the calls the wrappers' state is sane.
LEMMA WrapperInvariance == WrapperSpec => []WrapperInv
<1>1. WrapperInit => WrapperInv
  <2> SUFFICES ASSUME WrapperInit PROVE WrapperInv
    OBVIOUS
  <2>1. "local" \in Structures /\ "session" \in Structures /\ None \in Int /\ None \notin SessionIds
    BY HandleFactsOfTpm DEF Structures, None, HandleIds
  <2>2. handle["session"] = None /\ handle["local"] = None
        /\ \A s \in Structures : handle[s] \notin SessionIds
    BY <2>1 DEF WrapperInit
  <2>3. handle \in [Structures -> Int]
    BY <2>1 DEF WrapperInit
  <2>4. slot \in [0 .. 1 -> [handle : Int, attrs : SUBSET Attributes]]
        /\ slot[0].handle = None /\ slot[1].handle = None
    BY <2>1 DEF WrapperInit
  <2>5. loaded \in [HandleIds -> Loads]
    BY DEF WrapperInit, HandleIds, Loads
  <2> DEFINE b == Before
  <2>6. b \in World
    BY <2>3, <2>4, <2>5 DEF Before, World, WrapperInit
  <2>7. b.handle = handle /\ b.slot = slot /\ b.active = active
    BY DEF Before
  <2> HIDE DEF b
  <2>8. Kept(b)
    BY <2>1, <2>2, <2>7 DEF Kept
  <2>9. b \in Sane(Others)
    BY <2>1, <2>2, <2>4, <2>6, <2>7, <2>8 DEF Sane, Others
  <2> QED BY <2>2, <2>9 DEF WrapperInv, b
<1>2. WrapperInv /\ [WrapperNext]_wrapperVars => WrapperInv'
  <2> SUFFICES ASSUME WrapperInv, [WrapperNext]_wrapperVars PROVE WrapperInv'
    OBVIOUS
  <2>1. CASE UNCHANGED wrapperVars
    BY <2>1 DEF WrapperInv, Before, wrapperVars
  <2> QED BY <2>1, DeviceKeeps, KeyKeeps, HashKeeps, SessionKeeps DEF WrapperNext
<1> QED BY <1>1, <1>2, PTL DEF WrapperSpec

\* The nonce of an HMAC session is where its next use takes it from, whatever is called and
\* whatever fails (tpm2_wrap.c:778).
THEOREM SessionNonceKept == WrapperSpec => []NonceKept
<1>1. WrapperInv => NonceKept
  <2> SUFFICES ASSUME WrapperInv PROVE NonceKept
    OBVIOUS
  <2>1. Kept(Before)
    BY DEF WrapperInv, Sane
  <2>2. Before.handle = handle /\ Before.slot = slot /\ Before.loaded = loaded
        /\ Before.kept = kept /\ Before.missed = missed
    BY DEF Before
  <2> QED BY <2>1, <2>2 DEF Kept, NonceKept
<1> QED BY <1>1, WrapperInvariance, PTL

-----------------------------------------------------------------------------
(* The room of the TPM: what a call may leave behind.                      *)

Limited == Objects \union SessionIds

\* The structures that are a caller's.
Own == Structures \ {"local"}

\* What the TPM has that no structure of S names, and that was not lost before the call.
Astray(w, S) ==
    {h \in Limited : w.loaded[h] # "none" /\ \A s \in S : w.handle[s] # h} \ Unnamed

\* No more than failed steps account for; the key of an HMAC counts when its flag is set.
Owed(S) == {w \in World : Cardinality(Astray(w, S)) <= w.failed}
Debt(S) == {w \in Owed(S) : "hmacKey" \in S => w.hmacKeyLoaded}

\* What a structure of X has come to name in this call is in K, and the TPM has it.
Held(w, X, K) ==
    \A s \in X : \/ w.handle[s] = handle[s] \/ w.handle[s] \notin Limited
                 \/ w.handle[s] \in K /\ w.loaded[w.handle[s]] # "none"

Books(S, X) == {w \in Debt(S) : Held(w, X, {})}

\* After a call.
Settled ==
    {w \in World : Held(w, Own, Limited) /\ \E S \in SUBSET Own : w \in Debt(S)}

\* The account is right after a step that strands nothing, or one thing and fails.
LEMMA AstrayCounts ==
    ASSUME NEW w \in World, NEW v \in World, NEW S, NEW T, w \in Owed(S),
           \/ Astray(v, T) \subseteq Astray(w, S) /\ w.failed <= v.failed
           \/ \E x : Astray(v, T) \subseteq Astray(w, S) \union {x} /\ v.failed = w.failed + 1
    PROVE  v \in Owed(T)
<1>1. IsFiniteSet(Limited)
  <2>1. IsFiniteSet(Objects)
    BY WrapAssumption, FS_Interval DEF Objects
  <2> QED BY <2>1, WrapAssumption, FS_Union DEF Limited
<1> DEFINE A == Astray(w, S)
           B == Astray(v, T)
<1>2. A \subseteq Limited /\ B \subseteq Limited
  BY DEF Astray
<1>3. w.failed \in Nat /\ v.failed \in Nat /\ Cardinality(A) <= w.failed
  BY DEF World, Owed
<1> HIDE DEF A, B
<1>4. IsFiniteSet(A) /\ IsFiniteSet(B)
  BY <1>1, <1>2, FS_Subset
<1>5. Cardinality(A) \in Nat /\ Cardinality(B) \in Nat
  BY <1>4, FS_CardinalityType
<1>6. CASE B \subseteq A /\ w.failed <= v.failed
  <2>1. Cardinality(B) <= Cardinality(A)
    BY <1>4, <1>6, FS_Subset
  <2>2. Cardinality(B) <= v.failed
    BY <1>3, <1>5, <1>6, <2>1
  <2> QED BY <2>2 DEF Owed, B
<1>7. ASSUME NEW x, B \subseteq A \union {x}, v.failed = w.failed + 1
      PROVE  v \in Owed(T)
  <2>1. IsFiniteSet(A \union {x})
        /\ Cardinality(A \union {x}) = IF x \in A THEN Cardinality(A) ELSE Cardinality(A) + 1
    BY <1>4, FS_AddElement
  <2>2. Cardinality(B) <= Cardinality(A \union {x})
    BY <1>7, <2>1, FS_Subset
  <2>3. Cardinality(B) <= v.failed
    BY <1>3, <1>5, <1>7, <2>1, <2>2
  <2> QED BY <2>3 DEF Owed, B
<1> QED BY <1>6, <1>7 DEF A, B

\* A command that makes nothing for the caller's structures.
LEMMA SentFacts ==
    ASSUME NEW w \in World, NEW t \in Sending, t.makes \notin Making, NEW how, NEW v,
           v = Do(w, t, how)
    PROVE  /\ v \in World /\ v.slot = w.slot /\ v.hmacKeyLoaded = w.hmacKeyLoaded
           /\ w.failed <= v.failed /\ (v.ok => w.ok)
           /\ \A h \in Limited : v.loaded[h] # "none" => w.loaded[h] # "none"
           /\ t.op = "command" => v.handle = w.handle
           /\ t.op = "command" /\ t.makes = "none" =>
                \A h \in Limited : /\ w.loaded[h] # "none"
                                   /\ h \in Objects \/ w.slot[0].handle \notin SessionIds
                                   => v.loaded[h] # "none"
<1>0. w.failed \in Nat /\ Limited \subseteq HandleIds /\ Persistent \notin Limited
      /\ Objects \cap SessionIds = {}
  BY HandleFactsOfTpm DEF World, Limited, HandleIds
<1>1. CASE v = w
  BY <1>0, <1>1
<1>2. CASE Refuses(w, t, v)
  BY <1>0, <1>2 DEF Refuses
<1>3. ASSUME NEW sent \in SlotSets, Executes(w, t, sent, v)
      PROVE  /\ v \in World /\ v.slot = w.slot /\ v.hmacKeyLoaded = w.hmacKeyLoaded
             /\ w.failed <= v.failed /\ (v.ok => w.ok)
             /\ \A h \in Limited : v.loaded[h] # "none" => w.loaded[h] # "none"
             /\ t.op = "command" => v.handle = w.handle
             /\ t.op = "command" /\ t.makes = "none" =>
                  \A h \in Limited : /\ w.loaded[h] # "none"
                                     /\ h \in Objects \/ w.slot[0].handle \notin SessionIds
                                     => v.loaded[h] # "none"
  <2>1. v.loaded = LoadedThen(w, t, sent)
    BY <1>3 DEF Executes
  <2>2. \A h \in Limited : h \notin Coming(w, t)
    BY <1>0 DEF Coming
  <2>3. \A h \in Limited :
           v.loaded[h] = IF h \in Going(w, t)
                            \/ (0 \in sent /\ h = w.slot[0].handle /\ h \in SessionIds)
                         THEN "none" ELSE w.loaded[h]
    BY <1>0, <2>1, <2>2 DEF LoadedThen
  <2>4. t.op = "command" /\ t.makes = "none" => Going(w, t) = {}
    BY DEF Going
  <2>5. w.failed <= v.failed /\ (v.ok => w.ok)
    BY <1>0, <1>3 DEF Executes, Answers, Loses
  <2>6. t.op = "command" => t.into = "none"
    BY DEF Sending
  <2>7. t.op = "command" => v.handle = w.handle
    BY <1>3, <2>6 DEF Executes, Answers, Loses
  <2> QED BY <1>0, <1>3, <2>3, <2>4, <2>5, <2>7 DEF Executes
<1> QED BY <1>1, <1>2, <1>3, SendingFacts

\* One that makes something.
LEMMA MadeFacts ==
    ASSUME NEW w \in World, NEW t \in Sending, t.op = "command", t.makes \in Making, NEW how,
           NEW v, v = Do(w, t, how)
    PROVE  /\ v \in World /\ v.slot = w.slot /\ v.hmacKeyLoaded = w.hmacKeyLoaded
           /\ \A h \in Limited : /\ w.loaded[h] # "none"
                                 /\ h \in Objects \/ w.slot[0].handle \notin SessionIds
                                 => v.loaded[h] # "none"
           /\ \E x :
                /\ \A h \in Limited : v.loaded[h] # "none" => w.loaded[h] # "none" \/ h = x
                /\ \/ /\ v.failed = w.failed + 1 /\ v.handle = w.handle
                      /\ t.ignore = {} => ~v.ok
                   \/ /\ v.failed = w.failed /\ v.ok = w.ok
                      /\ v.handle = [w.handle EXCEPT ![t.into] = x]
                      /\ x \in Limited
                      /\ t.makes \in {"key", "temporary"} => x \in Objects
                      /\ x \in Objects \/ w.slot[0].handle \notin SessionIds =>
                           v.loaded[x] # "none"
<1>0. w.failed \in Nat /\ Limited \subseteq HandleIds /\ Persistent \notin Limited
      /\ Objects \cap SessionIds = {} /\ t.into # "none"
  BY HandleFactsOfTpm DEF World, Limited, HandleIds, Sending
<1>2. CASE Refuses(w, t, v)
  BY <1>0, <1>2 DEF Refuses
<1>3. ASSUME NEW sent \in SlotSets, Executes(w, t, sent, v)
      PROVE  /\ v \in World /\ v.slot = w.slot /\ v.hmacKeyLoaded = w.hmacKeyLoaded
             /\ \A h \in Limited : /\ w.loaded[h] # "none"
                                   /\ h \in Objects \/ w.slot[0].handle \notin SessionIds
                                   => v.loaded[h] # "none"
             /\ \E x :
                /\ \A h \in Limited : v.loaded[h] # "none" => w.loaded[h] # "none" \/ h = x
                /\ \/ /\ v.failed = w.failed + 1 /\ v.handle = w.handle
                      /\ t.ignore = {} => ~v.ok
                   \/ /\ v.failed = w.failed /\ v.ok = w.ok
                      /\ v.handle = [w.handle EXCEPT ![t.into] = x]
                      /\ x \in Limited
                      /\ t.makes \in {"key", "temporary"} => x \in Objects
                      /\ x \in Objects \/ w.slot[0].handle \notin SessionIds =>
                           v.loaded[x] # "none"
  <2> DEFINE x == NewHandle(w, t)
  <2>1. v.loaded = LoadedThen(w, t, sent) /\ x \in Room(w, t.makes)
    BY <1>3 DEF Executes
  <2>2. x \in Limited /\ (t.makes \in {"key", "temporary"} => x \in Objects)
    BY <2>1 DEF Room, Limited
  <2>3. Coming(w, t) = {x} /\ Going(w, t) = {}
    BY DEF Coming, Going, Making
  <2> HIDE DEF x
  <2>4. \A h \in Limited :
           v.loaded[h] = IF 0 \in sent /\ h = w.slot[0].handle /\ h \in SessionIds THEN "none"
                         ELSE IF h = x THEN t.makes ELSE w.loaded[h]
    BY <1>0, <2>1, <2>3 DEF LoadedThen, Making
  <2>5. t.makes # "none"
    BY DEF Making
  <2>6. \A h \in Limited : h \in Objects \/ w.slot[0].handle \notin SessionIds =>
           ~(0 \in sent /\ h = w.slot[0].handle /\ h \in SessionIds)
    BY <1>0
  <2>7. \/ v.failed = w.failed + 1 /\ v.handle = w.handle /\ (t.ignore = {} => ~v.ok)
        \/ v.failed = w.failed /\ v.ok = w.ok /\ v.handle = [w.handle EXCEPT ![t.into] = x]
    BY <1>0, <1>3 DEF Executes, Answers, Loses, x
  <2>8. \A h \in Limited : v.loaded[h] # "none" => w.loaded[h] # "none" \/ h = x
    BY <2>4
  <2>9. \A h \in Limited : /\ w.loaded[h] # "none"
                           /\ h \in Objects \/ w.slot[0].handle \notin SessionIds
                           => v.loaded[h] # "none"
    BY <2>4, <2>5, <2>6
  <2>10. x \in Objects \/ w.slot[0].handle \notin SessionIds => v.loaded[x] # "none"
    BY <2>2, <2>4, <2>5, <2>6
  <2>11. v \in World /\ v.slot = w.slot /\ v.hmacKeyLoaded = w.hmacKeyLoaded
    BY <1>3 DEF Executes
  <2> QED BY <2>2, <2>7, <2>8, <2>9, <2>10, <2>11
<1> QED BY <1>2, <1>3, SendingFacts

\* The steps after which nothing more is lost, and no structure of X has come to name
\* anything.
Harmless(S, X) ==
    {t \in StepSet :
       \/ t.op = "command" /\ t.makes \in {"none", "clear", "persist", "end"} /\ t.into = "none"
       \/ t.op = "unload" /\ t.into # "none" /\ t.uses = {t.into} /\ t.makes = "none"
       \/ t.op \in {"slot", "handle", "session", "save", "reset", "active", "error"}
       \/ t.op = "keyUnloaded" /\ "hmacKey" \notin S
       \/ /\ t.op = "put" /\ t.into \in Structures \ S
          /\ t.into \in X => t.value \notin Limited
       \/ /\ t.op = "copy" /\ t.into \in Structures \ S
          /\ t.from \in X /\ t.from \in Structures /\ handle[t.from] \notin Limited}

\* A world that differs in what is not counted.
LEMMA BooksAlike ==
    ASSUME NEW S \in SUBSET Structures, NEW X \in SUBSET Structures, NEW K,
           NEW w \in Debt(S), Held(w, X, K),
           NEW v \in World, v.loaded = w.loaded, w.failed <= v.failed,
           \A s \in S : v.handle[s] = w.handle[s],
           \A s \in X : v.handle[s] = w.handle[s] \/ v.handle[s] \notin Limited,
           "hmacKey" \in S => v.hmacKeyLoaded
    PROVE  v \in Debt(S) /\ Held(v, X, K)
<1>1. w \in World /\ w \in Owed(S)
  BY DEF Debt, Owed
<1>2. Astray(v, S) \subseteq Astray(w, S)
  BY DEF Astray
<1>3. v \in Owed(S)
  BY <1>1, <1>2, AstrayCounts
<1>4. Held(v, X, K)
  BY DEF Held
<1> QED BY <1>3, <1>4 DEF Debt

\* A harmless step leaves the account right.
LEMMA PlainKeeps ==
    ASSUME NEW S \in SUBSET Structures, NEW X \in SUBSET Structures,
           NEW w \in Books(S, X), NEW t \in Harmless(S, X), NEW how
    PROVE  Do(w, t, how) \in Books(S, X)
<1> DEFINE V == Do(w, t, how)
<1>0. PICK v : v = V
  OBVIOUS
<1> HIDE DEF V
<1>1. /\ w \in World /\ w \in Debt(S) /\ w \in Owed(S) /\ Held(w, X, {}) /\ t \in StepSet
      /\ v = Do(w, t, how) /\ ("hmacKey" \in S => w.hmacKeyLoaded)
  BY <1>0 DEF Books, Debt, Owed, Harmless, V
<1>2. w.failed \in Nat /\ w.handle \in [Structures -> Int]
  BY <1>1 DEF World
<1>3. \/ t.op = "command" /\ t.makes \in {"none", "clear", "persist", "end"} /\ t.into = "none"
      \/ t.op = "unload" /\ t.into # "none" /\ t.uses = {t.into} /\ t.makes = "none"
      \/ t.op \in {"slot", "handle", "session", "save", "reset", "active", "error"}
      \/ t.op = "keyUnloaded" /\ "hmacKey" \notin S
      \/ /\ t.op = "put" /\ t.into \in Structures \ S
         /\ t.into \in X => t.value \notin Limited
      \/ /\ t.op = "copy" /\ t.into \in Structures \ S
         /\ t.from \in X /\ t.from \in Structures /\ handle[t.from] \notin Limited
  BY DEF Harmless
<1>4. v \in Debt(S) /\ Held(v, X, {})
  <2>1. CASE t.op \in {"command", "unload"}
    <3>1. t \in Sending /\ t.makes \notin Making
      BY <1>1, <1>3, <2>1 DEF Sending, Making
    <3>2. /\ v \in World /\ v.hmacKeyLoaded = w.hmacKeyLoaded /\ w.failed <= v.failed
          /\ \A h \in Limited : v.loaded[h] # "none" => w.loaded[h] # "none"
      BY <1>1, <3>1, SentFacts
    <3>3. v.handle = w.handle \/ (t.op = "unload" /\ t.into \in Structures)
      BY <1>1, <1>3, <2>1, <3>1, SentFacts DEF StepSet
    <3>4. CASE v.handle = w.handle
      <4>1. Astray(v, S) \subseteq Astray(w, S)
        BY <3>2, <3>4 DEF Astray
      <4>2. v \in Owed(S)
        BY <1>1, <3>2, <4>1, AstrayCounts
      <4>3. Held(v, X, {})
        BY <1>1, <3>4 DEF Held
      <4> QED BY <1>1, <3>2, <4>2, <4>3 DEF Debt
    <3>5. CASE t.op = "unload" /\ t.into \in Structures /\ v.handle # w.handle
      <4>1. PICK sent \in SlotSets : Executes(w, t, sent, v) /\ Answers(w, t, sent, v)
        BY <1>1, <3>1, <3>5, SendingFacts DEF Refuses, Executes, Loses
      <4>2. v.handle = [w.handle EXCEPT ![t.into] = None]
        BY <3>5, <4>1 DEF Answers
      <4>3. v.loaded = LoadedThen(w, t, sent) /\ w.handle[t.into] \in Going(w, t)
        BY <1>3, <3>5, <4>1 DEF Executes, Going
      <4>4. \A h \in Limited : h = w.handle[t.into] => v.loaded[h] = "none"
        BY <4>3 DEF LoadedThen, Limited, HandleIds
      <4>5. Astray(v, S) \subseteq Astray(w, S)
        <5> SUFFICES ASSUME NEW h \in Limited, v.loaded[h] # "none", NEW s \in S, w.handle[s] = h,
                            \A r \in S : v.handle[r] # h
                     PROVE  FALSE
          BY <3>2 DEF Astray
        <5>1. s # t.into
          BY <4>4
        <5> QED BY <1>2, <4>2, <5>1
      <4>6. v \in Owed(S)
        BY <1>1, <3>2, <4>5, AstrayCounts
      <4>7. None \notin Limited
        BY HandleFactsOfTpm DEF Limited, HandleIds
      <4>8. Held(v, X, {})
        BY <1>1, <1>2, <4>2, <4>7 DEF Held
      <4> QED BY <1>1, <3>2, <4>6, <4>8 DEF Debt
    <3> QED BY <3>3, <3>4, <3>5
  <2>2. CASE t.op \in {"slot", "handle", "session", "save", "reset", "active", "keyUnloaded"}
    <3>1. /\ v \in World /\ v.loaded = w.loaded /\ v.failed = w.failed /\ v.handle = w.handle
          /\ t.op # "keyUnloaded" => v.hmacKeyLoaded = w.hmacKeyLoaded
      <4>1. CASE t.op \in {"slot", "handle"}
        <5>1. Alike(w, v, {"slot"})
          BY <1>1, <4>1, SlotFacts
        <5> QED BY <5>1 DEF Alike
      <4>2. CASE t.op \in {"session", "save"}
        <5>1. Alike(w, v, {"slot", "kept"})
          BY <1>1, <4>2, SessionFacts
        <5> QED BY <5>1 DEF Alike
      <4>3. CASE t.op \in {"reset", "active", "keyUnloaded"}
        BY <1>1, <4>3, FlagFacts DEF Alike
      <4> QED BY <2>2, <4>1, <4>2, <4>3
    <3>2. "hmacKey" \in S => v.hmacKeyLoaded
      BY <1>1, <1>3, <2>2, <3>1
    <3>3. w.failed <= v.failed
      BY <1>2, <3>1
    <3> QED BY <1>1, <3>1, <3>2, <3>3, BooksAlike
  <2>3. CASE t.op = "error"
    <3>1. Refuses(w, t, v)
      BY <1>1, <2>3, FlagFacts
    <3>2. /\ v \in World /\ v.loaded = w.loaded /\ w.failed <= v.failed /\ v.handle = w.handle
          /\ v.hmacKeyLoaded = w.hmacKeyLoaded
      BY <1>2, <3>1 DEF Refuses
    <3> QED BY <1>1, <3>2, BooksAlike
  <2>4. CASE t.op \in {"put", "copy"}
    <3>1. t.into # "none" /\ t.into \in Structures \ S /\ (t.op = "copy" => t.from \in Structures)
      BY <1>3, <2>4 DEF Structures
    <3>2. /\ Alike(w, v, {"handle", "kept"})
          /\ t.op = "put" => v.handle = [w.handle EXCEPT ![t.into] = t.value]
          /\ t.op = "copy" => v.handle = [w.handle EXCEPT ![t.into] = w.handle[t.from]]
      BY <1>1, <2>4, <3>1, HandFacts
    <3>3. /\ v \in World /\ v.loaded = w.loaded /\ v.failed = w.failed
          /\ v.hmacKeyLoaded = w.hmacKeyLoaded
      BY <3>2 DEF Alike
    <3>4. \A s \in S : v.handle[s] = w.handle[s]
      BY <1>2, <2>4, <3>1, <3>2
    <3>5. \A s \in X : v.handle[s] = w.handle[s] \/ v.handle[s] \notin Limited
      <4>1. CASE t.op = "put"
        BY <1>2, <1>3, <3>1, <3>2, <4>1
      <4>2. CASE t.op = "copy"
        <5>1. t.from \in X /\ handle[t.from] \notin Limited
          BY <1>3, <4>2
        <5>2. w.handle[t.from] \notin Limited
          BY <1>1, <5>1 DEF Held
        <5> QED BY <1>2, <3>1, <3>2, <4>2, <5>2
      <4> QED BY <2>4, <4>1, <4>2
    <3>6. w.failed <= v.failed
      BY <1>2, <3>3
    <3> QED BY <1>1, <3>3, <3>4, <3>5, <3>6, BooksAlike
  <2> QED BY <1>3, <2>1, <2>2, <2>3, <2>4
<1> QED BY <1>0, <1>4 DEF Books, V

\* So do the scripts of such steps.
LEMMA PlainTakes ==
    ASSUME NEW S \in SUBSET Structures, NEW X \in SUBSET Structures
    PROVE  /\ Books(S, X) \in SUBSET World
           /\ \A t \in Harmless(S, X) : Takes(Books(S, X), t, Books(S, X))
           /\ \A script \in Seq(Harmless(S, X)) : Leads(Books(S, X), script, Books(S, X))
<1>1. Books(S, X) \in SUBSET World
  BY DEF Books, Debt, Owed
<1>2. \A t \in Harmless(S, X) : Takes(Books(S, X), t, Books(S, X))
  BY PlainKeeps DEF Takes, Turn
<1> QED BY <1>1, <1>2, LeadsAll

\* A call may end wherever the account is right.
LEMMA BooksSettle ==
    ASSUME NEW S \in SUBSET Own, NEW X, Own \subseteq X
    PROVE  Books(S, X) \subseteq Settled
BY DEF Books, Debt, Owed, Held, Settled

\* What a structure holds in addition to what is counted.
LEMMA MoreOwed ==
    ASSUME NEW w \in World, NEW v \in World, NEW S, NEW t \in Sending,
           t.op = "command", t.makes \in Making, NEW how, v = Do(w, t, how), w \in Owed(S),
           t.into \notin S, t.into \in Structures, S \subseteq Structures
    PROVE  \/ v.handle = w.handle /\ v \in Owed(S) /\ (t.ignore = {} => ~v.ok)
           \/ /\ v.ok = w.ok /\ v \in Owed(S \union {t.into})
              /\ \A r \in Structures \ {t.into} : v.handle[r] = w.handle[r]
              /\ v.handle[t.into] \in Limited
              /\ t.makes \in {"key", "temporary"} => v.handle[t.into] \in Objects
              /\ t.makes \in {"key", "temporary"} \/ w.slot[0].handle \notin SessionIds =>
                   v.loaded[v.handle[t.into]] # "none"
<1>0. w.handle \in [Structures -> Int] /\ w.failed \in Nat
  BY DEF World
<1>1. PICK x :
        /\ \A h \in Limited : v.loaded[h] # "none" => w.loaded[h] # "none" \/ h = x
        /\ \/ /\ v.failed = w.failed + 1 /\ v.handle = w.handle
              /\ t.ignore = {} => ~v.ok
           \/ /\ v.failed = w.failed /\ v.ok = w.ok
              /\ v.handle = [w.handle EXCEPT ![t.into] = x]
              /\ x \in Limited
              /\ t.makes \in {"key", "temporary"} => x \in Objects
              /\ x \in Objects \/ w.slot[0].handle \notin SessionIds => v.loaded[x] # "none"
  BY ONLY w \in World, t \in Sending, t.op = "command", t.makes \in Making, v = Do(w, t, how),
          MadeFacts
<1>2. CASE v.failed = w.failed + 1 /\ v.handle = w.handle /\ (t.ignore = {} => ~v.ok)
  <2>1. Astray(v, S) \subseteq Astray(w, S) \union {x}
    BY <1>1, <1>2 DEF Astray
  <2>2. v \in Owed(S)
    BY <1>2, <2>1, AstrayCounts
  <2> QED BY <1>2, <2>2
<1>3. CASE /\ v.failed = w.failed /\ v.ok = w.ok
           /\ v.handle = [w.handle EXCEPT ![t.into] = x]
           /\ x \in Limited
           /\ t.makes \in {"key", "temporary"} => x \in Objects
           /\ x \in Objects \/ w.slot[0].handle \notin SessionIds => v.loaded[x] # "none"
  <2>1. v.handle[t.into] = x /\ \A r \in Structures \ {t.into} : v.handle[r] = w.handle[r]
    BY <1>0, <1>3
  <2>2. Astray(v, S \union {t.into}) \subseteq Astray(w, S)
    BY <1>1, <2>1 DEF Astray
  <2>3. w.failed <= v.failed
    BY <1>0, <1>3
  <2>4. v \in Owed(S \union {t.into})
    <3> DEFINE T == S \union {t.into}
    <3>1. Astray(v, T) \subseteq Astray(w, S) /\ w \in World /\ v \in World /\ w \in Owed(S)
      BY <2>2
    <3> HIDE DEF T
    <3>2. v \in Owed(T)
      BY ONLY <2>3, <3>1, AstrayCounts
    <3> QED BY <3>2 DEF T
  <2> QED BY <1>3, <2>1, <2>4
<1> QED BY <1>1, <1>2, <1>3

\* A key or a sequence into a structure that is not counted yet, as the last step.
LEMMA MakeSettles ==
    ASSUME NEW S \in SUBSET Own, NEW t \in Sending, t.op = "command",
           t.makes \in {"key", "temporary"}, t.into \in Own \ S, t.into # "hmacKey",
           NEW w \in Debt(S), Held(w, Own, Objects), NEW how
    PROVE  Turn(w, t, how) \in Settled
<1>0. w \in World /\ w \in Owed(S) /\ Objects \subseteq Limited /\ Own \subseteq Structures
      /\ t.makes \in Making
  BY DEF Debt, Owed, Limited, Own, Making
<1>1. w \in Settled
  BY <1>0 DEF Settled, Held
<1> DEFINE V == Do(w, t, how)
<1>2. PICK v : v = V
  OBVIOUS
<1>3. /\ v \in World /\ v.hmacKeyLoaded = w.hmacKeyLoaded
      /\ \A h \in Limited : w.loaded[h] # "none" /\ h \in Objects => v.loaded[h] # "none"
  BY <1>0, <1>2, MadeFacts
<1>4. \/ v.handle = w.handle /\ v \in Owed(S)
      \/ /\ v \in Owed(S \union {t.into})
         /\ \A r \in Structures \ {t.into} : v.handle[r] = w.handle[r]
         /\ v.handle[t.into] \in Objects /\ v.loaded[v.handle[t.into]] # "none"
  <2>1. v = Do(w, t, how) /\ t.into \in Structures /\ t.into \notin S /\ S \subseteq Structures
    BY <1>0, <1>2
  <2> HIDE DEF V
  <2>2. \/ v.handle = w.handle /\ v \in Owed(S) /\ (t.ignore = {} => ~v.ok)
        \/ /\ v.ok = w.ok /\ v \in Owed(S \union {t.into})
           /\ \A r \in Structures \ {t.into} : v.handle[r] = w.handle[r]
           /\ v.handle[t.into] \in Limited
           /\ t.makes \in {"key", "temporary"} => v.handle[t.into] \in Objects
           /\ t.makes \in {"key", "temporary"} \/ w.slot[0].handle \notin SessionIds =>
                v.loaded[v.handle[t.into]] # "none"
    BY ONLY <1>0, <1>3, <2>1, t \in Sending, t.op = "command", MoreOwed
  <2> QED BY <2>2
<1> HIDE DEF V
<1>5. Held(v, Own, Limited)
  BY <1>0, <1>3, <1>4 DEF Held
<1>6. \E T \in SUBSET Own : v \in Debt(T)
  <2>1. CASE v \in Owed(S)
    <3>1. v \in Debt(S)
      BY <1>3, <2>1 DEF Debt
    <3> QED BY <3>1
  <2>2. CASE v \in Owed(S \union {t.into})
    <3>1. v \in Debt(S \union {t.into})
      BY <1>3, <2>2 DEF Debt
    <3>2. S \union {t.into} \in SUBSET Own
      OBVIOUS
    <3> QED BY <3>1, <3>2
  <2> QED BY <1>4, <2>1, <2>2
<1>7. v \in Settled
  BY <1>3, <1>5, <1>6 DEF Settled
<1> QED BY <1>1, <1>2, <1>7 DEF Turn, V

\* Into the wrapper's own structure, and from there into the caller's; a session that slot 0
\* had would end with what is sent.
Unpoliced == {w \in World : w.ok => w.slot[0].handle \notin SessionIds}
Passing(S) ==
    {w \in Unpoliced : /\ Held(w, Structures, Limited)
                       /\ w \in Debt(S) \/ (w.ok /\ w \in Debt(S \union {"local"}))}

\* What is made into the wrapper's own structure is counted there until it is passed on.
LEMMA MakePasses ==
    ASSUME NEW S \in SUBSET Own, NEW t \in Sending, t.op = "command", t.makes \in Making,
           t.into = "local", ~t.always
    PROVE  Takes(Books(S, Structures) \cap Unpoliced, t, Passing(S))
<1> SUFFICES ASSUME NEW w \in Books(S, Structures) \cap Unpoliced, NEW how
             PROVE  Turn(w, t, how) \in Passing(S)
  BY DEF Takes
<1>0. /\ w \in World /\ w \in Owed(S) /\ w \in Debt(S) /\ Held(w, Structures, {})
      /\ "hmacKey" \in S => w.hmacKeyLoaded
      /\ Own \subseteq Structures /\ "local" \in Structures /\ "local" \notin S
      /\ "local" # "hmacKey"
  BY DEF Books, Debt, Owed, Own, Structures
<1>1. w \in Passing(S)
  BY <1>0 DEF Passing, Held
<1>2. CASE ~(w.ok \/ t.always)
  BY <1>1, <1>2 DEF Turn
<1>3. CASE w.ok /\ w.slot[0].handle \notin SessionIds
  <2> DEFINE V == Do(w, t, how)
  <2>1. PICK v : v = V
    OBVIOUS
  <2>2. /\ v \in World /\ v.hmacKeyLoaded = w.hmacKeyLoaded /\ v.slot = w.slot
        /\ \A h \in Limited : w.loaded[h] # "none" => v.loaded[h] # "none"
    BY <1>0, <1>3, <2>1, MadeFacts
  <2>3. \/ v.handle = w.handle /\ v \in Owed(S)
        \/ /\ v \in Owed(S \union {"local"}) /\ v.ok = w.ok
           /\ \A r \in Structures \ {"local"} : v.handle[r] = w.handle[r]
           /\ v.handle["local"] \in Limited /\ v.loaded[v.handle["local"]] # "none"
    <3>1. /\ t.op = "command" /\ t.makes \in Making
          /\ v = Do(w, t, how) /\ t.into \notin S /\ t.into \in Structures /\ S \subseteq Structures
      BY <1>0, <2>1
    <3> HIDE DEF V
    <3>2. w \in World /\ v \in World /\ w \in Owed(S)
      BY <1>0, <2>2
    <3>3. \/ v.handle = w.handle /\ v \in Owed(S) /\ (t.ignore = {} => ~v.ok)
          \/ /\ v.ok = w.ok /\ v \in Owed(S \union {t.into})
             /\ \A r \in Structures \ {t.into} : v.handle[r] = w.handle[r]
             /\ v.handle[t.into] \in Limited
             /\ t.makes \in {"key", "temporary"} => v.handle[t.into] \in Objects
             /\ t.makes \in {"key", "temporary"} \/ w.slot[0].handle \notin SessionIds =>
                  v.loaded[v.handle[t.into]] # "none"
      BY ONLY <3>1, <3>2, MoreOwed
    <3> QED BY <1>3, <3>3
  <2> HIDE DEF V
  <2>4. Held(v, Structures, Limited)
    BY <1>0, <2>3 DEF Held
  <2>5. v \in Debt(S) \/ (v.ok /\ v \in Debt(S \union {"local"}))
    BY <1>0, <1>3, <2>2, <2>3 DEF Debt
  <2>6. v \in Passing(S)
    BY <1>3, <2>2, <2>4, <2>5 DEF Passing, Unpoliced
  <2> QED BY <1>3, <2>1, <2>6 DEF Turn, V
<1> QED BY <1>2, <1>3 DEF Unpoliced

\* Copied to a caller's structure it is counted there.
LEMMA CopySettles ==
    ASSUME NEW S \in SUBSET Own, NEW t \in StepSet, t.op = "copy", t.from = "local",
           t.into \in Own \ S, t.into # "hmacKey", handle["local"] = None
    PROVE  Takes(Passing(S), t, Settled \cap Unpoliced)
<1> SUFFICES ASSUME NEW w \in Passing(S), NEW how
             PROVE  Turn(w, t, how) \in Settled \cap Unpoliced
  BY DEF Takes
<1>0. /\ w \in World /\ w \in Unpoliced /\ Held(w, Structures, Limited)
      /\ w \in Debt(S) \/ (w.ok /\ w \in Debt(S \union {"local"}))
      /\ Own \subseteq Structures /\ "local" \in Structures /\ "none" \notin Structures
      /\ "local" \notin Own
  BY DEF Passing, Unpoliced, Own, Structures
<1>1. CASE ~(w.ok \/ t.always)
  <2>1. w \in Debt(S) /\ Held(w, Own, Limited)
    BY <1>0, <1>1 DEF Held
  <2>2. w \in Settled
    BY <1>0, <2>1 DEF Settled
  <2> QED BY <1>0, <1>1, <2>2 DEF Turn
<1>2. CASE w.ok \/ t.always
  <2> DEFINE V == Do(w, t, how)
  <2>1. PICK v : v = V
    OBVIOUS
  <2>2. t.into \in Structures /\ t.into # "none" /\ t.from \in Structures
    BY <1>0
  <2>3. Alike(w, v, {"handle", "kept"})
        /\ v.handle = [w.handle EXCEPT ![t.into] = w.handle["local"]]
    <3>1. /\ v = Do(w, t, how) /\ t.op \in {"put", "copy"} /\ w \in World /\ t \in StepSet
          /\ t.into # "none" /\ (t.op = "copy" => t.from \in Structures)
      BY <1>0, <2>1, <2>2
    <3> HIDE DEF V
    <3>2. /\ Alike(w, v, {"handle", "kept"})
          /\ t.op = "put" => v.handle = [w.handle EXCEPT ![t.into] = t.value]
          /\ t.op = "copy" => v.handle = [w.handle EXCEPT ![t.into] = w.handle[t.from]]
      BY ONLY <3>1, HandFacts
    <3> QED BY <3>2
  <2>4. /\ v \in World /\ v.loaded = w.loaded /\ v.slot = w.slot /\ v.ok = w.ok
        /\ v.failed = w.failed /\ v.hmacKeyLoaded = w.hmacKeyLoaded
    BY <2>3 DEF Alike
  <2>5. /\ v.handle[t.into] = w.handle["local"]
        /\ \A s \in Structures \ {t.into} : v.handle[s] = w.handle[s]
    BY <1>0, <2>2, <2>3 DEF World
  <2> HIDE DEF V
  <2>6. Held(v, Own, Limited)
    <3>1. None \notin Limited
      BY HandleFactsOfTpm DEF Limited, HandleIds
    <3> QED BY <1>0, <2>4, <2>5, <3>1 DEF Held
  <2>7. \E T \in SUBSET Own : v \in Debt(T)
    <3>0. w.failed <= v.failed
      BY <1>0, <2>4 DEF World
    <3>1. CASE w \in Debt(S)
      <4>1. Astray(v, S) \subseteq Astray(w, S)
        BY <2>4, <2>5 DEF Astray, Own
      <4>2. v \in Owed(S)
        BY <1>0, <2>4, <3>0, <3>1, <4>1, AstrayCounts DEF Debt
      <4> QED BY <2>4, <3>1, <4>2 DEF Debt
    <3>2. CASE w \in Debt(S \union {"local"})
      <4> DEFINE T == S \union {t.into}
                 R == S \union {"local"}
      <4>1. Astray(v, T) \subseteq Astray(w, R)
        BY <2>4, <2>5 DEF Astray, Own
      <4>2. w \in Owed(R) /\ ("hmacKey" \in S => w.hmacKeyLoaded)
        BY <3>2 DEF Debt
      <4>3. "hmacKey" \in T => "hmacKey" \in S
        OBVIOUS
      <4>4. T \in SUBSET Own
        OBVIOUS
      <4> HIDE DEF T, R
      <4>5. v \in Owed(T)
        BY <1>0, <2>4, <3>0, <4>1, <4>2, AstrayCounts
      <4> QED BY <2>4, <4>2, <4>3, <4>4, <4>5 DEF Debt
    <3> QED BY <1>0, <3>1, <3>2
  <2>8. v \in Settled \cap Unpoliced
    BY <1>0, <2>4, <2>6, <2>7 DEF Settled, Unpoliced
  <2> QED BY <1>2, <2>1, <2>8 DEF Turn, V
<1> QED BY <1>1, <1>2

\* Steps between that make nothing.
Idle == {t \in StepSet : /\ ~t.always
                         /\ \/ t.op = "command" /\ t.makes = "none" /\ t.into = "none"
                            \/ t.op \in {"handle", "error"}}

\* Such a step leaves the handles alone, and ends a policy session at most.
LEMMA IdleFacts ==
    ASSUME NEW w \in World, NEW t \in Idle, NEW how, NEW v, v = Do(w, t, how)
    PROVE  /\ v \in World /\ v.handle = w.handle /\ v.hmacKeyLoaded = w.hmacKeyLoaded
           /\ v.slot = w.slot \/ v.slot[0].handle = Password
           /\ w.failed <= v.failed /\ (v.ok => w.ok)
           /\ t.op = "error" => v.failed = w.failed + 1
           /\ \A h \in Limited : v.loaded[h] # "none" => w.loaded[h] # "none"
           /\ \A h \in Limited : /\ w.loaded[h] # "none"
                                 /\ h \in Objects \/ w.slot[0].handle \notin SessionIds
                                 => v.loaded[h] # "none"
<1>0. t \in StepSet /\ w.failed \in Nat
  BY DEF Idle, World
<1>1. CASE t.op = "command" /\ t.makes = "none" /\ t.into = "none"
  <2>1. t \in Sending /\ t.makes \notin Making
    BY <1>0, <1>1 DEF Sending, Making
  <2> QED BY <1>1, <2>1, SentFacts
<1>2. CASE t.op = "handle"
  <2>0. /\ Alike(w, v, {"slot"})
        /\ \/ t.op = "handle" /\ v.slot = w.slot
           \/ LET k == IF t.op = "slot" THEN t.index ELSE 0
                  h == IF t.op = "slot" THEN t.value ELSE Password
              IN v.slot = [w.slot EXCEPT ![k] = [handle |-> h, attrs |-> {}]]
    <3>1. t.op \in {"slot", "handle"}
      BY <1>2
    <3> QED BY <1>0, <3>1, SlotFacts
  <2>1. /\ Alike(w, v, {"slot"})
        /\ v.slot = w.slot \/ v.slot = [w.slot EXCEPT ![0] = [handle |-> Password, attrs |-> {}]]
    BY <1>2, <2>0
  <2>2. v.slot = w.slot \/ v.slot[0].handle = Password
    BY <2>1 DEF World
  <2> QED BY <1>0, <1>2, <2>1, <2>2 DEF Alike
<1>3. CASE t.op = "error"
  <2>1. Refuses(w, t, v)
    BY <1>0, <1>3, FlagFacts
  <2> QED BY <1>0, <2>1 DEF Refuses
<1> QED BY <1>1, <1>2, <1>3 DEF Idle

\* So what is being passed on, or has been, stays what it is.
LEMMA IdleTakes ==
    ASSUME NEW S \in SUBSET Own, NEW t \in Idle
    PROVE  /\ Takes(Settled \cap Unpoliced, t, Settled \cap Unpoliced)
           /\ t.op = "error" => Takes(Passing(S), t, Passing(S))
<1>1. ASSUME NEW w \in Settled \cap Unpoliced, NEW how, w.ok
      PROVE  Do(w, t, how) \in Settled \cap Unpoliced
  <2> DEFINE V == Do(w, t, how)
  <2>1. PICK v : v = V
    OBVIOUS
  <2> HIDE DEF V
  <2>2. w \in World /\ Held(w, Own, Limited) /\ w.slot[0].handle \notin SessionIds
    BY <1>1 DEF Settled, Unpoliced
  <2>3. PICK T \in SUBSET Own : w \in Debt(T)
    BY DEF Settled
  <2>4. /\ v \in World /\ v.handle = w.handle /\ v.hmacKeyLoaded = w.hmacKeyLoaded
        /\ v.slot = w.slot \/ v.slot[0].handle = Password
        /\ w.failed <= v.failed
        /\ \A h \in Limited : v.loaded[h] # "none" => w.loaded[h] # "none"
        /\ \A h \in Limited : w.loaded[h] # "none" => v.loaded[h] # "none"
    BY <2>1, <2>2, IdleFacts DEF V
  <2>5. Held(v, Own, Limited)
    BY <2>2, <2>4 DEF Held
  <2>6. Astray(v, T) \subseteq Astray(w, T)
    BY <2>4 DEF Astray
  <2>7. v \in Owed(T)
    BY <2>2, <2>3, <2>4, <2>6, AstrayCounts DEF Debt
  <2>8. v \in Debt(T)
    BY <2>3, <2>4, <2>7 DEF Debt
  <2>9. Password \notin SessionIds
    BY HandleFactsOfTpm DEF HandleIds
  <2>10. v \in Settled \cap Unpoliced
    BY <2>2, <2>4, <2>5, <2>8, <2>9 DEF Settled, Unpoliced
  <2> QED BY <2>1, <2>10 DEF V
<1>2. ASSUME NEW w \in Passing(S), NEW how, w.ok, t.op = "error"
      PROVE  Do(w, t, how) \in Passing(S)
  <2> DEFINE V == Do(w, t, how)
  <2>1. PICK v : v = V
    OBVIOUS
  <2> HIDE DEF V
  <2>2. /\ w \in World /\ w.failed \in Nat /\ Held(w, Structures, Limited)
        /\ w.slot[0].handle \notin SessionIds /\ w.hmacKeyLoaded \in BOOLEAN
        /\ w \in Debt(S) \/ w \in Debt(S \union {"local"})
    BY <1>2 DEF Passing, Unpoliced, World
  <2>3. /\ v \in World /\ v.handle = w.handle /\ v.hmacKeyLoaded = w.hmacKeyLoaded
        /\ v.slot = w.slot \/ v.slot[0].handle = Password
        /\ v.failed = w.failed + 1
        /\ \A h \in Limited : v.loaded[h] # "none" => w.loaded[h] # "none"
        /\ \A h \in Limited : w.loaded[h] # "none" => v.loaded[h] # "none"
    BY <1>2, <2>1, <2>2, IdleFacts DEF V
  <2>4. Held(v, Structures, Limited)
    BY <2>2, <2>3 DEF Held
  <2>5. v \in Debt(S)
    <3>1. CASE w \in Debt(S)
      <4>1. Astray(v, S) \subseteq Astray(w, S) /\ w.failed <= v.failed
        BY <2>2, <2>3 DEF Astray
      <4>2. v \in Owed(S)
        BY <2>2, <2>3, <3>1, <4>1, AstrayCounts DEF Debt
      <4> QED BY <2>3, <3>1, <4>2 DEF Debt
    <3>2. CASE w \in Debt(S \union {"local"})
      <4> DEFINE R == S \union {"local"}
      <4>1. Astray(v, S) \subseteq Astray(w, R) \union {w.handle["local"]}
        BY <2>3 DEF Astray
      <4>2. w \in Owed(R) /\ ("hmacKey" \in S => w.hmacKeyLoaded)
        BY <3>2 DEF Debt
      <4> HIDE DEF R
      <4>3. v \in Owed(S)
        BY <2>2, <2>3, <4>1, <4>2, AstrayCounts
      <4> QED BY <2>3, <4>2, <4>3 DEF Debt
    <3> QED BY <2>2, <3>1, <3>2
  <2>6. Password \notin SessionIds
    BY HandleFactsOfTpm DEF HandleIds
  <2>7. v \in Passing(S)
    BY <2>2, <2>3, <2>4, <2>5, <2>6 DEF Passing, Unpoliced
  <2> QED BY <2>1, <2>7 DEF V
<1>3. ~t.always
  BY DEF Idle
<1> QED BY <1>1, <1>2, <1>3 DEF Takes, Turn

\* The key of an HMAC is counted only when the flag is set, which is the next step.
Keyed(S) ==
    {w \in World : /\ Held(w, Own, Objects)
                   /\ w \in Debt(S) \/ (w.ok /\ w \in Owed(S \union {"hmacKey"}))}
Flagged(S) ==
    {w \in World : /\ Held(w, Own, Objects)
                   /\ w \in Debt(S) \/ w \in Debt(S \union {"hmacKey"})}

\* The key of an HMAC is made.
LEMMA KeyTakes ==
    ASSUME NEW S \in SUBSET Own, "hmacKey" \notin S, NEW t \in Sending, t.op = "command",
           t.makes = "key", t.into = "hmacKey", ~t.always
    PROVE  Takes(Books(S, Own), t, Keyed(S))
<1> SUFFICES ASSUME NEW w \in Books(S, Own), NEW how
             PROVE  Turn(w, t, how) \in Keyed(S)
  BY DEF Takes
<1>0. /\ w \in World /\ w \in Owed(S) /\ w \in Debt(S) /\ Held(w, Own, {})
      /\ Own \subseteq Structures /\ "hmacKey" \in Structures
      /\ t.makes \in Making
  BY DEF Books, Debt, Owed, Own, Structures, Making
<1>1. w \in Keyed(S)
  BY <1>0 DEF Keyed, Held
<1> DEFINE V == Do(w, t, how)
<1>2. PICK v : v = V
  OBVIOUS
<1>3. /\ v \in World /\ v.hmacKeyLoaded = w.hmacKeyLoaded
      /\ \A h \in Limited : w.loaded[h] # "none" /\ h \in Objects => v.loaded[h] # "none"
  BY <1>0, <1>2, MadeFacts
<1>4. /\ v = Do(w, t, how) /\ t.op = "command" /\ t.makes \in Making /\ w \in Owed(S)
      /\ t.into \notin S /\ t.into \in Structures /\ S \subseteq Structures
      /\ w \in World /\ v \in World /\ t \in Sending
  BY <1>0, <1>2, <1>3
<1> HIDE DEF V
<1>5. \/ v.handle = w.handle /\ v \in Owed(S) /\ (t.ignore = {} => ~v.ok)
      \/ /\ v.ok = w.ok /\ v \in Owed(S \union {t.into})
         /\ \A r \in Structures \ {t.into} : v.handle[r] = w.handle[r]
         /\ v.handle[t.into] \in Limited
         /\ t.makes \in {"key", "temporary"} => v.handle[t.into] \in Objects
         /\ t.makes \in {"key", "temporary"} \/ w.slot[0].handle \notin SessionIds =>
              v.loaded[v.handle[t.into]] # "none"
  BY <1>4, MoreOwed
<1>6. Held(v, Own, Objects)
  BY <1>0, <1>5 DEF Held
<1>7. w.ok => v \in Debt(S) \/ (v.ok /\ v \in Owed(S \union {"hmacKey"}))
  BY <1>5 DEF Debt
<1>8. w.ok => v \in Keyed(S)
  BY <1>3, <1>6, <1>7 DEF Keyed
<1> QED BY <1>1, <1>2, <1>8 DEF Turn, V

\* Its flag is set.
LEMMA FlagTakes ==
    ASSUME NEW S \in SUBSET Own, "hmacKey" \notin S
    PROVE  Takes(Keyed(S), Step("keyLoaded"), Flagged(S))
<1> DEFINE t == Step("keyLoaded")
<1>1. t \in StepSet /\ t.op = "keyLoaded" /\ ~t.always
  BY StepFields
<1> HIDE DEF t
<1> SUFFICES ASSUME NEW w \in Keyed(S), NEW how
             PROVE  Turn(w, t, how) \in Flagged(S)
  BY DEF Takes, t
<1>0. w \in World /\ Held(w, Own, Objects)
      /\ (w \in Debt(S) \/ (w.ok /\ w \in Owed(S \union {"hmacKey"})))
  BY DEF Keyed
<1>2. CASE ~w.ok
  BY <1>0, <1>1, <1>2 DEF Turn, Flagged
<1>3. CASE w.ok
  <2>1. PICK v : v = Do(w, t, how)
    OBVIOUS
  <2>2. Alike(w, v, {"hmacKeyLoaded"}) /\ v.hmacKeyLoaded
    BY <1>0, <1>1, <2>1, FlagFacts
  <2>3. v \in World /\ v.loaded = w.loaded /\ v.handle = w.handle /\ v.failed = w.failed
    BY <2>2 DEF Alike
  <2>4. w.failed <= v.failed
    BY <1>0, <2>3 DEF World
  <2>5. \A T : Astray(v, T) \subseteq Astray(w, T)
    BY <2>3 DEF Astray
  <2>6. \A T : w \in Owed(T) => v \in Owed(T)
    BY <1>0, <2>3, <2>4, <2>5, AstrayCounts
  <2>7. v \in Debt(S) \/ v \in Debt(S \union {"hmacKey"})
    BY <1>0, <2>2, <2>6 DEF Debt
  <2>8. Held(v, Own, Objects)
    BY <1>0, <2>3 DEF Held
  <2>9. v \in Flagged(S)
    BY <2>3, <2>7, <2>8 DEF Flagged
  <2> QED BY <1>3, <2>1, <2>9 DEF Turn
<1> QED BY <1>2, <1>3

\* The slot is set for the HMAC.
LEMMA FlaggedTakes ==
    ASSUME NEW S \in SUBSET Own, "hmacKey" \notin S, NEW t \in Idle, t.op = "handle"
    PROVE  Takes(Flagged(S), t, Flagged(S))
<1> SUFFICES ASSUME NEW w \in Flagged(S), NEW how
             PROVE  Do(w, t, how) \in Flagged(S)
  BY DEF Takes, Turn
<1>0. w \in World /\ Held(w, Own, Objects)
      /\ (w \in Debt(S) \/ w \in Debt(S \union {"hmacKey"}))
  BY DEF Flagged
<1>1. PICK v : v = Do(w, t, how)
  OBVIOUS
<1>2. /\ v \in World /\ v.handle = w.handle /\ v.hmacKeyLoaded = w.hmacKeyLoaded
      /\ w.failed <= v.failed
      /\ \A h \in Limited : v.loaded[h] # "none" => w.loaded[h] # "none"
      /\ \A h \in Limited : w.loaded[h] # "none" /\ h \in Objects => v.loaded[h] # "none"
  BY <1>0, <1>1, IdleFacts
<1>3. \A T : Astray(v, T) \subseteq Astray(w, T)
  BY <1>2 DEF Astray
<1>4. \A T : w \in Owed(T) => v \in Owed(T)
  BY <1>0, <1>2, <1>3, AstrayCounts
<1>5. v \in Debt(S) \/ v \in Debt(S \union {"hmacKey"})
  BY <1>0, <1>2, <1>4 DEF Debt
<1>6. Held(v, Own, Objects)
  BY <1>0, <1>2 DEF Held, Limited
<1>7. v \in Flagged(S)
  BY <1>2, <1>5, <1>6 DEF Flagged
<1> QED BY <1>1, <1>7

\* A structure is not counted any more once what it names has been unloaded, or has not been
\* and the step has failed.
LEMMA DropsOne ==
    ASSUME NEW S \in SUBSET Structures, NEW X \in SUBSET Structures, NEW s \in Structures,
           NEW t \in StepSet, t.uses = {s},
           \/ t.op = "unload" /\ t.into = s /\ t.makes = "none"
           \/ t.op = "command" /\ t.into = "none" /\ t.makes = "end",
           NEW w \in Books(S, X), NEW how
    PROVE  Do(w, t, how) \in Books(S \ {s}, X)
<1> DEFINE V == Do(w, t, how)
           R == S \ {s}
<1>0. PICK v : v = V
  OBVIOUS
<1> HIDE DEF V
<1>1. /\ t \in Harmless(S, X) /\ s # "none"
      /\ t \in Sending /\ t.makes \notin Making
  BY DEF Harmless, Sending, Making, Structures
<1>2. v \in Books(S, X)
  BY <1>0, <1>1, PlainKeeps DEF V
<1>3. /\ w \in World /\ w \in Owed(S) /\ v \in World /\ v \in Owed(S) /\ Held(v, X, {})
      /\ "hmacKey" \in S => v.hmacKeyLoaded
  BY <1>2 DEF Books, Debt, Owed
<1>4. w.failed \in Nat /\ w.handle \in [Structures -> Int]
  BY <1>3 DEF World
<1>5. v \in Owed(R)
  <2>1. CASE v.failed = w.failed + 1
    <3>1. \A h \in Limited : v.loaded[h] # "none" => w.loaded[h] # "none"
      BY <1>0, <1>1, <1>3, SentFacts DEF V
    <3>2. \A r \in R : v.handle[r] = w.handle[r]
      <4>1. t.op = "command" => v.handle = w.handle
        BY <1>0, <1>1, <1>3, SentFacts DEF V
      <4>2. t.op = "unload" => v.handle = w.handle \/ v.handle = [w.handle EXCEPT ![s] = None]
        <5>1. \/ v = w \/ Refuses(w, t, v)
              \/ \E sent \in SlotSets : Executes(w, t, sent, v)
          BY <1>0, <1>1, <1>3, SendingFacts DEF V
        <5> QED BY <5>1 DEF Refuses, Executes, Answers, Loses
      <4> QED BY <1>4, <4>1, <4>2
    <3>3. Astray(v, R) \subseteq Astray(w, S) \union {w.handle[s]}
      BY <3>1, <3>2 DEF Astray
    <3> HIDE DEF R
    <3> QED BY <1>3, <2>1, <3>3, AstrayCounts
  <2>2. CASE v.failed # w.failed + 1
    <3>1. \/ t.op = "unload" /\ w.handle[s] \in {None, Persistent} /\ v = w
          \/ \E sent \in SlotSets : Executes(w, t, sent, v) /\ Answers(w, t, sent, v)
      <4>1. \/ t.op = "unload" /\ w.handle[t.into] \in {None, Persistent} /\ v = w
            \/ Refuses(w, t, v)
            \/ \E sent \in SlotSets : Executes(w, t, sent, v)
        BY <1>0, <1>1, <1>3, SendingFacts DEF V
      <4> QED BY <2>2, <4>1 DEF Refuses, Executes, Loses
    <3>2. CASE t.op = "unload" /\ w.handle[s] \in {None, Persistent} /\ v = w
      <4>1. w.handle[s] \notin Limited
        BY <3>2, HandleFactsOfTpm DEF Limited, HandleIds
      <4>2. Astray(v, R) \subseteq Astray(w, S) /\ w.failed <= v.failed
        BY <1>4, <3>2, <4>1 DEF Astray
      <4> HIDE DEF R
      <4> QED BY <1>3, <4>2, AstrayCounts
    <3>3. ASSUME NEW sent \in SlotSets, Executes(w, t, sent, v), Answers(w, t, sent, v)
          PROVE  v \in Owed(R)
      <4>1. v.loaded = LoadedThen(w, t, sent) /\ w.handle[s] \in Going(w, t)
        BY <3>3 DEF Executes, Going
      <4>2. \A h \in Limited : h = w.handle[s] => v.loaded[h] = "none"
        BY <4>1 DEF LoadedThen, Limited, HandleIds
      <4>3. \A h \in Limited : v.loaded[h] # "none" => w.loaded[h] # "none"
        BY <1>0, <1>1, <1>3, SentFacts DEF V
      <4>4. \A r \in R : v.handle[r] = w.handle[r]
        BY <1>4, <3>3 DEF Answers
      <4>5. Astray(v, R) \subseteq Astray(w, S)
        BY <4>2, <4>3, <4>4 DEF Astray
      <4>6. w.failed <= v.failed
        BY <1>4, <3>3 DEF Answers
      <4> HIDE DEF R
      <4> QED BY <1>3, <4>5, <4>6, AstrayCounts
    <3> QED BY <3>1, <3>2, <3>3
  <2> QED BY <2>1, <2>2
<1>6. v \in Books(R, X)
  BY <1>3, <1>5 DEF Books, Debt
<1> QED BY <1>0, <1>6 DEF V

\* A structure is no longer counted, or is and the call has failed.
Dropped(S, X, s) == {w \in World : w \in Books(S \ {s}, X) \/ (~w.ok /\ w \in Books(S, X))}

\* What is unloaded need not be counted any more, unless that has failed.
LEMMA DroppedTakes ==
    ASSUME NEW S \in SUBSET Structures, NEW X \in SUBSET Structures, NEW s \in Structures
    PROVE  /\ Dropped(S, X, s) \in SUBSET World
           /\ \A t \in StepSet :
                t.op = "unload" /\ t.into = s /\ t.uses = {s} /\ t.makes = "none" /\ ~t.always =>
                  Takes(Books(S, X), t, Dropped(S, X, s))
           /\ \A t \in Harmless(S \ {s}, X) : ~t.always => Takes(Dropped(S, X, s), t, Dropped(S, X, s))
<1> DEFINE R == S \ {s}
<1>0. Books(S, X) \subseteq World /\ Books(R, X) \subseteq World /\ R \in SUBSET Structures
  BY DEF Books, Debt, Owed
<1>1. ASSUME NEW t \in StepSet, t.op = "unload", t.into = s, t.uses = {s}, t.makes = "none",
             ~t.always, NEW w \in Books(S, X), NEW how
      PROVE  Turn(w, t, how) \in Dropped(S, X, s)
  <2>1. Do(w, t, how) \in Books(S \ {s}, X)
    BY <1>1, DropsOne
  <2> QED BY <1>0, <1>1, <2>1 DEF Turn, Dropped
<1>2. ASSUME NEW t \in Harmless(R, X), ~t.always, NEW w \in Dropped(S, X, s), NEW how
      PROVE  Turn(w, t, how) \in Dropped(S, X, s)
  <2>1. CASE ~w.ok
    BY <1>2, <2>1 DEF Turn
  <2>2. CASE w \in Books(R, X)
    <3>1. Do(w, t, how) \in Books(R, X)
      <4> HIDE DEF R
      <4> QED BY <1>0, <2>2, PlainKeeps
    <3> QED BY <1>0, <2>2, <3>1 DEF Turn, Dropped
  <2> QED BY <2>1, <2>2 DEF Dropped
<1> QED BY <1>1, <1>2 DEF Takes, Dropped

\* After it a call may end, or make something else into the same structure.
LEMMA DroppedSettles ==
    ASSUME NEW S \in SUBSET Own, NEW s \in Own
    PROVE  /\ Dropped(S, Own, s) \subseteq Settled
           /\ \A t \in Sending :
                /\ t.op = "command" /\ t.makes \in {"key", "temporary"} /\ ~t.always
                /\ t.into = s /\ s # "hmacKey"
                => Takes(Dropped(S, Own, s), t, Settled)
<1> DEFINE R == S \ {s}
<1>0. R \in SUBSET Own /\ Own \subseteq Own
  OBVIOUS
<1>1. Books(S, Own) \subseteq Settled /\ Books(R, Own) \subseteq Settled
  BY <1>0, BooksSettle
<1>2. Dropped(S, Own, s) \subseteq Settled
  BY <1>1 DEF Dropped
<1>3. ASSUME NEW t \in Sending, t.op = "command", t.makes \in {"key", "temporary"}, ~t.always,
             t.into = s, s # "hmacKey", NEW w \in Dropped(S, Own, s), NEW how
      PROVE  Turn(w, t, how) \in Settled
  <2>1. CASE ~w.ok
    BY <1>2, <1>3, <2>1 DEF Turn
  <2>2. CASE w \in Books(R, Own)
    <3>1. w \in Debt(R) /\ Held(w, Own, Objects)
      BY <2>2 DEF Books, Held
    <3>2. t.into \in Own \ R /\ t.into # "hmacKey"
      BY <1>3
    <3> HIDE DEF R
    <3> QED BY <1>0, <1>3, <3>1, <3>2, MakeSettles
  <2> QED BY <2>1, <2>2 DEF Dropped
<1> QED BY <1>2, <1>3 DEF Takes

\* From what is counted: a key or a sequence into another structure.
LEMMA MakeTakes ==
    ASSUME NEW S \in SUBSET Own, NEW t \in Sending, t.op = "command",
           t.makes \in {"key", "temporary"}, t.into \in Own \ S, t.into # "hmacKey"
    PROVE  /\ Takes(Books(S, Own), t, Settled)
           /\ "hmacKey" \notin S /\ t.into # "hmacKey" => Takes(Flagged(S), t, Settled)
<1>1. ASSUME NEW w \in Books(S, Own), NEW how
      PROVE  Turn(w, t, how) \in Settled
  <2>1. w \in Debt(S) /\ Held(w, Own, Objects)
    BY DEF Books, Held
  <2> QED BY <2>1, MakeSettles
<1>2. ASSUME NEW w \in Flagged(S), NEW how
      PROVE  Turn(w, t, how) \in Settled
  <2>1. Held(w, Own, Objects) /\ (w \in Debt(S) \/ w \in Debt(S \union {"hmacKey"}))
    BY DEF Flagged
  <2>2. CASE w \in Debt(S)
    BY <2>1, <2>2, MakeSettles
  <2>3. CASE w \in Debt(S \union {"hmacKey"})
    <3> DEFINE T == S \union {"hmacKey"}
    <3>1. T \in SUBSET Own /\ t.into \in Own \ T
      BY DEF Own, Structures
    <3> HIDE DEF T
    <3>2. w \in Debt(T)
      BY <2>3 DEF T
    <3> QED BY <2>1, <3>1, <3>2, MakeSettles
  <2> QED BY <2>1, <2>2, <2>3
<1> QED BY <1>1, <1>2 DEF Takes

\* Slot 0 is given up, and GetRandom leaves it.
LEMMA SlotGivenUp ==
    ASSUME NEW S \in SUBSET Structures, NEW X \in SUBSET Structures
    PROVE  LET P == Books(S, X)
           IN /\ P \cap Unpoliced \in SUBSET World
              /\ Takes(P, wolfTPM2_SetAuthHandle("parent"), P \cap Unpoliced)
              /\ Takes(P, wolfTPM2_SetAuthPassword, P \cap Unpoliced)
              /\ \A t \in Bare : t.op = "command" =>
                   Takes(P \cap Unpoliced, t, P \cap Unpoliced)
<1> DEFINE P == Books(S, X)
<1>0. P \subseteq World /\ Password \notin SessionIds
  BY HandleFactsOfTpm DEF Books, Debt, Owed, HandleIds
<1>1. Bare \subseteq Harmless(S, X)
  BY DEF Bare, Harmless
<1>2. ASSUME NEW w \in P, NEW how,
             NEW t \in {wolfTPM2_SetAuthHandle("parent"), wolfTPM2_SetAuthPassword}
      PROVE  Do(w, t, how) \in P \cap Unpoliced
  <2>1. t \in Bare
    BY <1>2, PlainSteps
  <2>2. PICK v : v = Do(w, t, how)
    OBVIOUS
  <2>3. v \in P
    BY <1>1, <2>1, <2>2, PlainKeeps
  <2>4. v = [w EXCEPT !.slot[0] = [handle |-> Password, attrs |-> {}]]
    <3>1. CASE t = wolfTPM2_SetAuthHandle("parent")
      <4>1. t.op = "handle" /\ t.from = "parent"
        BY <3>1, StepFields DEF wolfTPM2_SetAuthHandle, Step
      <4> QED BY <2>2, <4>1 DEF Do
    <3>2. CASE t = wolfTPM2_SetAuthPassword
      <4>1. t.op = "slot" /\ t.index = 0 /\ t.value = Password
        BY <3>2 DEF wolfTPM2_SetAuthPassword, wolfTPM2_SetAuth, Step
      <4> QED BY <2>2, <4>1 DEF Do
    <3> QED BY <1>2, <3>1, <3>2
  <2>5. v.slot[0].handle = Password
    BY <1>0, <2>4 DEF World
  <2>6. v \in Unpoliced
    BY <1>0, <2>3, <2>5 DEF Unpoliced
  <2> QED BY <2>2, <2>3, <2>6
<1>3. ASSUME NEW t \in Bare, t.op = "command", NEW w \in P \cap Unpoliced, NEW how
      PROVE  Turn(w, t, how) \in P \cap Unpoliced
  <2>1. PICK v : v = Do(w, t, how)
    OBVIOUS
  <2>2. v \in P
    BY <1>1, <2>1, PlainKeeps
  <2>3. t \in Sending /\ t.makes \notin Making
    BY <1>3 DEF Bare, Sending, Making
  <2>4. v.slot = w.slot /\ (v.ok => w.ok)
    <3> HIDE DEF P
    <3> QED BY <1>0, <2>1, <2>3, SentFacts
  <2>5. v \in P \cap Unpoliced
    BY <1>0, <2>2, <2>4 DEF Unpoliced
  <2> QED BY <2>1, <2>5 DEF Turn
<1>4. ASSUME NEW t \in {wolfTPM2_SetAuthHandle("parent"), wolfTPM2_SetAuthPassword},
             NEW w \in P, NEW how
      PROVE  Turn(w, t, how) \in P \cap Unpoliced
  <2>1. ~t.always
    BY DEF wolfTPM2_SetAuthHandle, wolfTPM2_SetAuthPassword, wolfTPM2_SetAuth, Step
  <2> QED BY <1>0, <1>2, <2>1 DEF Turn, Unpoliced
<1>5. /\ Takes(P, wolfTPM2_SetAuthHandle("parent"), P \cap Unpoliced)
      /\ Takes(P, wolfTPM2_SetAuthPassword, P \cap Unpoliced)
  BY <1>4 DEF Takes
<1>6. \A t \in Bare : t.op = "command" => Takes(P \cap Unpoliced, t, P \cap Unpoliced)
  BY <1>3 DEF Takes
<1> QED BY <1>0, <1>5, <1>6

\* The steps of the wrappers that are plain.
LEMMA PlainMembers ==
    ASSUME NEW S \in SUBSET Own, NEW X \in SUBSET Structures
    PROVE  /\ Bare \subseteq Harmless(S, X)
           /\ \A s \in Structures :
                /\ wolfTPM2_UnloadHandle(s) \in Harmless(S, X)
                /\ Ignoring(wolfTPM2_UnloadHandle(s)) \in Harmless(S, X)
                /\ Always(Ignoring(wolfTPM2_UnloadHandle(s))) \in Harmless(S, X)
                /\ \A c : [Run(c, {s}) EXCEPT !.makes = "end", !.from = s] \in Harmless(S, X)
           /\ \A s \in Structures \ S :
                /\ Clear(s) \in Harmless(S, X) /\ Always(Clear(s)) \in Harmless(S, X)
                /\ Put(Persistent, s) \in Harmless(S, X) /\ Put(Counter, s) \in Harmless(S, X)
                /\ \A q \in X : handle[q] \notin Limited =>
                     Copy(q, s) \in Harmless(S, X) /\ Always(Copy(q, s)) \in Harmless(S, X)
           /\ \A s \in Structures \ (S \union X) : \A h \in Objects : Put(h, s) \in Harmless(S, X)
           /\ "hmacKey" \notin S => Always(Step("keyUnloaded")) \in Harmless(S, X)
           /\ Step("reset") \in Harmless(S, X) /\ [Step("save") EXCEPT !.index = 1] \in Harmless(S, X)
           /\ wolfTPM2_SetAuth(1, None) \in Harmless(S, X)
           /\ \A j \in 0 .. 1 : \A a \in SUBSET Attributes :
                wolfTPM2_SetAuthSession(j, a) \in Harmless(S, X)
<1> DEFINE Q == Harmless(S, X)
<1>0. "none" \notin Structures /\ None \in Int /\ Persistent \in Int /\ Counter \in Int
      /\ None \notin Limited /\ Persistent \notin Limited /\ Counter \notin Limited
      /\ Objects \subseteq Int
  BY HandleFactsOfTpm DEF Structures, None, Persistent, Counter, Limited, HandleIds
<1>1. Bare \subseteq Q
  BY DEF Bare, Harmless
<1>2. ASSUME NEW s \in Structures
      PROVE  /\ wolfTPM2_UnloadHandle(s) \in Q
             /\ Ignoring(wolfTPM2_UnloadHandle(s)) \in Q
             /\ Always(Ignoring(wolfTPM2_UnloadHandle(s))) \in Q
  <2> DEFINE r == wolfTPM2_UnloadHandle(s)
             g == Ignoring(r)
             a == Always(g)
  <2>1. r \in StepSet /\ r.op = "unload" /\ r.uses = {s} /\ r.into = s /\ r.makes = "none"
    BY UnloadFields
  <2>2. g \in StepSet /\ g.op = "unload" /\ g.uses = {s} /\ g.into = s /\ g.makes = "none"
    <3> HIDE DEF r
    <3> QED BY <2>1, IgnoringFields
  <2>3. a \in StepSet /\ a.op = "unload" /\ a.uses = {s} /\ a.into = s /\ a.makes = "none"
    <3> HIDE DEF g
    <3> QED BY <2>2, AlwaysFields
  <2> HIDE DEF r, g, a
  <2>4. r \in Q /\ g \in Q /\ a \in Q
    BY <1>0, <2>1, <2>2, <2>3 DEF Harmless
  <2> QED BY <2>4 DEF r, g, a
<1>3. ASSUME NEW s \in Structures \ S, NEW h \in Int, s \in X => h \notin Limited
      PROVE  Put(h, s) \in Q /\ Always(Put(h, s)) \in Q
  <2> DEFINE p == Put(h, s)
             a == Always(p)
  <2>1. p \in StepSet /\ p.op = "put" /\ p.value = h /\ p.into = s
    BY HandFields
  <2>2. a \in StepSet /\ a.op = "put" /\ a.value = h /\ a.into = s
    <3> HIDE DEF p
    <3> QED BY <2>1, AlwaysFields
  <2> HIDE DEF p, a
  <2>3. p \in Q /\ a \in Q
    BY <1>3, <2>1, <2>2 DEF Harmless
  <2> QED BY <2>3 DEF p, a
<1>4. ASSUME NEW s \in Structures \ S, NEW q \in X, handle[q] \notin Limited
      PROVE  Copy(q, s) \in Q /\ Always(Copy(q, s)) \in Q
  <2> DEFINE p == Copy(q, s)
             a == Always(p)
  <2>1. p \in StepSet /\ p.op = "copy" /\ p.from = q /\ p.into = s
    BY HandFields
  <2>2. a \in StepSet /\ a.op = "copy" /\ a.from = q /\ a.into = s
    <3> HIDE DEF p
    <3> QED BY <2>1, AlwaysFields
  <2> HIDE DEF p, a
  <2>3. p \in Q /\ a \in Q
    BY <1>4, <2>1, <2>2 DEF Harmless
  <2> QED BY <2>3 DEF p, a
<1>5. ASSUME NEW s \in Structures, NEW c
      PROVE  [Run(c, {s}) EXCEPT !.makes = "end", !.from = s] \in Q
  <2> DEFINE r == Run(c, {s})
             e == [r EXCEPT !.makes = "end", !.from = s]
  <2>1. r \in StepSet /\ r.op = "command" /\ r.uses = {s} /\ r.into = "none"
    BY RunFields
  <2> HIDE DEF r
  <2>2. e \in StepSet
    BY <2>1 DEF StepSet
  <2>3. e.op = "command" /\ e.uses = {s} /\ e.into = "none" /\ e.makes = "end"
    BY <2>1 DEF StepSet
  <2> HIDE DEF e
  <2>4. e \in Q
    BY <2>2, <2>3 DEF Harmless
  <2> QED BY <2>4 DEF r, e
<1>6. "hmacKey" \notin S => Always(Step("keyUnloaded")) \in Q
  <2> DEFINE r == Step("keyUnloaded")
             a == Always(r)
  <2>1. r \in StepSet /\ r.op = "keyUnloaded"
    BY StepFields
  <2> HIDE DEF r
  <2>2. a \in StepSet /\ a.op = "keyUnloaded"
    BY <2>1, AlwaysFields
  <2> HIDE DEF a
  <2>3. "hmacKey" \notin S => a \in Q
    BY <2>2 DEF Harmless
  <2> QED BY <2>3 DEF a, r
<1>7. Step("reset") \in Q /\ [Step("save") EXCEPT !.index = 1] \in Q /\ wolfTPM2_SetAuth(1, None) \in Q
  <2>1. Step("reset") \in StepSet /\ Step("reset").op = "reset"
        /\ Step("save") \in StepSet /\ Step("save").op = "save"
        /\ Step("slot") \in StepSet /\ Step("slot").op = "slot"
    BY StepFields
  <2>2. Step("reset") \in Q
    BY <2>1 DEF Harmless
  <2>3. [Step("save") EXCEPT !.index = 1] \in StepSet /\ [Step("save") EXCEPT !.index = 1].op = "save"
    BY <2>1 DEF StepSet
  <2>4. [Step("slot") EXCEPT !.index = 1, !.value = None] \in StepSet
    <3>1. 1 \in 0 .. 1
      OBVIOUS
    <3>2. PICK r : r = Step("slot")
      OBVIOUS
    <3>3. PICK q : q = [r EXCEPT !.index = 1]
      OBVIOUS
    <3>4. q \in StepSet
      BY <2>1, <3>1, <3>2, <3>3 DEF StepSet
    <3>5. [q EXCEPT !.value = None] \in StepSet
      BY <1>0, <3>4 DEF StepSet
    <3>6. [q EXCEPT !.value = None] = [r EXCEPT !.index = 1, !.value = None]
      BY <3>3
    <3> QED BY <3>2, <3>5, <3>6
  <2>5. [Step("slot") EXCEPT !.index = 1, !.value = None].op = "slot"
    BY <2>1 DEF StepSet
  <2> QED BY <2>2, <2>3, <2>4, <2>5 DEF Harmless, wolfTPM2_SetAuth
<1>8. ASSUME NEW j \in 0 .. 1, NEW a \in SUBSET Attributes
      PROVE  wolfTPM2_SetAuthSession(j, a) \in Q
  BY SessionFields DEF Harmless
<1>9. \A s \in Structures \ S : Clear(s) \in Q /\ Always(Clear(s)) \in Q
  BY <1>0, <1>3 DEF Clear
<1>10. \A s \in Structures \ S : Put(Persistent, s) \in Q /\ Put(Counter, s) \in Q
  BY <1>0, <1>3
<1>11. \A s \in Structures \ (S \union X) : \A h \in Objects : Put(h, s) \in Q
  BY <1>0, <1>3
<1> QED BY <1>1, <1>2, <1>4, <1>5, <1>6, <1>7, <1>8, <1>9, <1>10, <1>11

\* The wrappers made of plain steps; what they put something into is not counted.
LEMMA PlainWrappers ==
    ASSUME NEW S \in SUBSET Own
    PROVE  LET Q == Seq(Harmless(S, Own))
           IN /\ Seq(Bare) \subseteq Q
              /\ {wolfTPM2_UnloadHandles_AllTransient, << wolfTPM2_UnloadHandle("key") >>,
                  << wolfTPM2_UnloadHandle("session") >>, wolfTPM2_UnsetAuthSession(1),
                  wolfTPM2_ChangePlatformAuth(TRUE), wolfTPM2_Init, wolfTPM2_Cleanup} \subseteq Q
              /\ \A j \in 0 .. 1 : \A a \in SUBSET Attributes :
                   << wolfTPM2_SetAuthSession(j, a) >> \in Q
              /\ "key" \notin S =>
                   {wolfTPM2_NVDeleteKey, wolfTPM2_ECDHEGenZ, wolfTPM2_ECDHEGenKey,
                    wolfTPM2_CreateKeySeal("key"), wolfTPM2_CreateKey("key")} \subseteq Q
<1> DEFINE Q == Harmless(S, Own)
<1>1. /\ "key" \in Own /\ "session" \in Own /\ "local" \in Structures \ (S \union Own)
      /\ Own \in SUBSET Structures /\ {} \in SUBSET Structures /\ {"key"} \in SUBSET Structures
      /\ {"decrypt", "encrypt", "continue"} \in SUBSET Attributes
  BY DEF Own, Structures, Attributes
<1>2. /\ Bare \subseteq Q
      /\ \A s \in Structures :
           /\ wolfTPM2_UnloadHandle(s) \in Q
           /\ Ignoring(wolfTPM2_UnloadHandle(s)) \in Q
           /\ \A c : [Run(c, {s}) EXCEPT !.makes = "end", !.from = s] \in Q
      /\ \A s \in Structures \ S : Clear(s) \in Q /\ Put(Counter, s) \in Q
      /\ \A h \in Objects : Put(h, "local") \in Q
      /\ Step("reset") \in Q /\ [Step("save") EXCEPT !.index = 1] \in Q
      /\ wolfTPM2_SetAuth(1, None) \in Q
      /\ \A j \in 0 .. 1 : \A a \in SUBSET Attributes : wolfTPM2_SetAuthSession(j, a) \in Q
  BY <1>1, PlainMembers
<1>3. /\ wolfTPM2_SetAuthHandle("parent") \in Q /\ wolfTPM2_SetAuthPassword \in Q
      /\ Step("active") \in Q /\ GetNonce \in Q
      /\ \A c : Run(c, {}) \in Q /\ Ignoring(Run(c, {})) \in Q
  <2>1. /\ wolfTPM2_SetAuthHandle("parent") \in Bare /\ wolfTPM2_SetAuthPassword \in Bare
        /\ Step("active") \in Bare /\ GetNonce \in Bare
        /\ \A c : Run(c, {}) \in Bare /\ Ignoring(Run(c, {})) \in Bare
    BY <1>1, PlainSteps
  <2> HIDE DEF Q
  <2> QED BY <1>2, <2>1
<1> HIDE DEF Q
<1>4. Seq(Bare) \subseteq Seq(Q)
  <2>1. ASSUME NEW A, NEW B, A \subseteq B PROVE Seq(A) \subseteq Seq(B)
    BY <2>1
  <2> HIDE DEF Bare
  <2> QED BY <1>2, <2>1
<1>5. wolfTPM2_UnloadHandles_AllTransient \in Seq(Q)
  <2> DEFINE a == Ignoring(wolfTPM2_UnloadHandle("local"))
             n == MAX_HANDLE_NUM
             f == wolfTPM2_UnloadHandles_AllTransient
  <2>1. a \in Q /\ n \in Nat
    BY <1>1, <1>2, WrapAssumption
  <2>2. f = [j \in 1 .. 2 * n |-> IF j % 2 = 1 THEN Put(1 + (j \div 2), "local") ELSE a]
    BY DEF wolfTPM2_UnloadHandles_AllTransient, wolfTPM2_UnloadHandles
  <2> HIDE DEF a, f
  <2>3. ASSUME NEW j \in 1 .. 2 * n, j % 2 = 1 PROVE Put(1 + (j \div 2), "local") \in Q
    <3>1. 1 + (j \div 2) \in 1 .. n
      BY <2>1, <2>3
    <3> QED BY <1>2, <3>1 DEF Objects
  <2>4. f \in [1 .. 2 * n -> Q] /\ 2 * n \in Nat
    BY <2>1, <2>2, <2>3
  <2>5. \A m \in Nat : \A g \in [1 .. m -> Q] : g \in Seq(Q)
    OBVIOUS
  <2> HIDE DEF n
  <2> QED BY <2>4, <2>5 DEF f
<1>9. \A a \in Seq(Q), b \in Seq(Q) : a \o b \in Seq(Q)
  OBVIOUS
<1>10. \A a \in Q : << a >> \in Seq(Q)
  OBVIOUS
<1>11. \A a \in Q, b \in Q : << a, b >> \in Seq(Q)
  OBVIOUS
<1>12. \A a \in Q, b \in Q, c \in Q : << a, b, c >> \in Seq(Q)
  OBVIOUS
<1>13. \A a \in Q, b \in Q, c \in Q, d \in Q : << a, b, c, d >> \in Seq(Q)
  OBVIOUS
<1>14. << wolfTPM2_UnloadHandle("key") >> \in Seq(Q) /\ << wolfTPM2_UnloadHandle("session") >> \in Seq(Q)
  BY <1>1, <1>2, <1>10
<1>15. wolfTPM2_UnsetAuthSession(1) \in Seq(Q)
  BY <1>2, <1>9, <1>10 DEF wolfTPM2_UnsetAuthSession, wolfTPM2_UnsetAuth
<1>16. \A j \in 0 .. 1 : \A a \in SUBSET Attributes : << wolfTPM2_SetAuthSession(j, a) >> \in Seq(Q)
  BY <1>2, <1>10
<1>17. wolfTPM2_ChangePlatformAuth(TRUE) \in Seq(Q)
  <2>1. << wolfTPM2_SetAuthSession(1, {"decrypt", "encrypt", "continue"}) >> \in Seq(Q)
    BY <1>1, <1>16
  <2>2. << GetNonce, Run("HierarchyChangeAuth", {}) >> \in Seq(Q)
    BY <1>3, <1>11
  <2> QED BY <1>9, <2>1, <2>2 DEF wolfTPM2_ChangePlatformAuth
<1>18. wolfTPM2_Init \in Seq(Q) /\ wolfTPM2_Cleanup \in Seq(Q)
  BY <1>2, <1>3, <1>11, <1>13 DEF wolfTPM2_Init, wolfTPM2_Cleanup
<1>19. ASSUME "key" \notin S
       PROVE  {wolfTPM2_NVDeleteKey, wolfTPM2_ECDHEGenZ, wolfTPM2_ECDHEGenKey,
               wolfTPM2_CreateKeySeal("key"), wolfTPM2_CreateKey("key")} \subseteq Seq(Q)
  <2>1. "key" \in Structures \ S /\ "key" \in Structures
    BY <1>1, <1>19
  <2>2. Clear("key") \in Q /\ Put(Counter, "key") \in Q
    BY <1>2, <2>1
  <2>3. wolfTPM2_NVDeleteKey \in Seq(Q)
    BY <1>2, <1>11, <2>1, <2>2 DEF wolfTPM2_NVDeleteKey
  <2>4. wolfTPM2_ECDHEGenZ \in Seq(Q)
    BY <1>3, <1>12, <2>2 DEF wolfTPM2_ECDHEGenZ
  <2>5. wolfTPM2_ECDHEGenKey \in Seq(Q)
    BY <1>3, <1>11, <2>2 DEF wolfTPM2_ECDHEGenKey
  <2>6. wolfTPM2_CreateKey("key") \in Seq(Q) /\ wolfTPM2_CreateKeySeal("key") \in Seq(Q)
    BY <1>3, <1>12, <2>2
       DEF wolfTPM2_CreateKey, wolfTPM2_CreateKeySeal, wolfTPM2_CreateKeySeal_ex
  <2> QED BY <2>3, <2>4, <2>5, <2>6
<1> QED BY <1>4, <1>5, <1>14, <1>15, <1>16, <1>17, <1>18, <1>19 DEF Q

\* These are sets of worlds, as Leads requires.
LEMMA SettledIsWorld ==
    /\ Settled \in SUBSET World /\ Settled \cap Unpoliced \in SUBSET World
    /\ \A S : /\ Passing(S) \in SUBSET World /\ Keyed(S) \in SUBSET World
              /\ Flagged(S) \in SUBSET World
BY DEF Settled, Unpoliced, Passing, Keyed, Flagged

\* A script of plain steps, and one that ends with another step.
LEMMA PlainSettles ==
    ASSUME NEW S \in SUBSET Own, NEW script \in Seq(Harmless(S, Own))
    PROVE  Leads(Books(S, Own), script, Settled)
<1> DEFINE P == Books(S, Own)
<1>1. S \in SUBSET Structures /\ Own \in SUBSET Structures
  BY DEF Own
<1>2. Leads(P, script, P)
  BY <1>1, PlainTakes
<1>3. P \in SUBSET P /\ P \subseteq Settled
  BY BooksSettle
<1> HIDE DEF P
<1>4. Leads(P, script, Settled)
  BY ONLY <1>2, <1>3, LeadsTo
<1> QED BY <1>4 DEF P

\* Harmless steps may come before any script.
LEMMA PlainThen ==
    ASSUME NEW S \in SUBSET Own, NEW X \in SUBSET Structures, NEW R \in SUBSET World,
           NEW a \in Seq(Harmless(S, X)), NEW b \in Seq(StepSet), Leads(Books(S, X), b, R)
    PROVE  Leads(Books(S, X), a \o b, R)
<1> DEFINE P == Books(S, X)
<1>1. S \in SUBSET Structures
  BY DEF Own
<1>2. P \in SUBSET World /\ Leads(P, a, P)
  BY <1>1, PlainTakes
<1>3. a \in Seq(StepSet)
  <2>1. Harmless(S, X) \subseteq StepSet
    BY DEF Harmless
  <2> DEFINE Q == Harmless(S, X)
  <2> HIDE DEF Q
  <2>2. Q \subseteq StepSet /\ a \in Seq(Q)
    BY <2>1 DEF Q
  <2> QED BY <2>2
<1> DEFINE T == StepSet
<1>4. a \in Seq(T) /\ b \in Seq(T) /\ Leads(P, b, R) /\ R \in SUBSET World
  BY <1>3
<1> HIDE DEF P, T
<1>5. Leads(P, a \o b, R)
  BY ONLY <1>2, <1>4, LeadsThen
<1> QED BY <1>5 DEF P

\* A script is its last step behind the others.
LEMMA Pairs ==
    /\ \A a, b : << a, b >> = << a >> \o << b >>
    /\ \A a, b, c : << a, b, c >> = << a, b >> \o << c >>
    /\ \A a, b, c, d : << a, b, c, d >> = << a, b, c >> \o << d >>
<1>1. ASSUME NEW a, NEW b PROVE << a, b >> = << a >> \o << b >>
  <2> DEFINE S == {a, b}
             x == << a, b >>
             y == << a >> \o << b >>
  <2>1. << a >> \in Seq(S) /\ << b >> \in Seq(S) /\ x \in Seq(S)
    OBVIOUS
  <2>2. y \in Seq(S) /\ Len(x) = 2 /\ Len(y) = 2
    BY <2>1
  <2>3. x[1] = a /\ x[2] = b /\ y[1] = a /\ y[2] = b
    BY <2>1
  <2>4. \A n \in 1 .. 2 : n = 1 \/ n = 2
    OBVIOUS
  <2> HIDE DEF x, y, S
  <2>5. Len(x) = Len(y) /\ \A n \in 1 .. Len(x) : x[n] = y[n]
    BY <2>2, <2>3, <2>4
  <2> QED BY <2>1, <2>2, <2>5, SeqEqual DEF x, y
<1>2. ASSUME NEW a, NEW b, NEW c PROVE << a, b, c >> = << a, b >> \o << c >>
  <2> DEFINE S == {a, b, c}
             x == << a, b, c >>
             y == << a, b >> \o << c >>
  <2>1. << a, b >> \in Seq(S) /\ << c >> \in Seq(S) /\ x \in Seq(S)
    OBVIOUS
  <2>2. y \in Seq(S) /\ Len(x) = 3 /\ Len(y) = 3
    BY <2>1
  <2>3. x[1] = a /\ x[2] = b /\ x[3] = c /\ y[1] = a /\ y[2] = b /\ y[3] = c
    BY <2>1
  <2>4. \A n \in 1 .. 3 : n = 1 \/ n = 2 \/ n = 3
    OBVIOUS
  <2> HIDE DEF x, y, S
  <2>5. Len(x) = Len(y) /\ \A n \in 1 .. Len(x) : x[n] = y[n]
    BY <2>2, <2>3, <2>4
  <2> QED BY <2>1, <2>2, <2>5, SeqEqual DEF x, y
<1>3. ASSUME NEW a, NEW b, NEW c, NEW d
      PROVE  << a, b, c, d >> = << a, b, c >> \o << d >>
  <2> DEFINE S == {a, b, c, d}
             x == << a, b, c, d >>
             y == << a, b, c >> \o << d >>
  <2>1. << a, b, c >> \in Seq(S) /\ << d >> \in Seq(S) /\ x \in Seq(S)
    OBVIOUS
  <2>2. y \in Seq(S) /\ Len(x) = 4 /\ Len(y) = 4
    BY <2>1
  <2>3. /\ x[1] = a /\ x[2] = b /\ x[3] = c /\ x[4] = d
        /\ y[1] = a /\ y[2] = b /\ y[3] = c /\ y[4] = d
    BY <2>1
  <2>4. \A n \in 1 .. 4 : n = 1 \/ n = 2 \/ n = 3 \/ n = 4
    OBVIOUS
  <2> HIDE DEF x, y, S
  <2>5. Len(x) = Len(y) /\ \A n \in 1 .. Len(x) : x[n] = y[n]
    BY <2>2, <2>3, <2>4
  <2> QED BY <2>1, <2>2, <2>5, SeqEqual DEF x, y
<1> QED BY <1>1, <1>2, <1>3

\* One step behind harmless ones.
LEMMA ThenOne ==
    ASSUME NEW S \in SUBSET Own, NEW X \in SUBSET Structures, NEW R \in SUBSET World,
           NEW a \in Seq(Harmless(S, X)), NEW t \in StepSet, Takes(Books(S, X), t, R)
    PROVE  /\ Leads(Books(S, X), << t >>, R)
           /\ Leads(Books(S, X), a \o << t >>, R)
<1> DEFINE P == Books(S, X)
<1>1. P \in SUBSET World
  BY PlainTakes DEF Own
<1>2. Takes(P, t, R) /\ R \in SUBSET World
  OBVIOUS
<1> HIDE DEF P
<1>3. Leads(P, << t >>, R)
  BY ONLY <1>1, <1>2, LeadsOne
<1>4. << t >> \in Seq(StepSet)
  OBVIOUS
<1>5. Leads(Books(S, X), << t >>, R)
  BY <1>3 DEF P
<1> QED BY <1>4, <1>5, PlainThen

\* The fields of a command that makes something.
LEMMA MakerFields ==
    ASSUME NEW c, NEW uses \in SUBSET Structures, NEW kind \in Making, NEW s \in Structures
    PROVE  LET t == Make(c, uses, kind, s)
           IN /\ t \in Sending /\ t \in StepSet /\ t.op = "command" /\ t.into = s
              /\ t.makes = kind /\ ~t.always
<1> DEFINE t == Make(c, uses, kind, s)
<1>1. /\ t \in StepSet /\ t.op = "command" /\ t.uses = uses /\ t.into = s
      /\ t.makes = kind /\ ~t.always /\ t.ignore = {}
  BY MakeFields, Zenon
<1>2. s # "none"
  BY DEF Structures
<1> HIDE DEF t
<1>3. t \in Sending
  BY <1>1, <1>2 DEF Sending
<1> QED BY <1>1, <1>3 DEF t

\* A wrapper that makes a key of the caller's, or a hash, as the last of its steps.
LEMMA LastMakes ==
    ASSUME NEW S \in SUBSET Own, NEW s \in {"key", "hash"}, s \notin S,
           NEW a \in Seq(Harmless(S, Own)), NEW c, NEW uses \in SUBSET Structures,
           NEW kind \in {"key", "temporary"}
    PROVE  /\ Leads(Books(S, Own), << Make(c, uses, kind, s) >>, Settled)
           /\ Leads(Books(S, Own), a \o << Make(c, uses, kind, s) >>, Settled)
           /\ "hmacKey" \notin S =>
                Leads(Flagged(S), << Make(c, uses, kind, s) >>, Settled)
<1> DEFINE t == Make(c, uses, kind, s)
<1>1. kind \in Making /\ s \in Structures /\ s \in Own \ S /\ s # "hmacKey"
      /\ Own \in SUBSET Structures
  BY DEF Making, Structures, Own
<1>2. t \in Sending /\ t \in StepSet /\ t.op = "command" /\ t.into = s /\ t.makes = kind
  BY <1>1, MakerFields
<1> HIDE DEF t
<1>3. t \in Sending /\ t.op = "command" /\ t.makes \in {"key", "temporary"}
      /\ t.into \in Own \ S /\ t.into # "hmacKey"
  BY <1>1, <1>2
<1>4. /\ Takes(Books(S, Own), t, Settled)
      /\ "hmacKey" \notin S => Takes(Flagged(S), t, Settled)
  BY <1>3, MakeTakes
<1>5. Settled \in SUBSET World /\ Flagged(S) \in SUBSET World
  BY SettledIsWorld
<1>6. Leads(Books(S, Own), << t >>, Settled) /\ Leads(Books(S, Own), a \o << t >>, Settled)
  BY <1>1, <1>2, <1>4, <1>5, ThenOne
<1>7. "hmacKey" \notin S => Leads(Flagged(S), << t >>, Settled)
  <2> DEFINE F == Flagged(S)
             G == Settled
  <2>1. F \in SUBSET World /\ G \in SUBSET World
    BY <1>5
  <2>2. "hmacKey" \notin S => Takes(F, t, G)
    BY <1>4
  <2> HIDE DEF F, G
  <2>3. "hmacKey" \notin S => Leads(F, << t >>, G)
    BY <2>1, <2>2, LeadsOne
  <2> QED BY <2>3 DEF F, G
<1> QED BY <1>6, <1>7 DEF t

\* The wrappers that make a key as their last step.
LEMMA KeyMakers ==
    ASSUME NEW S \in SUBSET Own, "key" \notin S,
           NEW script \in {wolfTPM2_CreateEK, wolfTPM2_CreateSRK, wolfTPM2_ECDHGenKey,
                           wolfTPM2_LoadRsaPublicKey, wolfTPM2_LoadEccPublicKey,
                           wolfTPM2_CreateLoadedKey("key"),
                           wolfTPM2_CreateKey("key") \o wolfTPM2_LoadKey("key")}
    PROVE  Leads(Books(S, Own), script, Settled)
<1> DEFINE Q == Harmless(S, Own)
<1>1. Own \in SUBSET Structures /\ {} \in SUBSET Structures /\ "key" \in Structures \ S
      /\ "key" \in {"key", "hash"} /\ "key" \in {"key", "temporary"}
      /\ "temporary" \in {"key", "temporary"} /\ {"key"} \in SUBSET Structures
  BY DEF Own, Structures
<1>2. /\ Bare \subseteq Q /\ Clear("key") \in Q
  BY <1>1, PlainMembers
<1>3. wolfTPM2_SetAuthHandle("parent") \in Q /\ wolfTPM2_SetAuthPassword \in Q
  <2>1. wolfTPM2_SetAuthHandle("parent") \in Bare /\ wolfTPM2_SetAuthPassword \in Bare
    BY PlainSteps
  <2> HIDE DEF Q
  <2> QED BY <1>2, <2>1
<1>4. wolfTPM2_CreateKey("key") \in Seq(Q)
  BY <1>1, PlainWrappers
<1>5. \A a \in Seq(Q) : \A c : \A kind \in {"key", "temporary"} :
        /\ Leads(Books(S, Own), << Make(c, {}, kind, "key") >>, Settled)
        /\ Leads(Books(S, Own), a \o << Make(c, {}, kind, "key") >>, Settled)
  BY <1>1, LastMakes
<1> HIDE DEF Q
<1>6. << >> \in Seq(Q)
  OBVIOUS
<1>7. \A a \in Q, b \in Q : << a, b >> \in Seq(Q)
  OBVIOUS
<1>8. \A a \in Q : << a >> \in Seq(Q)
  OBVIOUS
<1>9. \A kind \in {"key", "temporary"} :
        Leads(Books(S, Own), wolfTPM2_CreatePrimaryKey(kind), Settled)
  <2>1. << wolfTPM2_SetAuthPassword, Clear("key") >> \in Seq(Q)
    BY <1>2, <1>3, <1>7
  <2>2. \A kind : wolfTPM2_CreatePrimaryKey(kind)
                    = << wolfTPM2_SetAuthPassword, Clear("key") >>
                        \o << Make("CreatePrimary", {}, kind, "key") >>
    <3> TAKE kind
    <3>1. PICK a, b, c : /\ a = wolfTPM2_SetAuthPassword /\ b = Clear("key")
                         /\ c = Make("CreatePrimary", {}, kind, "key")
      OBVIOUS
    <3>2. << a, b, c >> = << a, b >> \o << c >>
      BY ONLY Pairs
    <3> QED BY <3>1, <3>2 DEF wolfTPM2_CreatePrimaryKey
  <2> QED BY <1>5, <2>1, <2>2
<1>10. Leads(Books(S, Own), wolfTPM2_CreateLoadedKey("key"), Settled)
  <2>1. << Clear("key"), wolfTPM2_SetAuthHandle("parent") >> \in Seq(Q)
    BY <1>2, <1>3, <1>7
  <2>2. wolfTPM2_CreateLoadedKey("key")
          = << Clear("key"), wolfTPM2_SetAuthHandle("parent") >>
              \o << Make("CreateLoaded", {}, "key", "key") >>
    <3>1. PICK a, b, c : /\ a = Clear("key") /\ b = wolfTPM2_SetAuthHandle("parent")
                         /\ c = Make("CreateLoaded", {}, "key", "key")
      OBVIOUS
    <3>2. << a, b, c >> = << a, b >> \o << c >>
      BY ONLY Pairs
    <3> QED BY <3>1, <3>2 DEF wolfTPM2_CreateLoadedKey
  <2> QED BY <1>1, <1>5, <2>1, <2>2
<1>11. Leads(Books(S, Own), wolfTPM2_LoadPublicKey, Settled)
  BY <1>1, <1>5, <1>6 DEF wolfTPM2_LoadPublicKey, wolfTPM2_LoadPublicKey_ex
<1>12. Leads(Books(S, Own), wolfTPM2_LoadKey("key"), Settled)
  <2>1. << wolfTPM2_SetAuthHandle("parent") >> \in Seq(Q)
    BY <1>3, <1>8
  <2>2. wolfTPM2_LoadKey("key")
          = << wolfTPM2_SetAuthHandle("parent") >> \o << Make("Load", {}, "key", "key") >>
    BY Pairs DEF wolfTPM2_LoadKey
  <2> QED BY <1>1, <1>5, <2>1, <2>2
<1>13. Leads(Books(S, Own), wolfTPM2_CreateKey("key") \o wolfTPM2_LoadKey("key"), Settled)
  <2>1. wolfTPM2_LoadKey("key") \in Seq(StepSet)
    <3>1. wolfTPM2_SetAuthHandle("parent") \in StepSet
      BY PlainSteps DEF Bare
    <3>2. Make("Load", {}, "key", "key") \in StepSet
      BY <1>1, MakerFields DEF Making
    <3>3. \A a \in StepSet, b \in StepSet : << a, b >> \in Seq(StepSet)
      OBVIOUS
    <3> QED BY <3>1, <3>2, <3>3 DEF wolfTPM2_LoadKey
  <2>2. Settled \in SUBSET World
    BY SettledIsWorld
  <2>3. wolfTPM2_CreateKey("key") \in Seq(Harmless(S, Own))
    BY <1>4 DEF Q
  <2> QED BY <1>1, <1>12, <2>1, <2>2, <2>3, PlainThen
<1> QED BY <1>1, <1>9, <1>10, <1>11, <1>13
       DEF wolfTPM2_CreateEK, wolfTPM2_CreateSRK, wolfTPM2_ECDHGenKey, wolfTPM2_LoadRsaPublicKey,
           wolfTPM2_LoadRsaPublicKey_ex, wolfTPM2_LoadEccPublicKey

\* Scripts one after the other.
LEMMA LeadsJoined ==
    ASSUME NEW P \in SUBSET World, NEW Q, NEW R \in SUBSET World,
           NEW a \in Seq(StepSet), NEW b \in Seq(StepSet), Leads(P, a, Q), Leads(Q, b, R)
    PROVE  Leads(P, a \o b, R) /\ a \o b \in Seq(StepSet)
<1>1. Leads(P, a \o b, R)
  BY LeadsThen
<1>2. a \o b \in Seq(StepSet)
  OBVIOUS
<1> QED BY <1>1, <1>2

\* The wrappers that start a hash.
LEMMA HashMakers ==
    ASSUME NEW S \in SUBSET Own, "hash" \notin S
    PROVE  /\ Leads(Books(S, Own), wolfTPM2_HashStart, Settled)
           /\ Leads(Books(S, Own), wolfTPM2_HmacStart(TRUE), Settled)
           /\ "hmacKey" \notin S => Leads(Books(S, Own), wolfTPM2_HmacStart(FALSE), Settled)
<1> DEFINE Q == Harmless(S, Own)
           h == wolfTPM2_SetAuthHandle("hash")
           m == Make("HMAC_Start", {"hmacKey"}, "temporary", "hash")
           k == Make("Load", {}, "key", "hmacKey")
           p == << Clear("hmacKey"), wolfTPM2_SetAuthHandle("parent"), Run("Create", {}) >>
           f == Step("keyLoaded")
           B == Books(S, Own)
           K == Keyed(S)
           F == Flagged(S)
           E == Settled
<1>1. Own \in SUBSET Structures /\ {} \in SUBSET Structures /\ "hmacKey" \in Structures
      /\ "hash" \in Structures /\ "hash" \in {"key", "hash"} /\ "temporary" \in {"key", "temporary"}
      /\ {"hmacKey"} \in SUBSET Structures /\ "temporary" \in Making /\ "key" \in Making
  BY DEF Own, Structures, Making
<1>2. Bare \subseteq Q /\ ("hmacKey" \notin S => Clear("hmacKey") \in Q)
  BY <1>1, PlainMembers
<1>3. h \in Bare /\ wolfTPM2_SetAuthHandle("parent") \in Bare /\ Run("Create", {}) \in Bare
  BY <1>1, PlainSteps
<1>4. \A a \in Seq(Q) : \A c : \A uses \in SUBSET Structures : \A kind \in {"key", "temporary"} :
        /\ Leads(B, << Make(c, uses, kind, "hash") >>, E)
        /\ Leads(B, a \o << Make(c, uses, kind, "hash") >>, E)
        /\ "hmacKey" \notin S => Leads(F, << Make(c, uses, kind, "hash") >>, E)
  BY <1>1, LastMakes
<1>5. << >> \in Seq(Q) /\ << h >> \in Seq(Q)
  <2> HIDE DEF Q, h
  <2>1. \A a \in Q : << a >> \in Seq(Q)
    OBVIOUS
  <2> QED BY <1>2, <1>3, <2>1
<1>6. Leads(B, wolfTPM2_HashStart, E)
  BY <1>1, <1>4, <1>5 DEF wolfTPM2_HashStart
<1>7. << h, m >> = << h >> \o << m >>
  BY Pairs
<1>8. << >> \o << h, m >> = << h, m >> /\ wolfTPM2_HmacStart(TRUE) = << >> \o << h, m >>
  <2>1. wolfTPM2_HmacStart(TRUE) = << >> \o << h, m >>
    BY DEF wolfTPM2_HmacStart
  <2>2. \A s \in Seq({h, m}) : << >> \o s = s
    BY ConcatEmptySeq
  <2>3. << h, m >> \in Seq({h, m})
    OBVIOUS
  <2> QED BY <2>1, <2>2, <2>3
<1>9. Leads(B, wolfTPM2_HmacStart(TRUE), E)
  <2>1. Leads(B, << h >> \o << m >>, E)
    BY <1>1, <1>4, <1>5
  <2> QED BY <1>7, <1>8, <2>1
<1>10. ASSUME "hmacKey" \notin S
       PROVE  Leads(B, wolfTPM2_HmacStart(FALSE), E)
  <2>1. k \in Sending /\ k \in StepSet /\ k.op = "command" /\ k.into = "hmacKey"
        /\ k.makes = "key" /\ ~k.always
    BY <1>1, MakerFields
  <2>2. m \in StepSet
    BY <1>1, MakerFields
  <2>3. h \in Idle /\ h.op = "handle" /\ h \in StepSet
    <3>1. h.op = "handle" /\ ~h.always
      BY DEF wolfTPM2_SetAuthHandle, Step
    <3>2. h \in StepSet
      BY <1>3 DEF Bare
    <3> QED BY <3>1, <3>2 DEF Idle
  <2>4. f \in StepSet
    BY StepFields
  <2>5. B \in SUBSET World /\ K \in SUBSET World /\ F \in SUBSET World /\ E \in SUBSET World
    BY <1>1, SettledIsWorld DEF Books, Debt, Owed
  <2>6. Takes(F, h, F) /\ Takes(K, f, F)
    BY <1>10, <2>3, FlaggedTakes, FlagTakes
  <2>7. Takes(B, k, K)
    <3> HIDE DEF k
    <3> QED BY <1>10, <2>1, KeyTakes
  <2>8. Leads(F, << m >>, E)
    BY <1>1, <1>4, <1>5, <1>10
  <2>9. p \in Seq(Q)
    <3>1. Clear("hmacKey") \in Q /\ wolfTPM2_SetAuthHandle("parent") \in Q /\ Run("Create", {}) \in Q
      BY <1>2, <1>3, <1>10
    <3> HIDE DEF Q
    <3> QED BY <3>1
  <2>10. wolfTPM2_LoadKeyedHashKey("hmacKey") = p \o << k >>
    BY Pairs DEF wolfTPM2_LoadKeyedHashKey
  <2>11. Leads(B, p \o << k >>, K)
    <3> HIDE DEF p, k
    <3> QED BY <1>1, <2>1, <2>5, <2>7, <2>9, ThenOne
  <2>12. p \o << k >> \in Seq(StepSet)
    <3>1. Clear("hmacKey") \in StepSet /\ wolfTPM2_SetAuthHandle("parent") \in StepSet
          /\ Run("Create", {}) \in StepSet
      BY <1>2, <1>3, <1>10 DEF Harmless
    <3>2. p \in Seq(StepSet)
      BY <3>1
    <3> HIDE DEF p, k
    <3> QED BY <2>1, <3>2
  <2> DEFINE l == wolfTPM2_LoadKeyedHashKey("hmacKey")
  <2>13. Leads(B, l, K) /\ l \in Seq(StepSet)
    BY <2>10, <2>11, <2>12
  <2>14. << f >> \in Seq(StepSet) /\ << h >> \in Seq(StepSet) /\ << m >> \in Seq(StepSet)
    BY <2>2, <2>3, <2>4
  <2> HIDE DEF B, K, F, E, l, f, h, m
  <2>15. Leads(K, << f >>, F) /\ Leads(F, << h >>, F)
    BY ONLY <2>5, <2>6, LeadsOne
  <2>16. Leads(B, l \o << f >>, F) /\ l \o << f >> \in Seq(StepSet)
    BY <2>5, <2>13, <2>14, <2>15, LeadsJoined
  <2>17. Leads(F, << h >> \o << m >>, E) /\ << h >> \o << m >> \in Seq(StepSet)
    BY <2>5, <2>8, <2>14, <2>15, LeadsJoined
  <2>18. Leads(B, (l \o << f >>) \o (<< h >> \o << m >>), E)
    BY <2>5, <2>16, <2>17, LeadsJoined
  <2>19. wolfTPM2_HmacStart(FALSE) = (l \o << f >>) \o << h, m >>
    BY DEF wolfTPM2_HmacStart, l, f, h, m
  <2> QED BY <1>7, <2>18, <2>19
<1> QED BY <1>6, <1>9, <1>10

\* Those that unload the key and give the structure another handle.
LEMMA Droppers ==
    ASSUME NEW S \in SUBSET Own, NEW script \in {wolfTPM2_NVStoreKey, wolfTPM2_ChangeAuthKey}
    PROVE  Leads(Books(S, Own), script, Settled)
<1> DEFINE Q == Harmless(S, Own)
           R == Harmless(S \ {"key"}, Own)
           B == Books(S, Own)
           D == Dropped(S, Own, "key")
           E == Settled
           u == Ignoring(wolfTPM2_UnloadHandle("key"))
           m == Make("Load", {}, "key", "key")
           e == [Run("EvictControl", {"key"}) EXCEPT !.makes = "persist"]
           w == wolfTPM2_SetAuthPassword
           h == wolfTPM2_SetAuthHandle("parent")
           g == wolfTPM2_SetAuthHandle("key")
           o == Run("ObjectChangeAuth", {"key"})
           v == Put(Persistent, "key")
<1>1. /\ Own \in SUBSET Structures /\ {} \in SUBSET Structures /\ "key" \in Structures
      /\ {"key"} \in SUBSET Structures /\ "key" \in Making /\ "key" \in Own /\ "key" # "hmacKey"
      /\ S \in SUBSET Structures /\ S \ {"key"} \in SUBSET Own
  BY DEF Own, Structures, Making
<1>2. w \in Bare /\ h \in Bare /\ g \in Bare /\ o \in Bare /\ e \in Bare
  BY <1>1, PlainSteps
<1>3. Bare \subseteq Q /\ Bare \subseteq R /\ v \in R
  BY <1>1, PlainMembers
<1>4. u \in StepSet /\ u.op = "unload" /\ u.into = "key" /\ u.uses = {"key"} /\ u.makes = "none"
      /\ ~u.always
  <2> DEFINE r == wolfTPM2_UnloadHandle("key")
  <2>1. r \in StepSet /\ r.op = "unload" /\ r.uses = {"key"} /\ r.into = "key"
        /\ r.makes = "none" /\ ~r.always
    BY <1>1, UnloadFields
  <2> HIDE DEF r
  <2>2. LET t == Ignoring(r)
        IN /\ t \in StepSet /\ t.op = r.op /\ t.uses = r.uses /\ t.into = r.into
           /\ t.from = r.from /\ t.makes = r.makes /\ t.index = r.index
           /\ t.value = r.value /\ t.always = r.always
    BY ONLY <2>1, IgnoringFields
  <2>3. u = Ignoring(r)
    BY DEF r
  <2> HIDE DEF u
  <2> QED BY <2>1, <2>2, <2>3
<1>5. m \in Sending /\ m \in StepSet /\ m.op = "command" /\ m.into = "key" /\ m.makes = "key"
      /\ ~m.always
  BY <1>1, MakerFields
<1>6. ~h.always /\ ~v.always
  BY DEF wolfTPM2_SetAuthHandle, Put, Step
<1>7. B \in SUBSET World /\ D \in SUBSET World /\ E \in SUBSET World
  BY <1>1, SettledIsWorld, DroppedTakes DEF Books, Debt, Owed
<1>8. Takes(B, u, D)
  <2> HIDE DEF u
  <2> QED BY <1>1, <1>4, DroppedTakes
<1>9. Takes(D, h, D) /\ Takes(D, v, D)
  <2> HIDE DEF h, v
  <2> QED BY <1>1, <1>2, <1>3, <1>6, DroppedTakes
<1>10. D \subseteq E /\ Takes(D, m, E)
  <2> HIDE DEF m
  <2> QED BY <1>1, <1>5, DroppedSettles
<1>11. Takes(D, v, E)
  BY <1>9, <1>10 DEF Takes
<1>12. << w, e >> \in Seq(Q) /\ << g, o >> \in Seq(Q)
  <2>1. w \in Q /\ e \in Q /\ g \in Q /\ o \in Q
    BY <1>2, <1>3
  <2> HIDE DEF Q, w, e, g, o
  <2> QED BY <2>1
<1>13. wolfTPM2_NVStoreKey = << w, e, u, v >> /\ wolfTPM2_ChangeAuthKey = << g, o, u, h, m >>
  BY DEF wolfTPM2_NVStoreKey, wolfTPM2_ChangeAuthKey
<1>14. /\ w \in StepSet /\ e \in StepSet /\ g \in StepSet /\ o \in StepSet /\ h \in StepSet
       /\ v \in StepSet
  BY <1>2, <1>3 DEF Bare, Harmless
<1> HIDE DEF u, m, e, w, h, g, o, v, B, D, E
<1>15. Leads(B, << w, e >>, B) /\ Leads(B, << g, o >>, B)
  <2>1. \A s \in Seq(Q) : Leads(Books(S, Own), s, Books(S, Own))
    BY <1>1, PlainTakes
  <2> HIDE DEF Q
  <2> QED BY <1>12, <2>1 DEF B
<1>16. Leads(B, << u >>, D) /\ Leads(D, << v >>, E) /\ Leads(D, << h >>, D) /\ Leads(D, << m >>, E)
  BY ONLY <1>7, <1>8, <1>9, <1>10, <1>11, LeadsOne
<1>17. /\ << u >> \in Seq(StepSet) /\ << v >> \in Seq(StepSet) /\ << h >> \in Seq(StepSet)
       /\ << m >> \in Seq(StepSet) /\ << w, e >> \in Seq(StepSet) /\ << g, o >> \in Seq(StepSet)
  BY <1>4, <1>5, <1>14
<1>18. Leads(B, << w, e >> \o << u >>, D) /\ << w, e >> \o << u >> \in Seq(StepSet)
  BY <1>7, <1>15, <1>16, <1>17, LeadsJoined
<1>19. Leads(B, (<< w, e >> \o << u >>) \o << v >>, E)
  BY <1>7, <1>16, <1>17, <1>18, LeadsJoined
<1>20. << w, e, u, v >> = (<< w, e >> \o << u >>) \o << v >>
  BY Pairs
<1>21. Leads(B, << g, o >> \o << u >>, D) /\ << g, o >> \o << u >> \in Seq(StepSet)
  BY <1>7, <1>15, <1>16, <1>17, LeadsJoined
<1>22. Leads(D, << h >> \o << m >>, E) /\ << h >> \o << m >> \in Seq(StepSet)
  BY <1>7, <1>16, <1>17, LeadsJoined
<1>23. Leads(B, (<< g, o >> \o << u >>) \o (<< h >> \o << m >>), E)
  BY <1>7, <1>21, <1>22, LeadsJoined
<1>24. << g, o, u, h, m >> = (<< g, o >> \o << u >>) \o (<< h >> \o << m >>)
  <2> DEFINE T == {g, o, u, h, m}
             x == << g, o, u, h, m >>
             y == << g, o, u >> \o << h, m >>
  <2>1. << g, o, u >> \in Seq(T) /\ << h, m >> \in Seq(T) /\ x \in Seq(T)
    OBVIOUS
  <2>2. y \in Seq(T) /\ Len(x) = 5 /\ Len(y) = 5
    BY <2>1
  <2>3. /\ x[1] = g /\ x[2] = o /\ x[3] = u /\ x[4] = h /\ x[5] = m
        /\ y[1] = g /\ y[2] = o /\ y[3] = u /\ y[4] = h /\ y[5] = m
    BY <2>1
  <2>4. \A n \in 1 .. 5 : n = 1 \/ n = 2 \/ n = 3 \/ n = 4 \/ n = 5
    OBVIOUS
  <2> HIDE DEF x, y, T
  <2>5. Len(x) = Len(y) /\ \A n \in 1 .. Len(x) : x[n] = y[n]
    BY <2>2, <2>3, <2>4
  <2>6. x = y
    BY <2>1, <2>2, <2>5, SeqEqual
  <2>7. << g, o, u >> = << g, o >> \o << u >>
    BY Pairs
  <2>8. << h, m >> = << h >> \o << m >>
    BY Pairs
  <2> QED BY <2>6, <2>7, <2>8 DEF x, y
<1> QED BY <1>13, <1>19, <1>20, <1>23, <1>24 DEF B, E

\* The wrappers that complete a hash: the command that ends it is sent, since nothing can have
\* failed before.
LEMMA Finishers ==
    ASSUME NEW S \in SUBSET Own,
           NEW script \in {wolfTPM2_HashFinish, wolfTPM2_HmacFinish(TRUE),
                           wolfTPM2_HmacFinish(FALSE)}
    PROVE  Leads({w \in Books(S, Own) : w.ok}, script, Settled)
<1> DEFINE P == {w \in Books(S, Own) : w.ok}
           T == S \ {"hash"}
           U == T \ {"hmacKey"}
           B == Books(T, Own)
           C == Books(U, Own)
           E == Settled
           h == wolfTPM2_SetAuthHandle("hash")
           e == [Run("SequenceComplete", {"hash"}) EXCEPT !.makes = "end", !.from = "hash"]
           a == Always(Clear("hash"))
           u == Always(Ignoring(wolfTPM2_UnloadHandle("hmacKey")))
           k == Always(Step("keyUnloaded"))
<1>1. /\ Own \in SUBSET Structures /\ "hash" \in Structures /\ "hmacKey" \in Structures
      /\ {"hash"} \in SUBSET Structures /\ S \in SUBSET Structures
      /\ T \in SUBSET Own /\ U \in SUBSET Own /\ "hash" \in Structures \ T
      /\ T \in SUBSET Structures
  BY DEF Own, Structures
<1>2. h \in Bare
  BY <1>1, PlainSteps
<1>3. Bare \subseteq Harmless(S, Own) /\ e \in Harmless(S, Own)
  BY <1>1, PlainMembers
<1>4. a \in Harmless(T, Own)
  <2> HIDE DEF T, a
  <2>1. \A s \in Structures \ T : Always(Clear(s)) \in Harmless(T, Own)
    BY <1>1, PlainMembers
  <2> QED BY <1>1, <2>1 DEF a
<1>5. k \in Harmless(U, Own)
  <2> HIDE DEF U, k
  <2>1. "hmacKey" \notin U => Always(Step("keyUnloaded")) \in Harmless(U, Own)
    BY <1>1, PlainMembers
  <2> QED BY <2>1 DEF U, k
<1>6. P \in SUBSET World /\ B \in SUBSET World /\ C \in SUBSET World /\ E \in SUBSET World
  BY SettledIsWorld DEF Books, Debt, Owed
<1>7. Takes(P, h, P)
  <2> SUFFICES ASSUME NEW w \in P, NEW how PROVE Turn(w, h, how) \in P
    BY DEF Takes
  <2>1. PICK v : v = Do(w, h, how)
    OBVIOUS
  <2>2. v \in Books(S, Own)
    <3>1. h \in Harmless(S, Own) /\ w \in Books(S, Own)
      BY <1>2, <1>3
    <3> HIDE DEF h
    <3> QED BY <1>1, <2>1, <3>1, PlainKeeps
  <2>3. h.op = "handle" /\ h \in StepSet
    BY <1>2 DEF Bare, wolfTPM2_SetAuthHandle, Step
  <2>4. v.ok = w.ok
    <3>1. w \in World
      BY <1>6
    <3> HIDE DEF h
    <3>2. h.op \in {"slot", "handle"}
      BY <2>3
    <3>3. Alike(w, v, {"slot"})
      BY <2>1, <2>3, <3>1, <3>2, SlotFacts
    <3> QED BY <3>3 DEF Alike
  <2> QED BY <2>1, <2>2, <2>4 DEF Turn
<1>8. Takes(P, e, B)
  <2> SUFFICES ASSUME NEW w \in P, NEW how PROVE Turn(w, e, how) \in B
    BY DEF Takes
  <2>1. e \in StepSet /\ e.op = "command" /\ e.uses = {"hash"} /\ e.into = "none" /\ e.makes = "end"
    <3>1. PICK r : r = Run("SequenceComplete", {"hash"})
      OBVIOUS
    <3>2. r \in StepSet /\ r.op = "command" /\ r.uses = {"hash"} /\ r.into = "none"
      BY <1>1, <3>1, RunFields
    <3>3. e = [r EXCEPT !.makes = "end", !.from = "hash"]
      BY <3>1
    <3>4. e \in StepSet
      BY <1>3 DEF Harmless
    <3> HIDE DEF e
    <3>5. e.op = "command" /\ e.uses = {"hash"} /\ e.into = "none" /\ e.makes = "end"
      BY <3>2, <3>3 DEF StepSet
    <3> QED BY <3>4, <3>5
  <2> HIDE DEF e
  <2>2. w \in Books(S, Own) /\ w.ok
    OBVIOUS
  <2>3. Do(w, e, how) \in Books(S \ {"hash"}, Own)
    BY <1>1, <2>1, <2>2, DropsOne
  <2> QED BY <2>2, <2>3 DEF Turn
<1>9. Takes(B, a, B)
  <2> HIDE DEF T, a
  <2> QED BY <1>1, <1>4, PlainTakes
<1>10. Takes(B, u, C)
  <2> SUFFICES ASSUME NEW w \in B, NEW how PROVE Turn(w, u, how) \in C
    BY DEF Takes
  <2>1. /\ u \in StepSet /\ u.op = "unload" /\ u.uses = {"hmacKey"} /\ u.into = "hmacKey"
        /\ u.makes = "none" /\ u.always
    <3> DEFINE r == wolfTPM2_UnloadHandle("hmacKey")
               g == Ignoring(r)
    <3>1. r \in StepSet /\ r.op = "unload" /\ r.uses = {"hmacKey"} /\ r.into = "hmacKey"
          /\ r.makes = "none"
      BY <1>1, UnloadFields
    <3>2. g \in StepSet /\ g.op = "unload" /\ g.uses = {"hmacKey"} /\ g.into = "hmacKey"
          /\ g.makes = "none"
      <4> HIDE DEF r
      <4> QED BY <3>1, IgnoringFields
    <3> HIDE DEF r, g
    <3>3. /\ Always(g) \in StepSet /\ Always(g).op = "unload" /\ Always(g).uses = {"hmacKey"}
          /\ Always(g).into = "hmacKey" /\ Always(g).makes = "none" /\ Always(g).always
      BY <3>2, AlwaysFields
    <3> QED BY <3>3 DEF r, g
  <2> HIDE DEF u, T
  <2>2. w \in Books(T, Own)
    OBVIOUS
  <2>3. Do(w, u, how) \in Books(T \ {"hmacKey"}, Own)
    BY <1>1, <2>1, <2>2, DropsOne
  <2> QED BY <2>1, <2>3 DEF Turn
<1>11. Takes(C, k, C)
  <2>1. U \in SUBSET Structures
    BY <1>1
  <2> HIDE DEF U, k
  <2> QED BY <1>1, <1>5, <2>1, PlainTakes
<1>12. B \subseteq E /\ C \subseteq E
  <2> HIDE DEF T, U
  <2> QED BY <1>1, BooksSettle
<1>13. wolfTPM2_HashFinish = << h, e, a >>
  BY DEF wolfTPM2_HashFinish
<1>14. << h, e, a >> \in Seq(StepSet) /\ << u, k >> \in Seq(StepSet)
  <2>1. u \in StepSet
    BY <1>1, PlainMembers DEF Harmless
  <2>2. h \in StepSet /\ e \in StepSet /\ a \in StepSet /\ k \in StepSet
    BY <1>2, <1>3, <1>4, <1>5 DEF Bare, Harmless
  <2> HIDE DEF h, e, a, u, k
  <2> QED BY <2>1, <2>2
<1>15. << u >> \in Seq(StepSet) /\ << k >> \in Seq(StepSet)
  BY <1>14
<1> HIDE DEF P, B, C, E, h, e, a, u, k
<1>16. Leads(P, << h, e, a >>, B)
  BY ONLY <1>6, <1>7, <1>8, <1>9, LeadsThree
<1>17. Leads(B, << u >>, C) /\ Leads(C, << k >>, C)
  BY ONLY <1>6, <1>10, <1>11, LeadsOne
<1>18. Leads(B, << u >> \o << k >>, C)
  BY <1>6, <1>15, <1>17, LeadsJoined
<1>19. << u, k >> = << u >> \o << k >>
  BY Pairs
<1>20. Leads(P, << h, e, a >> \o << u, k >>, C)
  BY <1>6, <1>14, <1>16, <1>18, <1>19, LeadsJoined
<1>21. << h, e, a >> \o << >> = << h, e, a >>
  BY <1>14, ConcatEmptySeq
<1>22. /\ wolfTPM2_HmacFinish(TRUE) = << h, e, a >> \o << >>
       /\ wolfTPM2_HmacFinish(FALSE) = << h, e, a >> \o << u, k >>
  BY <1>13 DEF wolfTPM2_HmacFinish, u, k
<1>23. P \in SUBSET P
  OBVIOUS
<1>24. Leads(P, << h, e, a >>, E) /\ Leads(P, << h, e, a >> \o << u, k >>, E)
  BY ONLY <1>12, <1>16, <1>20, <1>23, LeadsTo
<1> QED BY <1>13, <1>21, <1>22, <1>24 DEF P, E

\* What is made in the wrapper's own structure, and handed over from there.
LEMMA LocalTakes ==
    ASSUME NEW S \in SUBSET Own, handle["local"] = None
    PROVE  LET P == Books(S, Structures) \cap Unpoliced
           IN /\ \A c : \A kind \in Making : Takes(P, Make(c, {}, kind, "local"), Passing(S))
              /\ \A s \in {"key", "session"} \ S :
                   /\ Takes(Passing(S), Copy("local", s), Settled \cap Unpoliced)
                   /\ Takes(Passing(S), Always(Copy("local", s)), Settled \cap Unpoliced)
<1> DEFINE P == Books(S, Structures) \cap Unpoliced
<1>1. ASSUME NEW c, NEW kind \in Making
      PROVE  Takes(P, Make(c, {}, kind, "local"), Passing(S))
  <2> DEFINE t == Make(c, {}, kind, "local")
  <2>1. "local" \in Structures /\ {} \in SUBSET Structures
    BY DEF Structures
  <2>2. /\ t \in Sending /\ t.op = "command" /\ t.into = "local" /\ t.makes = kind /\ ~t.always
    BY <2>1, MakerFields
  <2> HIDE DEF t
  <2>3. Takes(P, t, Passing(S))
    BY <2>2, MakePasses
  <2> QED BY <2>3 DEF t
<1>2. ASSUME NEW s \in {"key", "session"} \ S
      PROVE  /\ Takes(Passing(S), Copy("local", s), Settled \cap Unpoliced)
             /\ Takes(Passing(S), Always(Copy("local", s)), Settled \cap Unpoliced)
  <2> DEFINE p == Copy("local", s)
             a == Always(p)
  <2>1. s \in Own \ S /\ s # "hmacKey" /\ s \in Structures /\ "local" \in Structures /\ None \in Int
    BY DEF Own, Structures, None
  <2>2. p \in StepSet /\ p.op = "copy" /\ p.from = "local" /\ p.into = s
    BY <2>1, HandFields
  <2>3. a \in StepSet /\ a.op = "copy" /\ a.from = "local" /\ a.into = s
    <3> HIDE DEF p
    <3> QED BY <2>2, AlwaysFields
  <2> HIDE DEF p, a
  <2>4. Takes(Passing(S), p, Settled \cap Unpoliced)
    BY <2>1, <2>2, CopySettles
  <2>5. Takes(Passing(S), a, Settled \cap Unpoliced)
    BY <2>1, <2>3, CopySettles
  <2> QED BY <2>4, <2>5 DEF p, a
<1> QED BY <1>1, <1>2

\* The wrappers that load a key into their own structure.
LEMMA KeyPassers ==
    ASSUME NEW S \in SUBSET Own, "key" \notin S, handle["local"] = None, handle["key"] \notin Limited,
           NEW script \in {wolfTPM2_CreateAndLoadAIK, wolfTPM2_LoadPrivateKey,
                           wolfTPM2_LoadRsaPrivateKey, wolfTPM2_LoadEccPrivateKey,
                           wolfTPM2_ReadPublicKey}
    PROVE  Leads(Books(S, Structures), script, Settled)
<1> DEFINE Q == Harmless(S, Structures)
           P == Books(S, Structures)
           U == P \cap Unpoliced
           G == Passing(S)
           E == Settled
           h == wolfTPM2_SetAuthHandle("parent")
           m == Make("Load", {}, "key", "local")
           a == Always(Copy("local", "key"))
           c == Copy("key", "local")
           l == wolfTPM2_LoadKey("local")
<1>1. /\ S \in SUBSET Structures /\ Structures \in SUBSET Structures /\ "local" \in Structures \ S
      /\ "key" \in Structures \ S /\ {} \in SUBSET Structures /\ {"local"} \in SUBSET Structures
      /\ "key" \in Making /\ "key" \in {"key", "session"} \ S
      /\ None \notin Limited /\ Own \subseteq Structures
  BY HandleFactsOfTpm DEF Own, Structures, Making, Limited, HandleIds
<1>2. /\ h \in Bare /\ Error \in Bare /\ Ignoring(GetNonce) \in Bare
      /\ \A x : Run(x, {}) \in Bare /\ Run(x, {"local"}) \in Bare
  BY <1>1, PlainSteps
<1>3. /\ Bare \subseteq Q
      /\ \A s \in Structures \ S :
           /\ Clear(s) \in Q /\ Put(Persistent, s) \in Q
           /\ \A q \in Structures : handle[q] \notin Limited => Copy(q, s) \in Q /\ Always(Copy(q, s)) \in Q
  BY <1>1, PlainMembers
<1>4. Clear("local") \in Q /\ Put(Persistent, "local") \in Q /\ c \in Q /\ Copy("local", "key") \in Q
      /\ a \in Q
  <2> HIDE DEF Q
  <2> QED BY <1>1, <1>3
<1>5. P \in SUBSET World /\ U \in SUBSET World /\ G \in SUBSET World /\ E \in SUBSET World
  BY <1>1, SettledIsWorld, SlotGivenUp DEF Books, Debt, Owed
<1>6. Takes(P, h, U)
  BY <1>1, SlotGivenUp
<1>7. Takes(U, m, G) /\ Takes(G, a, E)
  <2>1. Takes(U, m, G) /\ Takes(G, a, Settled \cap Unpoliced)
    BY <1>1, LocalTakes
  <2> QED BY <2>1 DEF Takes
<1>8. h \in StepSet /\ m \in StepSet /\ a \in StepSet
  <2>1. m \in StepSet
    BY <1>1, MakerFields
  <2> QED BY <1>2, <1>4, <2>1 DEF Bare, Harmless
<1>9. \A s \in Seq(Q) : Leads(P, s, P)
  BY <1>1, PlainTakes
<1>10. P \subseteq E
  <2>1. S \in SUBSET Own /\ Own \subseteq Structures
    BY <1>1
  <2> QED BY ONLY <2>1, BooksSettle DEF P, E
<1>11. l = << h, m >>
  BY DEF wolfTPM2_LoadKey
<1>12. Q \subseteq StepSet
  BY DEF Harmless
<1> HIDE DEF P, Q, U, G, E, h, m, a, c
<1>13. << h >> \in Seq(StepSet) /\ << m >> \in Seq(StepSet) /\ << a >> \in Seq(StepSet)
  BY <1>8
<1>14. Leads(P, << h >>, U) /\ Leads(U, << m >>, G) /\ Leads(G, << a >>, E)
  BY ONLY <1>5, <1>6, <1>7, LeadsOne
<1>15. Leads(P, << h >> \o << m >>, G) /\ << h >> \o << m >> \in Seq(StepSet)
  BY <1>5, <1>13, <1>14, LeadsJoined
<1>16. l = << h >> \o << m >>
  BY <1>11, Pairs
<1> HIDE DEF l
<1>17. Leads(P, l, G) /\ l \in Seq(StepSet)
  BY <1>15, <1>16
<1>18. ASSUME NEW q \in Seq(Q) PROVE Leads(P, (q \o l) \o << a >>, E)
  <2>1. q \in Seq(StepSet)
    BY <1>12
  <2>2. Leads(P, q, P)
    BY <1>9
  <2>3. Leads(P, q \o l, G) /\ q \o l \in Seq(StepSet)
    BY <1>5, <1>17, <2>1, <2>2, LeadsJoined
  <2> QED BY <1>5, <1>13, <1>14, <2>3, LeadsJoined
<1>19. wolfTPM2_CreateKey("local") \in Seq(Q)
  <2>1. h \in Q /\ Run("Create", {}) \in Q /\ Clear("local") \in Q
    BY <1>2, <1>3, <1>4
  <2>2. wolfTPM2_CreateKey("local") = << Clear("local"), h, Run("Create", {}) >>
    BY DEF wolfTPM2_CreateKey, h
  <2>3. \A x \in Q, y \in Q, z \in Q : << x, y, z >> \in Seq(Q)
    OBVIOUS
  <2> QED BY <2>1, <2>2, <2>3
<1>20. Leads(P, wolfTPM2_CreateAndLoadAIK, E)
  <2>1. wolfTPM2_CreateAndLoadAIK = (wolfTPM2_CreateKey("local") \o l) \o << a >>
    BY DEF wolfTPM2_CreateAndLoadAIK, wolfTPM2_CreateAndLoadKey, l, a
  <2> QED BY <1>18, <1>19, <2>1
<1>21. wolfTPM2_ImportPrivateKey \in Seq(Q) /\ << Ignoring(GetNonce) >> \in Seq(Q)
       /\ << c >> \in Seq(Q)
  <2>1. h \in Q /\ Error \in Q /\ Ignoring(GetNonce) \in Q /\ c \in Q
    BY <1>2, <1>3, <1>4
  <2>2. wolfTPM2_ImportPrivateKey = << h, Error >>
    BY DEF wolfTPM2_ImportPrivateKey, h
  <2> QED BY <2>1, <2>2
<1>22. ASSUME NEW x \in Seq(Q) PROVE Leads(P, Imported(x), E)
  <2>1. << c >> \o x \in Seq(Q)
    BY <1>21
  <2>2. Imported(x) = ((<< c >> \o x) \o l) \o << a >>
    BY DEF Imported, c, l, a
  <2> QED BY <1>18, <2>1, <2>2
<1>23. << Ignoring(GetNonce) >> \o wolfTPM2_ImportPrivateKey \in Seq(Q)
  BY <1>21
<1>24. /\ Leads(P, wolfTPM2_LoadPrivateKey, E) /\ Leads(P, wolfTPM2_LoadRsaPrivateKey, E)
       /\ Leads(P, wolfTPM2_LoadEccPrivateKey, E)
  BY <1>21, <1>22, <1>23
     DEF wolfTPM2_LoadPrivateKey, wolfTPM2_LoadRsaPrivateKey, wolfTPM2_LoadRsaPrivateKey_ex,
         wolfTPM2_LoadEccPrivateKey, wolfTPM2_ImportRsaPrivateKey, wolfTPM2_ImportEccPrivateKey,
         wolfTPM2_ImportRsaPrivateKeySeed, wolfTPM2_ImportEccPrivateKeySeed
<1>25. Leads(P, wolfTPM2_ReadPublicKey, E)
  <2>1. Put(Persistent, "local") \in Q /\ Run("ReadPublic", {"local"}) \in Q /\ Copy("local", "key") \in Q
    BY <1>2, <1>3, <1>4
  <2>2. wolfTPM2_ReadPublicKey \in Seq(Q)
    BY <2>1 DEF wolfTPM2_ReadPublicKey
  <2>3. Leads(P, wolfTPM2_ReadPublicKey, P) /\ P \in SUBSET P /\ P \subseteq E
    BY <1>9, <1>10, <2>2
  <2> QED BY ONLY <2>3, LeadsTo
<1> QED BY <1>20, <1>24, <1>25 DEF P, E

\* The wrappers that start a session.
LEMMA SessionPassers ==
    ASSUME NEW S \in SUBSET Own, "session" \notin S, handle["local"] = None
    PROVE  LET P == Books(S, Structures)
           IN /\ \A kind \in {"hmac", "policy"}, salted \in BOOLEAN, bound \in BOOLEAN :
                   Leads(P, wolfTPM2_StartSession(kind, salted, bound), Settled)
              /\ Leads(P, wolfTPM2_CreateAuthSession_EkPolicy, Settled)
<1> DEFINE Q == Harmless(S, Structures)
           P == Books(S, Structures)
           U == P \cap Unpoliced
           G == Passing(S)
           E == Settled
           F == Settled \cap Unpoliced
           clear == Clear("session")
           word == wolfTPM2_SetAuthPassword
           nonce == [GetNonce EXCEPT !.ignore = {"refused"}]
           copy == Copy("local", "session")
           secret == Run("PolicySecret", {"session"})
<1>1. /\ S \in SUBSET Structures /\ Structures \in SUBSET Structures
      /\ "session" \in Structures \ S /\ "session" \in {"key", "session"} \ S
      /\ {} \in SUBSET Structures /\ {"session"} \in SUBSET Structures
      /\ "hmac" \in Making /\ "policy" \in Making /\ Own \subseteq Structures
      /\ "local" \in Structures
  BY DEF Own, Structures, Making
<1>2. /\ GetNonce \in Bare /\ nonce \in Bare /\ Error \in Bare /\ secret \in Bare /\ word \in Bare
      /\ wolfTPM2_SetAuth(0, None) \in Bare
  BY <1>1, PlainSteps
<1>3. Bare \subseteq Q /\ clear \in Q
  <2>1. Bare \subseteq Q /\ \A s \in Structures \ S : Clear(s) \in Q
    BY <1>1, PlainMembers
  <2> HIDE DEF Q
  <2> QED BY <1>1, <2>1
<1>4. /\ P \in SUBSET World /\ U \in SUBSET World /\ G \in SUBSET World /\ E \in SUBSET World
      /\ F \in SUBSET World /\ F \subseteq E
  BY <1>1, SettledIsWorld, SlotGivenUp DEF Books, Debt, Owed
<1>5. Takes(P, clear, P)
  <2> HIDE DEF clear
  <2> QED BY <1>1, <1>3, PlainTakes
<1>6. Takes(P, word, U)
  BY <1>1, SlotGivenUp
<1>7. nonce.op = "command" /\ secret.op = "command"
  <2>1. GetNonce.op = "command" /\ GetNonce \in StepSet /\ secret.op = "command"
    BY <1>1, RunFields DEF GetNonce
  <2> QED BY <2>1 DEF StepSet
<1>8. Takes(U, nonce, U)
  <2> HIDE DEF nonce
  <2> QED BY <1>1, <1>2, <1>7, SlotGivenUp
<1>9. /\ \A kind \in {"hmac", "policy"} : Takes(U, Make("StartAuthSession", {}, kind, "local"), G)
      /\ Takes(G, copy, F)
  <2>1. /\ \A c : \A kind \in Making : Takes(U, Make(c, {}, kind, "local"), G)
        /\ Takes(G, copy, F)
    BY <1>1, LocalTakes
  <2> QED BY <1>1, <2>1
<1>10. Takes(G, Error, G)
  <2>1. Error.op = "error" /\ ~Error.always /\ Error \in StepSet
    BY StepFields DEF Error
  <2>2. Error \in Idle
    BY <2>1 DEF Idle
  <2> QED BY <2>1, <2>2, IdleTakes
<1>11. Takes(F, secret, F)
  <2>1. secret \in StepSet /\ secret.into = "none" /\ secret.makes = "none" /\ ~secret.always
        /\ secret.op = "command"
    BY <1>1, RunFields
  <2> HIDE DEF secret
  <2>2. secret \in Idle
    BY <2>1 DEF Idle
  <2> QED BY <2>2, IdleTakes
<1>12. \A s \in Seq(Q) : Leads(P, s, P)
  BY <1>1, PlainTakes
<1>13. P \subseteq E
  <2>1. S \in SUBSET Own /\ Own \subseteq Structures
    BY <1>1
  <2> QED BY ONLY <2>1, BooksSettle DEF P, E
<1>14. /\ clear \in StepSet /\ word \in StepSet /\ nonce \in StepSet /\ Error \in StepSet
       /\ copy \in StepSet /\ secret \in StepSet
       /\ \A kind \in {"hmac", "policy"} : Make("StartAuthSession", {}, kind, "local") \in StepSet
  <2>1. copy \in StepSet
    <3>1. None \in Int
      BY DEF None
    <3> QED BY <1>1, <3>1, HandFields
  <2>2. \A kind \in {"hmac", "policy"} : Make("StartAuthSession", {}, kind, "local") \in StepSet
    BY <1>1, MakerFields
  <2> QED BY <1>2, <1>3, <2>1, <2>2 DEF Bare, Harmless
<1> HIDE DEF P, Q, U, G, E, F, clear, word, nonce, copy, secret
<1>15. ASSUME NEW kind \in {"hmac", "policy"}, NEW bound \in BOOLEAN
       PROVE  /\ Leads(P, wolfTPM2_StartSession(kind, FALSE, bound), F)
              /\ wolfTPM2_StartSession(kind, FALSE, bound) \in Seq(StepSet)
  <2> DEFINE make == Make("StartAuthSession", {}, kind, "local")
             end == IF bound THEN << Error >> ELSE << >>
             front == << clear, word, nonce >>
             tail == (<< make >> \o end) \o << copy >>
  <2>1. wolfTPM2_StartSession(kind, FALSE, bound) = front \o tail
    BY DEF wolfTPM2_StartSession, clear, nonce, copy, word
  <2>2. make \in StepSet /\ Takes(U, make, G)
    BY <1>9, <1>14
  <2> HIDE DEF make
  <2>3. /\ << make >> \in Seq(StepSet) /\ << copy >> \in Seq(StepSet)
        /\ << Error >> \in Seq(StepSet) /\ front \in Seq(StepSet)
    BY <1>14, <2>2
  <2>4. Leads(P, front, U)
    BY <1>4, <1>5, <1>6, <1>8, LeadsThree
  <2>5. Leads(U, << make >>, G) /\ Leads(G, << copy >>, F) /\ Leads(G, << Error >>, G)
    BY ONLY <1>4, <1>9, <1>10, <2>2, LeadsOne
  <2>6. Leads(U, << make >> \o end, G) /\ << make >> \o end \in Seq(StepSet)
    <3>1. CASE bound
      <4>1. end = << Error >>
        BY <3>1
      <4> HIDE DEF end
      <4> QED BY <1>4, <2>3, <2>5, <4>1, LeadsJoined
    <3>2. CASE ~bound
      <4>1. << make >> \o end = << make >>
        BY <2>3, <3>2
      <4> HIDE DEF end
      <4> QED BY <2>3, <2>5, <4>1
    <3> QED BY <3>1, <3>2
  <2> HIDE DEF end, front
  <2>7. Leads(U, tail, F) /\ tail \in Seq(StepSet)
    BY <1>4, <2>3, <2>5, <2>6, LeadsJoined
  <2> HIDE DEF tail
  <2>8. Leads(P, front \o tail, F) /\ front \o tail \in Seq(StepSet)
    BY <1>4, <2>3, <2>4, <2>7, LeadsJoined
  <2> QED BY <2>1, <2>8
<1>16. \A q : P \in SUBSET P /\ (Leads(P, q, F) => Leads(P, q, E)) /\ (Leads(P, q, P) => Leads(P, q, E))
  <2>1. P \in SUBSET P
    OBVIOUS
  <2>2. ASSUME NEW q, Leads(P, q, F) PROVE Leads(P, q, E)
    BY <1>4, <2>1, <2>2, LeadsTo
  <2>3. ASSUME NEW q, Leads(P, q, P) PROVE Leads(P, q, E)
    BY <1>13, <2>1, <2>3, LeadsTo
  <2> QED BY <2>1, <2>2, <2>3
<1>17. ASSUME NEW kind \in {"hmac", "policy"}, NEW bound \in BOOLEAN
       PROVE  Leads(P, wolfTPM2_StartSession(kind, TRUE, bound), E)
  <2> DEFINE x == wolfTPM2_SetAuth(0, None)
  <2>1. wolfTPM2_StartSession(kind, TRUE, bound) = << clear, x, nonce >> \o << GetNonce, Error >>
    BY DEF wolfTPM2_StartSession, clear, nonce
  <2> HIDE DEF x
  <2>2. clear \in Q /\ x \in Q /\ nonce \in Q /\ GetNonce \in Q /\ Error \in Q
    BY <1>2, <1>3 DEF x
  <2>3. << clear, x, nonce >> \in Seq(Q) /\ << GetNonce, Error >> \in Seq(Q)
    <3>1. \A y \in Q, z \in Q : << y, z >> \in Seq(Q)
      OBVIOUS
    <3>2. \A w \in Q, y \in Q, z \in Q : << w, y, z >> \in Seq(Q)
      OBVIOUS
    <3> QED BY <2>2, <3>1, <3>2
  <2>4. \A a \in Seq(Q), b \in Seq(Q) : a \o b \in Seq(Q)
    OBVIOUS
  <2>5. wolfTPM2_StartSession(kind, TRUE, bound) \in Seq(Q)
    BY <2>1, <2>3, <2>4
  <2> QED BY <1>12, <1>16, <2>5
<1>18. Leads(P, wolfTPM2_CreateAuthSession_EkPolicy, E)
  <2> DEFINE a == wolfTPM2_StartSession("policy", FALSE, FALSE)
  <2>1. Leads(P, a, F) /\ a \in Seq(StepSet)
    BY <1>15
  <2>2. Leads(F, << secret >>, F) /\ << secret >> \in Seq(StepSet)
    <3>1. << secret >> \in Seq(StepSet)
      BY <1>14
    <3>2. Leads(F, << secret >>, F)
      BY ONLY <1>4, <1>11, LeadsOne
    <3> QED BY <3>1, <3>2
  <2>3. wolfTPM2_CreateAuthSession_EkPolicy = a \o << secret >>
    BY DEF wolfTPM2_CreateAuthSession_EkPolicy, secret
  <2> HIDE DEF a
  <2>4. Leads(P, a \o << secret >>, F)
    BY <1>4, <2>1, <2>2, LeadsJoined
  <2> QED BY <1>16, <2>3, <2>4
<1>19. \A kind \in {"hmac", "policy"}, salted \in BOOLEAN, bound \in BOOLEAN :
         Leads(P, wolfTPM2_StartSession(kind, salted, bound), E)
  <2> SUFFICES ASSUME NEW kind \in {"hmac", "policy"}, NEW salted \in BOOLEAN, NEW bound \in BOOLEAN
               PROVE  Leads(P, wolfTPM2_StartSession(kind, salted, bound), E)
    OBVIOUS
  <2>1. CASE salted = TRUE
    BY <1>17, <2>1
  <2>2. CASE salted = FALSE
    BY <1>15, <1>16, <2>2
  <2> QED BY <2>1, <2>2
<1> QED BY <1>18, <1>19 DEF P, E

\* What a call does (HandlesAccountedFor).
Accounted ==
    /\ Cardinality(Unnamed' \ Unnamed) <= failed'
    /\ \A s \in Structures :
         handle'[s] # handle[s] /\ handle'[s] \in Objects \union SessionIds =>
           loaded'[handle'[s]] # "none"

\* The structures that name something as loaded.
Named == {s \in Own : s = "hmacKey" => hmacKeyLoaded}

\* Before a call everything is counted, and a structure that names nothing need not be.
LEMMA BeforeCounts ==
    ASSUME WrapperInv, NEW S \in SUBSET Named, \A s \in Named \ S : handle[s] \notin Limited, NEW X
    PROVE  Before \in Books(S, X) /\ Before.ok /\ S \in SUBSET Own
<1> DEFINE B == Before
<1>1. /\ B.handle = handle /\ B.loaded = loaded /\ B.hmacKeyLoaded = hmacKeyLoaded
      /\ B.failed = 0 /\ B.ok
  BY DEF Before
<1>2. B \in World /\ handle["local"] = None
  BY DEF WrapperInv, Sane
<1>3. None \notin Limited
  BY HandleFactsOfTpm DEF Limited, HandleIds
<1> HIDE DEF B
<1>4. ASSUME NEW h \in Astray(B, S) PROVE FALSE
  <2>1. h \in Limited /\ loaded[h] # "none" /\ (\A s \in S : handle[s] # h) /\ h \notin Unnamed
    BY <1>1, <1>4 DEF Astray
  <2>2. PICK s \in Structures : handle[s] = h /\ (s = "hmacKey" => hmacKeyLoaded)
    BY <2>1 DEF Unnamed, Limited
  <2>3. s \in Named
    BY <1>2, <1>3, <2>1, <2>2 DEF Named, Own
  <2> QED BY <2>1, <2>2, <2>3
<1>5. Astray(B, S) = {}
  BY <1>4
<1>6. B \in Owed(S)
  BY <1>1, <1>2, <1>5, FS_EmptySet DEF Owed
<1>7. B \in Debt(S)
  BY <1>1, <1>6 DEF Debt, Named
<1>8. Held(B, X, {})
  BY <1>1 DEF Held
<1>9. S \in SUBSET Own
  BY DEF Named
<1> QED BY <1>1, <1>7, <1>8, <1>9 DEF Books, B

\* A call whose script leads to where everything is counted.
LEMMA CallAccounts ==
    ASSUME NEW P, NEW script, NEW outs, \E T : script \in Seq(T),
           Before \in P, Leads(P, script, Settled), CallWrapper(script, outs)
    PROVE  Accounted
<1>1. PICK w : /\ w = Done(script, outs)
               /\ handle' = [w.handle EXCEPT !["local"] = None]
               /\ hmacKeyLoaded' = w.hmacKeyLoaded /\ loaded' = w.loaded
               /\ failed' = IF Unnamed' \subseteq Unnamed THEN 0 ELSE w.failed
  BY DEF CallWrapper
<1>2. w \in Settled
  BY <1>1, DoneLeads
<1>3. w \in World /\ Held(w, Own, Limited)
  BY <1>2 DEF Settled
<1>4. PICK S \in SUBSET Own : w \in Debt(S)
  BY <1>2 DEF Settled
<1>5. handle'["local"] = None /\ \A s \in Own : handle'[s] = w.handle[s]
  BY <1>1, <1>3 DEF World, Own, Structures
<1>6. Unnamed' \ Unnamed \subseteq Astray(w, S)
  <2> SUFFICES ASSUME NEW h \in Unnamed', h \notin Unnamed PROVE h \in Astray(w, S)
    OBVIOUS
  <2>1. h \in Limited /\ w.loaded[h] # "none"
        /\ \A s \in Structures : ~(handle'[s] = h /\ (s = "hmacKey" => hmacKeyLoaded'))
    BY <1>1 DEF Unnamed, Limited
  <2>2. \A s \in S : w.handle[s] # h
    BY <1>1, <1>4, <1>5, <2>1 DEF Debt, Own
  <2> QED BY <2>1, <2>2 DEF Astray
<1>7. Cardinality(Unnamed' \ Unnamed) <= failed'
  <2>1. CASE Unnamed' \subseteq Unnamed
    <3> DEFINE D == Unnamed' \ Unnamed
    <3>1. D = {} /\ failed' = 0
      BY <1>1, <2>1
    <3> HIDE DEF D
    <3>2. Cardinality(D) = 0
      BY <3>1, FS_EmptySet
    <3>3. Cardinality(D) <= failed'
      BY <3>1, <3>2
    <3> QED BY <3>3 DEF D
  <2>2. CASE ~(Unnamed' \subseteq Unnamed)
    <3> DEFINE A == Astray(w, S)
               D == Unnamed' \ Unnamed
    <3>1. failed' = w.failed /\ w.failed \in Nat /\ Cardinality(A) <= w.failed
      BY <1>1, <1>3, <1>4, <2>2 DEF World, Debt, Owed
    <3>2. IsFiniteSet(A)
      <4>1. IsFiniteSet(Objects)
        BY WrapAssumption, FS_Interval DEF Objects
      <4>2. IsFiniteSet(Limited)
        BY <4>1, WrapAssumption, FS_Union DEF Limited
      <4>3. A \subseteq Limited
        BY DEF Astray
      <4> HIDE DEF A
      <4> QED BY <4>2, <4>3, FS_Subset
    <3>3. D \subseteq A
      BY <1>6
    <3> HIDE DEF A, D
    <3>4. IsFiniteSet(D) /\ Cardinality(D) <= Cardinality(A)
      BY <3>2, <3>3, FS_Subset
    <3>5. Cardinality(D) \in Nat /\ Cardinality(A) \in Nat
      BY <3>2, <3>4, FS_CardinalityType
    <3>6. Cardinality(D) <= failed'
      BY <3>1, <3>4, <3>5
    <3> QED BY <3>6 DEF D
  <2> QED BY <2>1, <2>2
<1>8. ASSUME NEW s \in Structures, handle'[s] # handle[s], handle'[s] \in Objects \union SessionIds
      PROVE  loaded'[handle'[s]] # "none"
  <2>1. None \notin Limited
    BY HandleFactsOfTpm DEF Limited, HandleIds
  <2>2. s \in Own
    BY <1>5, <1>8, <2>1 DEF Own, Limited
  <2> QED BY <1>1, <1>3, <1>5, <1>8, <2>2 DEF Held, Limited
<1> QED BY <1>7, <1>8 DEF Accounted

\* A call of one of several scripts of which each leads there.
LEMMA LeadsAccount ==
    ASSUME NEW P, Before \in P, NEW scripts, Perform(Calls(scripts)),
           \A script \in scripts : Leads(P, script, Settled) /\ \E T : script \in Seq(T)
    PROVE  Accounted
BY CallsFacts, CallAccounts

\* A call of a harmless script.
LEMMA PlainAccounts ==
    ASSUME NEW S \in SUBSET Own, Before \in Books(S, Own), NEW scripts,
           scripts \subseteq Seq(Harmless(S, Own)), Perform(Calls(scripts))
    PROVE  Accounted
<1> DEFINE P == Books(S, Own)
           Q == Harmless(S, Own)
<1>1. \A script \in scripts : Leads(P, script, Settled)
  BY PlainSettles
<1>2. \A script \in scripts : script \in Seq(Q)
  OBVIOUS
<1> HIDE DEF P, Q
<1>3. \A script \in scripts : \E T : script \in Seq(T)
  BY <1>2
<1>4. Before \in P
  BY DEF P
<1> QED BY <1>1, <1>3, <1>4, LeadsAccount

\* Bare scripts are harmless, whatever is counted.
LEMMA BareSettles ==
    ASSUME NEW S \in SUBSET Own
    PROVE  Seq(Bare) \subseteq Seq(Harmless(S, Own))
BY PlainWrappers

\* The calls that need no structure.
LEMMA DeviceAccounts ==
    ASSUME WrapperInv, UseDevice
    PROVE  Accounted
<1> DEFINE S == Named
           Q == Seq(Harmless(S, Own))
<1>1. S \in SUBSET Own /\ Before \in Books(S, Own)
  BY BeforeCounts DEF Named
<1>2. Seq(Bare) \subseteq Q
  BY <1>1, BareSettles
<1>3. wolfTPM2_UnloadHandles_AllTransient \in Q /\ wolfTPM2_Init \in Q /\ wolfTPM2_Cleanup \in Q
  <2> HIDE DEF S
  <2> QED BY <1>1, PlainWrappers
<1> HIDE DEF S
<1>4. ASSUME NEW scripts, scripts \subseteq Q, Perform(Calls(scripts)) PROVE Accounted
  BY <1>1, <1>4, PlainAccounts
<1> HIDE DEF Q
<1>5. CASE Perform(Starting)
  <2>1. {wolfTPM2_Init} \subseteq Q /\ Perform(Calls({wolfTPM2_Init}))
    BY <1>3, <1>5 DEF Starting
  <2> QED BY <1>4, <2>1
<1>6. CASE Perform(Stopping)
  <2>1. {wolfTPM2_Init, wolfTPM2_Cleanup} \subseteq Q /\ Perform(Calls({wolfTPM2_Init, wolfTPM2_Cleanup}))
    BY <1>3, <1>6 DEF Stopping
  <2> QED BY <1>4, <2>1
<1>7. CASE Perform(Anytime)
  <2> DEFINE A == {wolfTPM2_SelfTest, wolfTPM2_GetCapabilities, wolfTPM2_Clear, wolfTPM2_ResetPCR,
                   wolfTPM2_ReadPCR, wolfTPM2_ExtendPCR, wolfTPM2_Shutdown, wolfTPM2_UnsetAuth(0),
                   wolfTPM2_UnloadHandles_AllTransient, wolfTPM2_ChangePlatformAuth(FALSE),
                   wolfTPM2_NVReadPublic, wolfTPM2_NVCreate, wolfTPM2_NVDelete}
             B == UNION {{wolfTPM2_GetRandom(n), wolfTPM2_NVWrite(n), wolfTPM2_NVRead(n)} :
                          n \in Rounds}
             C == UNION {{wolfTPM2_NVWriteAuth(k, n), wolfTPM2_NVReadAuth(k, n)} :
                           k \in BOOLEAN, n \in Rounds}
             D == UNION {{wolfTPM2_NVIncrement(k), wolfTPM2_NVWriteLock(k)} : k \in BOOLEAN}
  <2>1. Perform(Calls(A \union B \union C \union D))
    <3>1. Anytime = Calls(A \union B \union C \union D)
      BY DEF Anytime
    <3> QED BY <1>7, <3>1
  <2>2. A \subseteq Q
    BY <1>2, <1>3, PlainScripts
  <2>3. B \subseteq Q
    <3>1. \A n \in Rounds : {wolfTPM2_GetRandom(n), wolfTPM2_NVWrite(n), wolfTPM2_NVRead(n)}
                              \subseteq Seq(Bare)
      BY PlainPieces
    <3> QED BY <1>2, <3>1
  <2>4. C \subseteq Q
    <3>1. \A k \in BOOLEAN, n \in Rounds :
            {wolfTPM2_NVWriteAuth(k, n), wolfTPM2_NVReadAuth(k, n)} \subseteq Seq(Bare)
      BY PlainPieces
    <3> QED BY <1>2, <3>1
  <2>5. D \subseteq Q
    <3>1. \A k \in BOOLEAN : {wolfTPM2_NVIncrement(k), wolfTPM2_NVWriteLock(k)} \subseteq Seq(Bare)
      BY LockScripts
    <3> QED BY <1>2, <3>1
  <2> HIDE DEF A, B, C, D
  <2>6. A \union B \union C \union D \subseteq Q
    BY <2>2, <2>3, <2>4, <2>5
  <2> QED BY <1>4, <2>1, <2>6
<1> QED BY <1>5, <1>6, <1>7 DEF UseDevice

\* Structures that name nothing, or something that the TPM has no limited room for.
LEMMA NothingLimited == None \notin Limited /\ Persistent \notin Limited /\ Counter \notin Limited
BY HandleFactsOfTpm DEF Limited, HandleIds

\* The scripts of each structure are sequences.
LEMMA ScriptsAreSequences ==
    /\ \A script \in {wolfTPM2_ChangeAuthKey, wolfTPM2_NVStoreKey,
                      wolfTPM2_CreateEK, wolfTPM2_CreateSRK, wolfTPM2_ECDHGenKey,
                      wolfTPM2_CreateAndLoadAIK, wolfTPM2_LoadRsaPublicKey,
                      wolfTPM2_LoadEccPublicKey, wolfTPM2_LoadPrivateKey,
                      wolfTPM2_LoadRsaPrivateKey, wolfTPM2_LoadEccPrivateKey,
                      wolfTPM2_CreateLoadedKey("key"), wolfTPM2_ReadPublicKey,
                      wolfTPM2_CreateKey("key") \o wolfTPM2_LoadKey("key")} :
         \E T : script \in Seq(T)
    /\ \A script \in {wolfTPM2_HashStart, wolfTPM2_HmacStart(FALSE), wolfTPM2_HmacStart(TRUE),
                      wolfTPM2_HashFinish, wolfTPM2_HmacFinish(FALSE), wolfTPM2_HmacFinish(TRUE)} :
         \E T : script \in Seq(T)
<1> DEFINE Q == Seq(Quiet(Others))
<1>1. /\ {wolfTPM2_ChangeAuthKey, wolfTPM2_NVStoreKey, << wolfTPM2_UnloadHandle("key") >>} \subseteq Q
      /\ {wolfTPM2_CreateEK, wolfTPM2_CreateSRK, wolfTPM2_ECDHGenKey,
          wolfTPM2_CreateAndLoadAIK, wolfTPM2_LoadRsaPublicKey, wolfTPM2_LoadEccPublicKey,
          wolfTPM2_LoadPrivateKey, wolfTPM2_LoadRsaPrivateKey, wolfTPM2_LoadEccPrivateKey,
          wolfTPM2_CreateLoadedKey("key"), wolfTPM2_ReadPublicKey, wolfTPM2_ECDHEGenKey,
          wolfTPM2_CreateKeySeal("key"), wolfTPM2_CreateKey("key") \o wolfTPM2_LoadKey("key")}
           \subseteq Q
      /\ {wolfTPM2_HashStart, wolfTPM2_HmacStart(FALSE), wolfTPM2_HmacStart(TRUE),
          wolfTPM2_HashFinish, wolfTPM2_HmacFinish(FALSE), wolfTPM2_HmacFinish(TRUE)}
           \subseteq Q
  BY QuietScripts
<1>2. \A script \in Q : \E T : script \in Seq(T)
  OBVIOUS
<1> HIDE DEF Q
<1> QED BY <1>1, <1>2

\* Calls of harmless scripts, and of others that lead to where everything is counted.
LEMMA SettlesAccount ==
    ASSUME NEW S \in SUBSET Own, NEW P \in SUBSET Books(S, Own), Before \in P, NEW A, NEW B,
           A \subseteq Seq(Harmless(S, Own)), Perform(Calls(A \union B)),
           \A script \in B : Leads(P, script, Settled) /\ \E T : script \in Seq(T)
    PROVE  Accounted
<1> DEFINE Q == Harmless(S, Own)
           R == Books(S, Own)
<1>1. \A script \in A : Leads(P, script, Settled) /\ \E T : script \in Seq(T)
  <2> SUFFICES ASSUME NEW script \in A PROVE Leads(P, script, Settled) /\ \E T : script \in Seq(T)
    OBVIOUS
  <2>1. script \in Seq(Q)
    OBVIOUS
  <2>2. Leads(R, script, Settled)
    BY <2>1, PlainSettles
  <2>3. P \in SUBSET R
    OBVIOUS
  <2> HIDE DEF Q, R
  <2>4. Leads(P, script, Settled)
    BY <2>2, <2>3, LeadsTo
  <2> QED BY <2>1, <2>4
<1> HIDE DEF Q, R
<1>2. \A script \in A \union B : Leads(P, script, Settled) /\ \E T : script \in Seq(T)
  BY <1>1
<1> QED BY <1>2, LeadsAccount

\* What is held of every structure is held of a caller's.
LEMMA BooksNarrow ==
    ASSUME NEW S
    PROVE  /\ Books(S, Structures) \in SUBSET Books(S, Own)
           /\ Books(S, Own) \in SUBSET Books(S, Own)
BY DEF Books, Held, Own

\* The calls on the key.
LEMMA KeyAccounts ==
    ASSUME WrapperInv, UseKey
    PROVE  Accounted
<1>1. CASE Perform(WithKey)
  <2> DEFINE S == Named
             P == Books(S, Own)
             A == {wolfTPM2_GetTime, wolfTPM2_SignHash, wolfTPM2_VerifyHash, wolfTPM2_ECDHGen,
                   wolfTPM2_RsaEncrypt, wolfTPM2_RsaDecrypt, << wolfTPM2_UnloadHandle("key") >>,
                   wolfTPM2_ECDHGenZ}
             B == {wolfTPM2_ChangeAuthKey, wolfTPM2_NVStoreKey}
             C == {wolfTPM2_EncryptDecrypt(n) : n \in Rounds}
  <2>1. Perform(Calls((A \union C) \union B))
    <3>1. WithKey = Calls((A \union C) \union B)
      <4>1. WithKey = Calls({wolfTPM2_GetTime, wolfTPM2_ChangeAuthKey, wolfTPM2_NVStoreKey,
                             wolfTPM2_SignHash, wolfTPM2_VerifyHash, wolfTPM2_ECDHGen,
                             wolfTPM2_ECDHGenZ, wolfTPM2_RsaEncrypt, wolfTPM2_RsaDecrypt,
                             << wolfTPM2_UnloadHandle("key") >>} \union C)
        BY DEF WithKey
      <4>2. {wolfTPM2_GetTime, wolfTPM2_ChangeAuthKey, wolfTPM2_NVStoreKey,
             wolfTPM2_SignHash, wolfTPM2_VerifyHash, wolfTPM2_ECDHGen,
             wolfTPM2_ECDHGenZ, wolfTPM2_RsaEncrypt, wolfTPM2_RsaDecrypt,
             << wolfTPM2_UnloadHandle("key") >>} \union C = (A \union C) \union B
        <5> HIDE DEF C
        <5> QED OBVIOUS
      <4> QED BY <4>1, <4>2
    <3> QED BY <1>1, <3>1
  <2>2. S \in SUBSET Own /\ Before \in P
    BY BeforeCounts DEF Named
  <2>3. A \subseteq Seq(Harmless(S, Own))
    <3>1. << wolfTPM2_UnloadHandle("key") >> \in Seq(Harmless(S, Own))
      <4> HIDE DEF S
      <4> QED BY <2>2, PlainWrappers
    <3>2. Seq(Bare) \subseteq Seq(Harmless(S, Own))
      BY <2>2, BareSettles
    <3> HIDE DEF S
    <3> QED BY <3>1, <3>2, PlainScripts
  <2>4. C \subseteq Seq(Harmless(S, Own))
    <3>1. \A n \in Rounds : wolfTPM2_EncryptDecrypt(n) \in Seq(Bare)
      BY PlainPieces
    <3>2. Seq(Bare) \subseteq Seq(Harmless(S, Own))
      BY <2>2, BareSettles
    <3> HIDE DEF S
    <3> QED BY <3>1, <3>2
  <2>5. \A script \in B : Leads(P, script, Settled) /\ \E T : script \in Seq(T)
    <3> HIDE DEF S
    <3>1. \A script \in B : Leads(P, script, Settled)
      BY <2>2, Droppers
    <3> HIDE DEF P
    <3> QED BY <3>1, ScriptsAreSequences
  <2>6. P \in SUBSET Books(S, Own) /\ A \union C \subseteq Seq(Harmless(S, Own))
    BY <2>3, <2>4
  <2> HIDE DEF S, P, A, B, C
  <2> QED BY <2>1, <2>2, <2>5, <2>6, SettlesAccount
<1>2. CASE handle["key"] = None /\ Perform(IntoKey)
  <2> DEFINE S == Named \ {"key"}
             P == Books(S, Structures)
             A == {wolfTPM2_LoadSymmetricKey, wolfTPM2_ECDHEGenKey, wolfTPM2_CreateKeySeal("key")}
             B == {wolfTPM2_CreateEK, wolfTPM2_CreateSRK, wolfTPM2_ECDHGenKey,
                   wolfTPM2_LoadRsaPublicKey, wolfTPM2_LoadEccPublicKey,
                   wolfTPM2_CreateLoadedKey("key"),
                   wolfTPM2_CreateKey("key") \o wolfTPM2_LoadKey("key")}
             C == {wolfTPM2_CreateAndLoadAIK, wolfTPM2_LoadPrivateKey,
                   wolfTPM2_LoadRsaPrivateKey, wolfTPM2_LoadEccPrivateKey, wolfTPM2_ReadPublicKey}
  <2>1. Perform(Calls(A \union (B \union C)))
    <3>1. {wolfTPM2_CreateEK, wolfTPM2_CreateSRK, wolfTPM2_ECDHGenKey,
           wolfTPM2_CreateAndLoadAIK, wolfTPM2_LoadRsaPublicKey, wolfTPM2_LoadEccPublicKey,
           wolfTPM2_LoadPrivateKey, wolfTPM2_LoadRsaPrivateKey, wolfTPM2_LoadEccPrivateKey,
           wolfTPM2_LoadSymmetricKey, wolfTPM2_CreateLoadedKey("key"),
           wolfTPM2_ReadPublicKey, wolfTPM2_ECDHEGenKey, wolfTPM2_CreateKeySeal("key"),
           wolfTPM2_CreateKey("key") \o wolfTPM2_LoadKey("key")} = A \union (B \union C)
      OBVIOUS
    <3> QED BY <1>2, <3>1 DEF IntoKey
  <2>2. S \in SUBSET Own /\ Before \in P /\ "key" \notin S
    BY <1>2, NothingLimited, BeforeCounts DEF Named
  <2>3. A \subseteq Seq(Harmless(S, Own))
    <3>1. Seq(Bare) \subseteq Seq(Harmless(S, Own))
      BY <2>2, BareSettles
    <3> HIDE DEF S
    <3>2. {wolfTPM2_ECDHEGenKey, wolfTPM2_CreateKeySeal("key")} \subseteq Seq(Harmless(S, Own))
      BY <2>2, PlainWrappers
    <3> QED BY <3>1, <3>2, PlainScripts
  <2> HIDE DEF S
  <2>4. P \in SUBSET Books(S, Own)
    BY BooksNarrow
  <2>5. \A script \in B : Leads(P, script, Settled)
    <3> SUFFICES ASSUME NEW script \in B PROVE Leads(P, script, Settled)
      OBVIOUS
    <3> DEFINE R == Books(S, Own)
    <3>1. Leads(R, script, Settled)
      BY <2>2, KeyMakers
    <3>2. P \in SUBSET R
      BY <2>4
    <3> HIDE DEF P, R
    <3> QED BY <3>1, <3>2, LeadsTo
  <2>6. \A script \in C : Leads(P, script, Settled)
    BY <1>2, <2>2, KeyPassers, NothingLimited DEF WrapperInv
  <2>7. \A script \in B \union C : Leads(P, script, Settled) /\ \E T : script \in Seq(T)
    <3>1. \A script \in B \union C : \E T : script \in Seq(T)
      BY ScriptsAreSequences
    <3> HIDE DEF P, B, C
    <3> QED BY <2>5, <2>6, <3>1
  <2> HIDE DEF P, A, B, C
  <2> QED BY <2>1, <2>2, <2>3, <2>4, <2>7, SettlesAccount
<1>3. ASSUME handle["key"] \notin Limited, NEW script \in {wolfTPM2_NVDeleteKey, wolfTPM2_ECDHEGenZ},
             Perform(Calls({script}))
      PROVE  Accounted
  <2> DEFINE S == Named \ {"key"}
  <2>1. S \in SUBSET Own /\ Before \in Books(S, Own) /\ "key" \notin S
    BY <1>3, BeforeCounts DEF Named
  <2> HIDE DEF S
  <2>2. {script} \subseteq Seq(Harmless(S, Own))
    BY <2>1, PlainWrappers
  <2> QED BY <1>3, <2>1, <2>2, PlainAccounts
<1>4. CASE handle["key"] = Persistent /\ Perform(Deleting)
  BY <1>3, <1>4, NothingLimited DEF Deleting
<1>5. CASE handle["key"] = Counter /\ Perform(Agreeing)
  BY <1>3, <1>5, NothingLimited DEF Agreeing
<1> QED BY <1>1, <1>2, <1>4, <1>5 DEF UseKey

\* The calls on the hash and its key.
LEMMA HashAccounts ==
    ASSUME WrapperInv, UseHash
    PROVE  Accounted
<1>1. CASE handle["hash"] = None /\ ~(hmacKeyLoaded /\ handle["hmacKey"] # None) /\ Perform(IntoHash)
  <2> DEFINE S == Named \ {"hash", "hmacKey"}
             P == Books(S, Own)
             B == {wolfTPM2_HashStart, wolfTPM2_HmacStart(FALSE)}
  <2>1. Perform(Calls({} \union B))
    <3>1. {} \union B = {wolfTPM2_HashStart, wolfTPM2_HmacStart(FALSE)}
      OBVIOUS
    <3> HIDE DEF B
    <3> QED BY <1>1, <3>1 DEF IntoHash
  <2>2. S \in SUBSET Own /\ Before \in P /\ "hash" \notin S /\ "hmacKey" \notin S
    <3>1. S \in SUBSET Named
      OBVIOUS
    <3>2. \A s \in Named \ S : handle[s] \notin Limited
      BY <1>1, NothingLimited DEF Named
    <3>3. "hash" \notin S /\ "hmacKey" \notin S
      OBVIOUS
    <3> HIDE DEF S
    <3> QED BY <3>1, <3>2, <3>3, BeforeCounts
  <2> HIDE DEF S
  <2>3. \A script \in B : Leads(P, script, Settled)
    BY <2>2, HashMakers
  <2>4. P \in SUBSET Books(S, Own)
    BY BooksNarrow
  <2>5. \A script \in B : \E T : script \in Seq(T)
    BY ScriptsAreSequences
  <2> HIDE DEF P, B
  <2> QED BY <2>1, <2>2, <2>3, <2>4, <2>5, SettlesAccount
<1>2. CASE handle["hash"] = None /\ Perform(IntoHashAgain)
  <2> DEFINE S == Named \ {"hash"}
             P == Books(S, Own)
             B == {wolfTPM2_HashStart, wolfTPM2_HmacStart(TRUE)}
  <2>1. Perform(Calls({} \union B))
    <3>1. {} \union B = {wolfTPM2_HashStart, wolfTPM2_HmacStart(TRUE)}
      OBVIOUS
    <3> HIDE DEF B
    <3> QED BY <1>2, <3>1 DEF IntoHashAgain
  <2>2. S \in SUBSET Own /\ Before \in P /\ "hash" \notin S
    <3>1. S \in SUBSET Named
      OBVIOUS
    <3>2. \A s \in Named \ S : handle[s] \notin Limited
      BY <1>2, NothingLimited DEF Named
    <3>3. "hash" \notin S
      OBVIOUS
    <3> HIDE DEF S
    <3> QED BY <3>1, <3>2, <3>3, BeforeCounts
  <2> HIDE DEF S
  <2>3. \A script \in B : Leads(P, script, Settled)
    BY <2>2, HashMakers
  <2>4. P \in SUBSET Books(S, Own)
    BY BooksNarrow
  <2>5. \A script \in B : \E T : script \in Seq(T)
    BY ScriptsAreSequences
  <2> HIDE DEF P, B
  <2> QED BY <2>1, <2>2, <2>3, <2>4, <2>5, SettlesAccount
<1>3. CASE Perform(WithHash)
  <2> DEFINE S == Named
             P == {w \in Books(S, Own) : w.ok}
             A == {wolfTPM2_HmacUpdate(n) : n \in Rounds}
             B == {wolfTPM2_HashFinish} \union {wolfTPM2_HmacFinish(keep) : keep \in BOOLEAN}
  <2>1. Perform(Calls(A \union B))
    <3>1. WithHash = Calls(B \union A)
      BY DEF WithHash
    <3>2. A \union B = B \union A
      <4> HIDE DEF A, B
      <4> QED OBVIOUS
    <3> HIDE DEF A, B
    <3> QED BY <1>3, <3>1, <3>2
  <2>2. S \in SUBSET Own /\ Before \in P
    <3>1. S \in SUBSET Named /\ \A s \in Named \ S : handle[s] \notin Limited
      OBVIOUS
    <3> HIDE DEF S
    <3> QED BY <3>1, BeforeCounts
  <2>3. A \subseteq Seq(Harmless(S, Own))
    <3>1. \A n \in Rounds : wolfTPM2_HmacUpdate(n) \in Seq(Bare)
      BY PlainPieces
    <3>2. Seq(Bare) \subseteq Seq(Harmless(S, Own))
      BY <2>2, BareSettles
    <3> HIDE DEF S
    <3> QED BY <3>1, <3>2
  <2> HIDE DEF S
  <2>4. B \subseteq {wolfTPM2_HashFinish, wolfTPM2_HmacFinish(TRUE), wolfTPM2_HmacFinish(FALSE)}
    <3>1. \A keep \in BOOLEAN : keep = TRUE \/ keep = FALSE
      OBVIOUS
    <3> QED BY <3>1
  <2> HIDE DEF B
  <2>5. \A script \in B : Leads(P, script, Settled)
    BY <2>2, <2>4, Finishers
  <2>6. \A script \in B : \E T : script \in Seq(T)
    BY <2>4, ScriptsAreSequences
  <2>7. P \in SUBSET Books(S, Own)
    OBVIOUS
  <2> HIDE DEF P, A
  <2> QED BY <2>1, <2>2, <2>3, <2>5, <2>6, <2>7, SettlesAccount
<1> QED BY <1>1, <1>2, <1>3 DEF UseHash

\* The calls on the session.
LEMMA SessionAccounts ==
    ASSUME WrapperInv, UseSession
    PROVE  Accounted
<1>1. CASE handle["session"] = None /\ Perform(IntoSession)
  <2> DEFINE S == Named \ {"session"}
             P == Books(S, Structures)
             A == {wolfTPM2_StartSession(kind, salted, bound) :
                     kind \in {"hmac", "policy"}, salted \in BOOLEAN, bound \in BOOLEAN}
             B == {wolfTPM2_CreateAuthSession_EkPolicy}
  <2>1. Perform(Calls({} \union (A \union B)))
    <3>1. IntoSession = Calls(A \union B)
      BY DEF IntoSession
    <3>2. {} \union (A \union B) = A \union B
      <4> HIDE DEF A, B
      <4> QED OBVIOUS
    <3> HIDE DEF A, B
    <3> QED BY <1>1, <3>1, <3>2
  <2>2. S \in SUBSET Own /\ Before \in P /\ "session" \notin S
    <3>1. S \in SUBSET Named
      OBVIOUS
    <3>2. \A s \in Named \ S : handle[s] \notin Limited
      BY <1>1, NothingLimited DEF Named
    <3>3. "session" \notin S
      OBVIOUS
    <3> HIDE DEF S
    <3> QED BY <3>1, <3>2, <3>3, BeforeCounts
  <2>3. handle["local"] = None
    BY DEF WrapperInv
  <2> HIDE DEF S
  <2>4. \A kind \in {"hmac", "policy"}, salted \in BOOLEAN, bound \in BOOLEAN :
          Leads(P, wolfTPM2_StartSession(kind, salted, bound), Settled)
    BY <2>2, <2>3, SessionPassers
  <2>5. Leads(P, wolfTPM2_CreateAuthSession_EkPolicy, Settled)
    BY <2>2, <2>3, SessionPassers
  <2>6. P \in SUBSET Books(S, Own)
    BY BooksNarrow
  <2> HIDE DEF P
  <2>7. \A script \in A : Leads(P, script, Settled) /\ \E T : script \in Seq(T)
    <3> HIDE DEF A
    <3> SUFFICES ASSUME NEW script \in A
                 PROVE  Leads(P, script, Settled) /\ \E T : script \in Seq(T)
      OBVIOUS
    <3>1. PICK kind \in {"hmac", "policy"}, salted \in BOOLEAN, bound \in BOOLEAN :
                 script = wolfTPM2_StartSession(kind, salted, bound)
      BY DEF A
    <3> QED BY <2>4, <3>1, StartScripts
  <2>8. \A script \in B : Leads(P, script, Settled) /\ \E T : script \in Seq(T)
    BY <2>5, StartScripts
  <2> HIDE DEF A, B
  <2>9. \A script \in A \union B : Leads(P, script, Settled) /\ \E T : script \in Seq(T)
    BY <2>7, <2>8
  <2> DEFINE C == A \union B
  <2>10. Perform(Calls({} \union C))
         /\ \A script \in C : Leads(P, script, Settled) /\ \E T : script \in Seq(T)
    BY <2>1, <2>9
  <2> HIDE DEF C
  <2> QED BY <2>2, <2>6, <2>10, SettlesAccount
<1>2. ASSUME NEW scripts, Perform(Calls(scripts)), scripts \subseteq Seq(Harmless(Named, Own))
      PROVE  Accounted
  <2> DEFINE S == Named
  <2>1. S \in SUBSET Own /\ Before \in Books(S, Own)
    BY BeforeCounts DEF Named
  <2>2. scripts \subseteq Seq(Harmless(S, Own))
    BY <1>2
  <2> HIDE DEF S
  <2> QED BY <1>2, <2>1, <2>2, PlainAccounts
<1> DEFINE Q == Seq(Harmless(Named, Own))
<1>3. /\ Seq(Bare) \subseteq Q
      /\ {<< wolfTPM2_UnloadHandle("session") >>, wolfTPM2_UnsetAuthSession(1),
          wolfTPM2_ChangePlatformAuth(TRUE)} \subseteq Q
      /\ \A j \in 0 .. 1 : \A a \in SUBSET Attributes : << wolfTPM2_SetAuthSession(j, a) >> \in Q
  <2> DEFINE S == Named
  <2>1. S \in SUBSET Own
    BY DEF Named
  <2> HIDE DEF S
  <2>2. LET R == Seq(Harmless(S, Own))
        IN /\ Seq(Bare) \subseteq R
           /\ {<< wolfTPM2_UnloadHandle("session") >>, wolfTPM2_UnsetAuthSession(1),
               wolfTPM2_ChangePlatformAuth(TRUE)} \subseteq R
           /\ \A j \in 0 .. 1 : \A a \in SUBSET Attributes : << wolfTPM2_SetAuthSession(j, a) >> \in R
    BY <2>1, PlainWrappers
  <2> QED BY <2>2 DEF S
<1>4. ASSUME NEW scripts, Perform(Calls(scripts)), scripts \subseteq Q
      PROVE  Accounted
  BY <1>2, <1>4
<1> HIDE DEF Q
<1>5. CASE Perform(WithSession)
  <2> DEFINE A == {wolfTPM2_PolicyRestart, wolfTPM2_GetPolicyDigest, wolfTPM2_PolicyPCR}
  <2>1. A \subseteq Q /\ Perform(Calls(A))
    BY <1>3, <1>5, PlainScripts DEF WithSession
  <2> QED BY <1>4, <2>1
<1>6. CASE Perform(Seat)
  <2> DEFINE A == {<< wolfTPM2_SetAuthSession(1, attrs) >> :
                     attrs \in {{"continue", "audit"}, {"continue", "encrypt"}}}
             B == {wolfTPM2_ChangePlatformAuth(TRUE), << wolfTPM2_UnloadHandle("session") >>}
  <2>1. Perform(Calls(A \union B))
    BY <1>6 DEF Seat
  <2>2. A \subseteq Q
    <3>1. {{"continue", "audit"}, {"continue", "encrypt"}} \subseteq SUBSET Attributes
      BY DEF Attributes
    <3>2. 1 \in 0 .. 1
      OBVIOUS
    <3> QED BY <1>3, <3>1, <3>2
  <2>3. B \subseteq Q
    BY <1>3
  <2> HIDE DEF A, B
  <2>4. A \union B \subseteq Q
    BY <2>2, <2>3
  <2> QED BY <1>4, <2>1, <2>4
<1>7. CASE Perform(SeatPolicy)
  <2> DEFINE A == {<< wolfTPM2_SetAuthSession(0, {}) >>, << wolfTPM2_UnloadHandle("session") >>}
  <2>1. Perform(Calls(A))
    BY <1>7 DEF SeatPolicy
  <2>2. A \subseteq Q
    <3>1. 0 \in 0 .. 1 /\ {} \in SUBSET Attributes
      OBVIOUS
    <3>2. << wolfTPM2_SetAuthSession(0, {}) >> \in Q
      BY <1>3, <3>1
    <3> QED BY <1>3, <3>2
  <2> HIDE DEF A
  <2> QED BY <1>4, <2>1, <2>2
<1>8. CASE Perform(Unseat)
  <2>1. Perform(Calls({wolfTPM2_UnsetAuthSession(1)})) /\ {wolfTPM2_UnsetAuthSession(1)} \subseteq Q
    BY <1>3, <1>8 DEF Unseat
  <2> QED BY <1>4, <2>1
<1> QED BY <1>1, <1>5, <1>6, <1>7, <1>8 DEF UseSession

\* A call leaves behind in the TPM, without a handle to unload it by, at most one object or
\* session for each of its steps that failed, and whatever handle a structure comes to hold
\* is that of something loaded, for every number of objects, sessions and failures.
THEOREM HandlesAreAccountedFor == WrapperSpec => HandlesAccountedFor
<1>1. WrapperInv /\ [WrapperNext]_wrapperVars =>
        [ /\ Cardinality(Unnamed' \ Unnamed) <= failed'
          /\ \A s \in Structures :
               handle'[s] # handle[s] /\ handle'[s] \in Objects \union SessionIds =>
                 loaded'[handle'[s]] # "none" ]_wrapperVars
  <2> SUFFICES ASSUME WrapperInv, WrapperNext
               PROVE  /\ Cardinality(Unnamed' \ Unnamed) <= failed'
                      /\ \A s \in Structures :
                           handle'[s] # handle[s] /\ handle'[s] \in Objects \union SessionIds =>
                             loaded'[handle'[s]] # "none"
    OBVIOUS
  <2>1. Accounted
    BY DeviceAccounts, KeyAccounts, HashAccounts, SessionAccounts DEF WrapperNext
  <2> QED BY <2>1 DEF Accounted
<1> QED BY <1>1, WrapperInvariance, PTL DEF WrapperSpec, HandlesAccountedFor
=============================================================================
