------------------------------ MODULE SIIFormat ------------------------------
(***************************************************************************)
(* The walkers over the categories of a slave's EEPROM ("SII") in          *)
(* soem/ethercatmain.c: ecx_siifind, ecx_siistring, ecx_siiFMMU,           *)
(* ecx_siiSM, ecx_siiSMnext and ecx_siiPDO, as functions of the bytes they *)
(* get.  get[a] is the byte ecx_siigetbyte returns for byte address a.     *)
(*                                                                         *)
(* A walker has a value and the addresses it reads, in its order: the      *)
(* module SII fills the cache with what is missing of them.                *)
(*                                                                         *)
(* At the end: what lies in an EEPROM, and what a walker is to find there. *)
(***************************************************************************)
EXTENDS Naturals, Sequences, SequencesExt

CONSTANTS
  ECT_SII_START,  \* word address of the first category
  EC_MAXNAME,     \* longest string kept
  EC_MAXSM,
  EC_MAXEEPDO     \* size of the arrays of ec_eepromPDOt

ASSUME FormatAssumption ==
  /\ ECT_SII_START \in Nat \ {0} /\ EC_MAXNAME \in Nat \ {0} /\ EC_MAXSM \in Nat \ {0}
  /\ EC_MAXEEPDO \in Nat /\ EC_MAXEEPDO > 1

ECT_SII_STRING == 10
ECT_SII_FMMU == 40
ECT_SII_SM == 41
ECT_SII_PDO == 50   \* 50 TxPDO, 51 RxPDO
EndOfFile == 65535

U16(n) == n % 65536

Word(get, a) == get[a] + 256 * get[U16(a + 1)]

From(a, n) == [i \in 1 .. n |-> U16(a + i - 1)]

Got(get, addresses) == [i \in DOMAIN addresses |-> get[addresses[i]]]

Nothing == [value |-> <<>>, reads |-> <<>>]

-----------------------------------------------------------------------------
\* The categories ecx_siifind visits, by the address of their header.
Visited(get, cat) ==
  LET visit[a \in Nat] ==
        IF Word(get, a) \in {cat, EndOfFile} THEN <<a>>
        ELSE <<a>> \o visit[U16(a + 4 + 2 * Word(get, U16(a + 2)))]
  IN visit[2 * ECT_SII_START]

\* The address of the length of the category, 0 if there is none.
siifind(get, cat) ==
  LET visited == Visited(get, cat) IN
  [value |-> IF Word(get, Last(visited)) = cat THEN U16(Last(visited) + 2) ELSE 0,
   reads |-> FlattenSeq([i \in DOMAIN visited |->
                           From(visited[i], IF i < Len(visited) THEN 4 ELSE 2)])]

\* String Sn of the category at a: the last string read may be shorter than it is.
siistring(get, a, Sn) ==
  LET lengthAt[i \in Nat] ==
        IF i <= 1 THEN U16(a + 3) ELSE U16(lengthAt[i - 1] + 1 + get[lengthAt[i - 1]])
      length == get[lengthAt[Sn]]
      text == From(lengthAt[Sn] + 1, IF length > EC_MAXNAME THEN EC_MAXNAME ELSE length) IN
  IF Sn = 0 \/ Sn > get[U16(a + 2)] THEN [value |-> <<>>, reads |-> <<U16(a + 2)>>]
  ELSE [value |-> Got(get, text),
        reads |-> <<U16(a + 2)>> \o [i \in 1 .. Sn |-> lengthAt[i]] \o text]

siiFMMU(get, a) ==
  LET n == U16(2 * Word(get, a))
      reads == From(a, IF n > 2 THEN 6 ELSE 4) IN
  [value |-> [nFMMU |-> n,
              func |-> [i \in 0 .. 3 |-> IF i < 2 \/ n > 2 THEN get[U16(a + 2 + i)] ELSE 0]],
   reads |-> reads]

\* The first SM, and the number of SMs: a SM has 8 bytes.
siiSM(get, a) ==
  [value |-> [nSM |-> (Word(get, a) \div 4) % 256, SM |-> Got(get, From(a + 2, 8))],
   reads |-> From(a, 10)]

\* SM n of the category that ecx_siiSM found at Startpos with nSM SMs.
siiSMnext(get, Startpos, nSM, n) ==
  LET reads == From(Startpos + 2 + 8 * n, 8) IN
  IF n < nSM THEN [value |-> Got(get, reads), reads |-> reads] ELSE Nothing

-----------------------------------------------------------------------------
(***************************************************************************)
(* ecx_siiPDO.  A PDO has 8 bytes and 8 for each of its entries; the       *)
(* entries of a PDO that no SM carries are not read.  c counts words.      *)
(***************************************************************************)
Entries(get, a) == get[U16(a + 2)]
SyncM(get, a) == get[U16(a + 3)]

EntrySizes(get, a) ==
  IF SyncM(get, a) < EC_MAXSM
    THEN [k \in 1 .. Entries(get, a) |-> U16(a + 5 + 8 * k)] ELSE <<>>

BitSize(get, a) == U16(FoldSeq(+, 0, Got(get, EntrySizes(get, a))))

PDOsSkipUncounted(get, Startpos) ==
  LET Length == Word(get, Startpos)
      from[a \in Nat, c \in Nat, nPDO \in Nat] ==
        LET after == U16(c + 4 + 4 * Len(EntrySizes(get, a))) IN
        <<a>> \o (IF after < Length /\ nPDO < EC_MAXEEPDO - 1
                  THEN from[U16(a + 8 + 8 * Entries(get, a)), after, nPDO + 1] ELSE <<>>)
  IN from[U16(Startpos + 2), 1, 1]

\* The PDOs of the category at Startpos, by their addresses.
PDOs(get, Startpos) ==
  LET Length == Word(get, Startpos)
      from[a \in Nat, c \in Nat, nPDO \in Nat] ==
        LET after == U16(c + 4 + 4 * Entries(get, a))
            again == after < Length /\ nPDO < EC_MAXEEPDO - 1 IN
        <<a>> \o (IF again THEN from[U16(a + 8 + 8 * Entries(get, a)), after, nPDO + 1] ELSE <<>>)
  IN from[U16(Startpos + 2), 1, 1]

siiPDO(get, Startpos) ==
  LET at == PDOs(get, Startpos)
      ofSM(s) == {i \in DOMAIN at : SyncM(get, at[i]) = s}
      sum(I) == U16(FoldSet(LAMBDA i, n : BitSize(get, at[i]) + n, 0, I)) IN
  [value |-> [Index |-> [i \in DOMAIN at |-> Word(get, at[i])],
              SMbitsize |-> [s \in 0 .. EC_MAXSM - 1 |-> sum(ofSM(s))],
              Size |-> sum(DOMAIN at)],
   reads |-> From(Startpos, 2) \o
             FlattenSeq([i \in DOMAIN at |-> From(at[i], 4) \o EntrySizes(get, at[i])])]

-----------------------------------------------------------------------------
(***************************************************************************)
(* What is in an EEPROM, and how its categories lie there: the reference   *)
(* the walkers are checked against.  A content has strings, the functions  *)
(* of the FMMUs, the SMs of 8 bytes each, and the PDOs, by their index, SM *)
(* and the sizes of their entries.                                         *)
(***************************************************************************)

Category(cat, bytes) ==
  LET words == (Len(bytes) + 1) \div 2
      padding == IF Len(bytes) % 2 = 1 THEN <<0>> ELSE <<>> IN
  IF bytes = <<>> THEN <<>>
  ELSE <<cat, 0, words % 256, words \div 256>> \o bytes \o padding

StringBytes(strings) ==
  IF strings = <<>> THEN <<>>
  ELSE <<Len(strings)>> \o FlattenSeq([i \in DOMAIN strings |-> <<Len(strings[i])>> \o strings[i]])

PDOBytes(pdo) ==
  <<pdo.index % 256, pdo.index \div 256, Len(pdo.bits), pdo.sm, 0, 0, 0, 0>> \o
  FlattenSeq([k \in DOMAIN pdo.bits |-> <<0, 0, 0, 0, 0, pdo.bits[k], 0, 0>>])

Categories(c) ==
  <<[cat |-> ECT_SII_STRING, bytes |-> StringBytes(c.strings)],
    [cat |-> ECT_SII_FMMU, bytes |-> c.fmmu],
    [cat |-> ECT_SII_SM, bytes |-> FlattenSeq(c.sm)],
    [cat |-> ECT_SII_PDO, bytes |-> FlattenSeq([i \in DOMAIN c.tx |-> PDOBytes(c.tx[i])])],
    [cat |-> ECT_SII_PDO + 1, bytes |-> FlattenSeq([i \in DOMAIN c.rx |-> PDOBytes(c.rx[i])])]>>

Laid(categories) ==
  FlattenSeq([i \in DOMAIN categories |-> Category(categories[i].cat, categories[i].bytes)])

\* The bytes from address 0 on; before the categories there are others.
Encode(c) ==
  LET bytes == [i \in 1 .. 2 * ECT_SII_START |-> 7] \o Laid(Categories(c)) \o <<255, 255>> IN
  [i \in 0 .. Len(bytes) - 1 |-> bytes[i + 1]]

-----------------------------------------------------------------------------
(***************************************************************************)
(* What the calls return: <<>> if the category does not exist.             *)
(***************************************************************************)
\* The address of the length of a category.
ExpectedFind(c, cat) ==
  LET all == Categories(c)
      mine == {i \in DOMAIN all : all[i].cat = cat /\ all[i].bytes # <<>>} IN
  IF mine = {} THEN 0
  ELSE 2 * ECT_SII_START + 2 + Len(Laid(SubSeq(all, 1, (CHOOSE i \in mine : TRUE) - 1)))

ExpectedString(c, n) ==
  IF c.strings = <<>> THEN <<>>
  ELSE IF n \notin DOMAIN c.strings THEN <<<<>>>>
  ELSE <<SubSeq(c.strings[n], 1, IF Len(c.strings[n]) > EC_MAXNAME THEN EC_MAXNAME
                                 ELSE Len(c.strings[n]))>>

\* FMMUs come in pairs; the function of one that does not exist is padding.
ExpectedFMMU(c) ==
  LET pairs == (Len(c.fmmu) + 1) \div 2 IN
  IF c.fmmu = <<>> THEN <<>>
  ELSE <<[nFMMU |-> 2 * pairs,
          func |-> [i \in 0 .. 3 |-> IF i < Len(c.fmmu) THEN c.fmmu[i + 1] ELSE 0]]>>

ExpectedSM(c) == IF c.sm = <<>> THEN <<>> ELSE <<[nSM |-> Len(c.sm), SM |-> c.sm[1]]>>

ExpectedSMnext(c, n) == <<IF n < Len(c.sm) THEN c.sm[n + 1] ELSE <<>>>>

SumOf(sizes) == FoldSeq(+, 0, sizes)

ExpectedPDO(c, t) ==
  LET pdos == IF t = 0 THEN c.tx ELSE c.rx
      carried(sms) == SumOf([i \in DOMAIN pdos |-> IF pdos[i].sm \in sms THEN SumOf(pdos[i].bits)
                                                   ELSE 0]) IN
  IF pdos = <<>> THEN <<>>
  ELSE <<[Index |-> [i \in DOMAIN pdos |-> pdos[i].index],
          SMbitsize |-> [s \in 0 .. EC_MAXSM - 1 |-> carried({s})],
          Size |-> carried(0 .. EC_MAXSM - 1)]>>

Expected(c, fn, arg) ==
  CASE fn = "find" -> <<ExpectedFind(c, arg)>>
    [] fn = "string" -> ExpectedString(c, arg)
    [] fn = "FMMU" -> ExpectedFMMU(c)
    [] fn = "SM" -> ExpectedSM(c)
    [] fn = "SMnext" -> ExpectedSMnext(c, arg)
    [] fn = "PDO" -> ExpectedPDO(c, arg)
=============================================================================
