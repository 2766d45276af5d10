-------------------------- MODULE StreamParamsProofs --------------------------
(***************************************************************************)
(* What StreamParams guarantees for every width of a word, every pair of   *)
(* units, all numbers and addresses an operator types and any command line.*)
(***************************************************************************)
EXTENDS StreamParams, WriteLemmas, SequenceTheorems, TLAPS

-----------------------------------------------------------------------------
(***************************************************************************)
(* The table of the setters.                                               *)
(***************************************************************************)
Entry(unit, n, code) == [reg |-> <<unit, n>>, code |-> code]

\* A setter writes the registers it names, in order.
LEMMA ToIs ==
  /\ \A unit, code : \A n \in Nat : To(unit, <<n>>, code) = <<Entry(unit, n, code)>>
  /\ \A unit, code : \A a, b, c, d, e \in Nat :
       To(unit, <<a, b, c, d, e>>, code) =
         <<Entry(unit, a, code), Entry(unit, b, code), Entry(unit, c, code),
           Entry(unit, d, code), Entry(unit, e, code)>>
BY DEF To, Entry

\* The parameters, by name.
LEMMA ParamsAre ==
  /\ Network = {"strlip", "strgip", "strmask", "strdip", "strport", "strsip",
                "strsport"}
  /\ DOMAIN NumberSetters =
       {"strplen", "setsyncdly", "strblen", "sethdrlen", "setdlim",
        "setbslk", "setpoutdly", "setbdlm", "setlooplimit", "strporder",
        "setplcpktsize", "setprdly", "setsqlkdly", "setppdly", "setsqsdly",
        "setpblim"}
  /\ Network \cap DOMAIN NumberSetters = {}
<1>1. Network = {"strlip", "strgip", "strmask", "strdip", "strport", "strsip",
                "strsport"}
  BY DEF Network, NetworkSetters
<1>2. DOMAIN NumberSetters =
       {"strplen", "setsyncdly", "strblen", "sethdrlen", "setdlim",
        "setbslk", "setpoutdly", "setbdlm", "setlooplimit", "strporder",
        "setplcpktsize", "setprdly", "setsqlkdly", "setppdly", "setsqsdly",
        "setpblim"}
  BY DEF NumberSetters
<1> QED
  BY <1>1, <1>2

\* One after the other.
LEMMA OneAndOne ==
  ASSUME NEW a, NEW b
  PROVE  <<a>> \o <<b>> = <<a, b>>
<1> DEFINE W == {a, b}
<1>1. PICK s \in Seq(W), t \in Seq(W) :
        /\ s = <<a>> /\ Len(s) = 1 /\ s[1] = a
        /\ t = <<b>> /\ Len(t) = 1 /\ t[1] = b
  <2>1. <<a>> \in Seq(W) /\ Len(<<a>>) = 1 /\ <<a>>[1] = a
    OBVIOUS
  <2>2. <<b>> \in Seq(W) /\ Len(<<b>>) = 1 /\ <<b>>[1] = b
    OBVIOUS
  <2> QED
    BY <2>1, <2>2
<1>2. PICK u \in Seq(W) : u = <<a, b>> /\ Len(u) = 2 /\ u[1] = a /\ u[2] = b
  <2>1. <<a, b>> \in Seq(W) /\ Len(<<a, b>>) = 2 /\ <<a, b>>[1] = a /\ <<a, b>>[2] = b
    OBVIOUS
  <2> QED
    BY <2>1
<1> HIDE DEF W
<1>3. /\ s \o t \in Seq(W) /\ Len(s \o t) = 1 + 1
      /\ \A i \in 1 .. 1 + 1 : (s \o t)[i] = IF i <= 1 THEN s[i] ELSE t[i - 1]
  BY <1>1, ConcatProperties
<1>4. Len(s \o t) = Len(u) /\ \A i \in 1 .. Len(s \o t) : (s \o t)[i] = u[i]
  BY <1>1, <1>2, <1>3
<1>5. s \o t = u
  BY <1>2, <1>3, <1>4, SeqEqual
<1> QED
  BY <1>1, <1>2, <1>5

\* What each of them writes.
LEMMA NetworkTable ==
  /\ Setter("strlip") = <<Entry("udp", 2, "word")>>
  /\ Setter("strgip") = <<Entry("udp", 3, "word")>>
  /\ Setter("strmask") = <<Entry("udp", 4, "word")>>
  /\ Setter("strdip") =
       <<Entry("udp", 5, "word"), Entry("udp", 7, "word"), Entry("udp", 9, "word"),
         Entry("udp", 11, "word"), Entry("udp", 13, "word")>>
  /\ Setter("strport") =
       <<Entry("udp", 6, "word"), Entry("udp", 8, "word"), Entry("udp", 10, "word"),
         Entry("udp", 12, "word"), Entry("udp", 14, "word")>>
  /\ Setter("strsip") = <<Entry("udp", 16, "word")>>
  /\ Setter("strsport") = <<Entry("udp", 17, "word")>>
<1>1. /\ Setter("strlip") = To("udp", <<2>>, "word")
      /\ Setter("strgip") = To("udp", <<3>>, "word")
      /\ Setter("strmask") = To("udp", <<4>>, "word")
      /\ Setter("strdip") = To("udp", <<5, 7, 9, 11, 13>>, "word")
      /\ Setter("strport") = To("udp", <<6, 8, 10, 12, 14>>, "word")
      /\ Setter("strsip") = To("udp", <<16>>, "word")
      /\ Setter("strsport") = To("udp", <<17>>, "word")
  BY ParamsAre DEF Setter, NetworkSetters, write_eth_param
<1>2. \A n \in Nat : To("udp", <<n>>, "word") = <<Entry("udp", n, "word")>>
  BY ToIs
<1>3. /\ To("udp", <<5, 7, 9, 11, 13>>, "word") =
           <<Entry("udp", 5, "word"), Entry("udp", 7, "word"), Entry("udp", 9, "word"),
             Entry("udp", 11, "word"), Entry("udp", 13, "word")>>
      /\ To("udp", <<6, 8, 10, 12, 14>>, "word") =
           <<Entry("udp", 6, "word"), Entry("udp", 8, "word"), Entry("udp", 10, "word"),
             Entry("udp", 12, "word"), Entry("udp", 14, "word")>>
  <2>1. \A a, b, c, d, e \in Nat : To("udp", <<a, b, c, d, e>>, "word") =
          <<Entry("udp", a, "word"), Entry("udp", b, "word"), Entry("udp", c, "word"),
            Entry("udp", d, "word"), Entry("udp", e, "word")>>
    BY ToIs
  <2> QED
    BY <2>1
<1> QED
  BY <1>1, <1>2, <1>3

\* The registers of the setters of numbers.
LEMMA NumberTable ==
  /\ Setter("strplen") = <<Entry("a2e", 3, "word")>>
  /\ Setter("setsyncdly") = <<Entry("ts", 5, "word")>>
  /\ Setter("strblen") = <<Entry("e2a", 5, "word")>>
  /\ Setter("sethdrlen") = <<Entry("e2a", 9, "word")>>
  /\ Setter("setdlim") = <<Entry("e2a", 9, "word")>>
  /\ Setter("setbslk") = <<Entry("e2a", 10, "word")>>
  /\ Setter("setpoutdly") = <<Entry("e2a", 11, "playout")>>
  /\ Setter("setbdlm") = <<Entry("e2a", 11, "word")>>
  /\ Setter("setlooplimit") = <<Entry("e2a", 29, "word")>>
  /\ Setter("strporder") = <<Entry("seq", 0, "word")>>
  /\ Setter("setplcpktsize") = <<Entry("seq", 7, "less 2")>>
  /\ Setter("setprdly") = <<Entry("seq", 8, "word")>>
  /\ Setter("setsqlkdly") = <<Entry("seq", 10, "word")>>
  /\ Setter("setppdly") = <<Entry("seq", 2, "low"), Entry("seq", 3, "high")>>
  /\ Setter("setsqsdly") = <<>>
  /\ Setter("setpblim") = <<Entry("seq", 6, "word"), Entry("e2a", 6, "word")>>
<1>1. /\ Setter("strplen") = To("a2e", <<3>>, "word")
      /\ Setter("setsyncdly") = To("ts", <<5>>, "word")
      /\ Setter("strblen") = To("e2a", <<5>>, "word")
      /\ Setter("sethdrlen") = To("e2a", <<9>>, "word")
      /\ Setter("setdlim") = To("e2a", <<9>>, "word")
      /\ Setter("setbslk") = To("e2a", <<10>>, "word")
      /\ Setter("setpoutdly") = To("e2a", <<11>>, "playout")
      /\ Setter("setbdlm") = To("e2a", <<11>>, "word")
      /\ Setter("setlooplimit") = To("e2a", <<29>>, "word")
      /\ Setter("strporder") = To("seq", <<0>>, "word")
      /\ Setter("setplcpktsize") = To("seq", <<7>>, "less 2")
      /\ Setter("setprdly") = To("seq", <<8>>, "word")
      /\ Setter("setsqlkdly") = To("seq", <<10>>, "word")
      /\ Setter("setppdly") = To("seq", <<2>>, "low") \o To("seq", <<3>>, "high")
      /\ Setter("setsqsdly") = <<>>
      /\ Setter("setpblim") = To("seq", <<6>>, "word") \o To("e2a", <<6>>, "word")
  BY ParamsAre DEF Setter, NumberSetters, set_stream_pkt_wait, set_stream_rx_buf_lim,
       set_stream_rx_buf_lim2, set_stream_rx_pkt_size
<1>2. \A a, b : <<a>> \o <<b>> = <<a, b>>
  BY OneAndOne
<1>3. /\ Setter("setppdly") = <<Entry("seq", 2, "low"), Entry("seq", 3, "high")>>
      /\ Setter("setpblim") = <<Entry("seq", 6, "word"), Entry("e2a", 6, "word")>>
  <2>1. /\ To("seq", <<2>>, "low") = <<Entry("seq", 2, "low")>>
        /\ To("seq", <<3>>, "high") = <<Entry("seq", 3, "high")>>
        /\ To("seq", <<6>>, "word") = <<Entry("seq", 6, "word")>>
        /\ To("e2a", <<6>>, "word") = <<Entry("e2a", 6, "word")>>
    BY ToIs
  <2> QED
    BY <1>1, <1>2, <2>1
<1>4. \A unit, code : \A n \in Nat : To(unit, <<n>>, code) = <<Entry(unit, n, code)>>
  BY ToIs
<1> QED
  BY <1>1, <1>3, <1>4

Units == {"udp", "a2e", "e2a", "seq", "ts"}
Codes == {"word", "less 2", "playout", "low", "high"}

\* The parameter a register belongs to.  Two registers have two setters; the
\* first of them stands for both.
Owner(unit, n) ==
  IF unit = "udp" THEN
         IF n = 2 THEN "strlip"
    ELSE IF n = 3 THEN "strgip"
    ELSE IF n = 4 THEN "strmask"
    ELSE IF n \in {5, 7, 9, 11, 13} THEN "strdip"
    ELSE IF n \in {6, 8, 10, 12, 14} THEN "strport"
    ELSE IF n = 16 THEN "strsip" ELSE "strsport"
  ELSE IF unit = "seq" THEN
         IF n = 0 THEN "strporder"
    ELSE IF n \in {2, 3} THEN "setppdly"
    ELSE IF n = 6 THEN "setpblim"
    ELSE IF n = 7 THEN "setplcpktsize"
    ELSE IF n = 8 THEN "setprdly" ELSE "setsqlkdly"
  ELSE IF unit = "e2a" THEN
         IF n = 5 THEN "strblen"
    ELSE IF n = 6 THEN "setpblim"
    ELSE IF n = 9 THEN "sethdrlen"
    ELSE IF n = 10 THEN "setbslk"
    ELSE IF n = 11 THEN "setpoutdly"
    ELSE IF n = 29 THEN "setlooplimit" ELSE "setcrwin"
  ELSE IF unit = "a2e" THEN "strplen" ELSE "setsyncdly"

Family(p) ==
  IF p = "setdlim" THEN "sethdrlen" ELSE IF p = "setbdlm" THEN "setpoutdly" ELSE p

\* What the proofs need of a setter: distinct registers of its own family.
Orderly(p, s) ==
  /\ s \in Seq([reg : Units \X Nat, code : Codes])
  /\ \A i \in DOMAIN s : Owner(s[i].reg[1], s[i].reg[2]) = Family(p)
  /\ \A i, j \in DOMAIN s : s[i].reg = s[j].reg => i = j

\* A setter of one register.
LEMMA OneRegister ==
  ASSUME NEW p, NEW unit \in Units, NEW n \in Nat, NEW code \in Codes,
         Owner(unit, n) = Family(p)
  PROVE  Orderly(p, <<Entry(unit, n, code)>>)
<1>1. Entry(unit, n, code) \in [reg : Units \X Nat, code : Codes]
  BY DEF Entry
<1>2. <<Entry(unit, n, code)>> \in Seq([reg : Units \X Nat, code : Codes])
  BY <1>1
<1>3. Entry(unit, n, code).reg = <<unit, n>>
  BY DEF Entry
<1>4. /\ DOMAIN <<Entry(unit, n, code)>> = {1}
      /\ <<Entry(unit, n, code)>>[1] = Entry(unit, n, code)
  OBVIOUS
<1> QED
  BY <1>2, <1>3, <1>4 DEF Orderly

\* A setter of two registers.
LEMMA TwoRegisters ==
  ASSUME NEW p, NEW a \in Units, NEW b \in Units, NEW m \in Nat, NEW n \in Nat,
         NEW code \in Codes, NEW to \in Codes,
         <<a, m>> # <<b, n>>, Owner(a, m) = Family(p), Owner(b, n) = Family(p)
  PROVE  Orderly(p, <<Entry(a, m, code), Entry(b, n, to)>>)
<1> DEFINE s == <<Entry(a, m, code), Entry(b, n, to)>>
<1>1. s \in Seq([reg : Units \X Nat, code : Codes])
  <2>1. /\ Entry(a, m, code) \in [reg : Units \X Nat, code : Codes]
        /\ Entry(b, n, to) \in [reg : Units \X Nat, code : Codes]
    BY DEF Entry
  <2> QED
    BY <2>1
<1>2. /\ DOMAIN s = {1, 2}
      /\ s[1].reg = <<a, m>> /\ s[2].reg = <<b, n>>
  BY DEF Entry
<1> HIDE DEF s
<1> QED
  BY <1>1, <1>2 DEF Orderly, s

\* A destination is a setter of five registers.
LEMMA FiveRegisters ==
  ASSUME NEW p \in {"strdip", "strport"}
  PROVE  Orderly(p, Setter(p))
<1>1. PICK n \in {5, 6} : /\ n = IF p = "strdip" THEN 5 ELSE 6
                         /\ Setter(p) = <<Entry("udp", n, "word"), Entry("udp", n + 2, "word"),
                                          Entry("udp", n + 4, "word"), Entry("udp", n + 6, "word"),
                                          Entry("udp", n + 8, "word")>>
  BY NetworkTable
<1>2. PICK s : s = Setter(p)
  OBVIOUS
<1>3. DOMAIN s = 1 .. 5
  BY <1>1, <1>2
<1>4. \A i \in 1 .. 5 : s[i] = Entry("udp", n + 2 * (i - 1), "word")
  BY <1>1, <1>2
<1>5. \A i \in 1 .. 5 : s[i].reg = <<"udp", n + 2 * (i - 1)>> /\ s[i].code = "word"
  BY <1>4 DEF Entry
<1>6. s \in Seq([reg : Units \X Nat, code : Codes])
  <2>1. \A m \in Nat : Entry("udp", m, "word") \in [reg : Units \X Nat, code : Codes]
    BY DEF Entry, Units, Codes
  <2> QED
    BY <1>1, <1>2, <2>1
<1>7. \A i \in 1 .. 5 : Owner("udp", n + 2 * (i - 1)) = Family(p)
  <2>1. \A i \in 1 .. 5 : n + 2 * (i - 1) \in IF p = "strdip" THEN {5, 7, 9, 11, 13}
                                              ELSE {6, 8, 10, 12, 14}
    BY <1>1
  <2> QED
    BY <2>1 DEF Owner, Family
<1> QED
  BY <1>2, <1>3, <1>5, <1>6, <1>7 DEF Orderly

\* Every setter is orderly.
LEMMA SettersAreOrderly == \A p \in Params : Orderly(p, Setter(p))
<1> USE DEF Codes, Units
<1>1. Orderly("strlip", Setter("strlip"))
  <2>1. Owner("udp", 2) = Family("strlip")
    BY DEF Owner, Family
  <2>2. Orderly("strlip", <<Entry("udp", 2, "word")>>)
    BY <2>1, OneRegister
  <2> QED
    BY <2>2, NetworkTable, NumberTable
<1>2. Orderly("strgip", Setter("strgip"))
  <2>1. Owner("udp", 3) = Family("strgip")
    BY DEF Owner, Family
  <2>2. Orderly("strgip", <<Entry("udp", 3, "word")>>)
    BY <2>1, OneRegister
  <2> QED
    BY <2>2, NetworkTable, NumberTable
<1>3. Orderly("strmask", Setter("strmask"))
  <2>1. Owner("udp", 4) = Family("strmask")
    BY DEF Owner, Family
  <2>2. Orderly("strmask", <<Entry("udp", 4, "word")>>)
    BY <2>1, OneRegister
  <2> QED
    BY <2>2, NetworkTable, NumberTable
<1>4. Orderly("strsip", Setter("strsip"))
  <2>1. Owner("udp", 16) = Family("strsip")
    BY DEF Owner, Family
  <2>2. Orderly("strsip", <<Entry("udp", 16, "word")>>)
    BY <2>1, OneRegister
  <2> QED
    BY <2>2, NetworkTable, NumberTable
<1>5. Orderly("strsport", Setter("strsport"))
  <2>1. Owner("udp", 17) = Family("strsport")
    BY DEF Owner, Family
  <2>2. Orderly("strsport", <<Entry("udp", 17, "word")>>)
    BY <2>1, OneRegister
  <2> QED
    BY <2>2, NetworkTable, NumberTable
<1>6. Orderly("strplen", Setter("strplen"))
  <2>1. Owner("a2e", 3) = Family("strplen")
    BY DEF Owner, Family
  <2>2. Orderly("strplen", <<Entry("a2e", 3, "word")>>)
    BY <2>1, OneRegister
  <2> QED
    BY <2>2, NetworkTable, NumberTable
<1>7. Orderly("setsyncdly", Setter("setsyncdly"))
  <2>1. Owner("ts", 5) = Family("setsyncdly")
    BY DEF Owner, Family
  <2>2. Orderly("setsyncdly", <<Entry("ts", 5, "word")>>)
    BY <2>1, OneRegister
  <2> QED
    BY <2>2, NetworkTable, NumberTable
<1>8. Orderly("strblen", Setter("strblen"))
  <2>1. Owner("e2a", 5) = Family("strblen")
    BY DEF Owner, Family
  <2>2. Orderly("strblen", <<Entry("e2a", 5, "word")>>)
    BY <2>1, OneRegister
  <2> QED
    BY <2>2, NetworkTable, NumberTable
<1>9. Orderly("sethdrlen", Setter("sethdrlen"))
  <2>1. Owner("e2a", 9) = Family("sethdrlen")
    BY DEF Owner, Family
  <2>2. Orderly("sethdrlen", <<Entry("e2a", 9, "word")>>)
    BY <2>1, OneRegister
  <2> QED
    BY <2>2, NetworkTable, NumberTable
<1>10. Orderly("setdlim", Setter("setdlim"))
  <2>1. Owner("e2a", 9) = Family("setdlim")
    BY DEF Owner, Family
  <2>2. Orderly("setdlim", <<Entry("e2a", 9, "word")>>)
    BY <2>1, OneRegister
  <2> QED
    BY <2>2, NetworkTable, NumberTable
<1>11. Orderly("setbslk", Setter("setbslk"))
  <2>1. Owner("e2a", 10) = Family("setbslk")
    BY DEF Owner, Family
  <2>2. Orderly("setbslk", <<Entry("e2a", 10, "word")>>)
    BY <2>1, OneRegister
  <2> QED
    BY <2>2, NetworkTable, NumberTable
<1>12. Orderly("setpoutdly", Setter("setpoutdly"))
  <2>1. Owner("e2a", 11) = Family("setpoutdly")
    BY DEF Owner, Family
  <2>2. Orderly("setpoutdly", <<Entry("e2a", 11, "playout")>>)
    BY <2>1, OneRegister
  <2> QED
    BY <2>2, NetworkTable, NumberTable
<1>13. Orderly("setbdlm", Setter("setbdlm"))
  <2>1. Owner("e2a", 11) = Family("setbdlm")
    BY DEF Owner, Family
  <2>2. Orderly("setbdlm", <<Entry("e2a", 11, "word")>>)
    BY <2>1, OneRegister
  <2> QED
    BY <2>2, NetworkTable, NumberTable
<1>14. Orderly("setlooplimit", Setter("setlooplimit"))
  <2>1. Owner("e2a", 29) = Family("setlooplimit")
    BY DEF Owner, Family
  <2>2. Orderly("setlooplimit", <<Entry("e2a", 29, "word")>>)
    BY <2>1, OneRegister
  <2> QED
    BY <2>2, NetworkTable, NumberTable
<1>15. Orderly("strporder", Setter("strporder"))
  <2>1. Owner("seq", 0) = Family("strporder")
    BY DEF Owner, Family
  <2>2. Orderly("strporder", <<Entry("seq", 0, "word")>>)
    BY <2>1, OneRegister
  <2> QED
    BY <2>2, NetworkTable, NumberTable
<1>16. Orderly("setplcpktsize", Setter("setplcpktsize"))
  <2>1. Owner("seq", 7) = Family("setplcpktsize")
    BY DEF Owner, Family
  <2>2. Orderly("setplcpktsize", <<Entry("seq", 7, "less 2")>>)
    BY <2>1, OneRegister
  <2> QED
    BY <2>2, NetworkTable, NumberTable
<1>17. Orderly("setprdly", Setter("setprdly"))
  <2>1. Owner("seq", 8) = Family("setprdly")
    BY DEF Owner, Family
  <2>2. Orderly("setprdly", <<Entry("seq", 8, "word")>>)
    BY <2>1, OneRegister
  <2> QED
    BY <2>2, NetworkTable, NumberTable
<1>18. Orderly("setsqlkdly", Setter("setsqlkdly"))
  <2>1. Owner("seq", 10) = Family("setsqlkdly")
    BY DEF Owner, Family
  <2>2. Orderly("setsqlkdly", <<Entry("seq", 10, "word")>>)
    BY <2>1, OneRegister
  <2> QED
    BY <2>2, NetworkTable, NumberTable
<1>19. Orderly("setppdly", Setter("setppdly"))
  <2>1. Owner("seq", 2) = Family("setppdly") /\ Owner("seq", 3) = Family("setppdly")
    BY DEF Owner, Family
  <2>2. <<"seq", 2>> # <<"seq", 3>> /\ "low" \in Codes /\ "high" \in Codes
    OBVIOUS
  <2>3. "seq" \in Units /\ 2 \in Nat /\ 3 \in Nat
    OBVIOUS
  <2> HIDE DEF Codes, Units
  <2>4. Orderly("setppdly", <<Entry("seq", 2, "low"), Entry("seq", 3, "high")>>)
    BY <2>1, <2>2, <2>3, TwoRegisters
  <2> QED
    BY <2>4, NumberTable
<1>20. Orderly("setpblim", Setter("setpblim"))
  <2>1. Owner("seq", 6) = Family("setpblim") /\ Owner("e2a", 6) = Family("setpblim")
    BY DEF Owner, Family
  <2>2. Orderly("setpblim", <<Entry("seq", 6, "word"), Entry("e2a", 6, "word")>>)
    BY <2>1, TwoRegisters
  <2> QED
    BY <2>2, NumberTable
<1>21. Orderly("setsqsdly", Setter("setsqsdly"))
  <2>1. DOMAIN <<>> = {} /\ <<>> \in Seq([reg : Units \X Nat, code : Codes])
    OBVIOUS
  <2> QED
    BY <2>1, NumberTable DEF Orderly
<1>22. Orderly("strdip", Setter("strdip")) /\ Orderly("strport", Setter("strport"))
  BY FiveRegisters
<1> QED
  BY ParamsAre, <1>1, <1>2, <1>3, <1>4, <1>5, <1>6, <1>7, <1>8, <1>9, <1>10,
     <1>11, <1>12, <1>13, <1>14, <1>15, <1>16, <1>17, <1>18, <1>19, <1>20,
     <1>21, <1>22 DEF Params

-----------------------------------------------------------------------------
(***************************************************************************)
(* Words.                                                                  *)
(***************************************************************************)
\* All that is typed is a word.
LEMMA WordsAre ==
  /\ Word \in Nat /\ Word > 1 /\ Words \subseteq Int
  /\ Typed \subseteq Words /\ 0 \in Words /\ Word - 1 \in Words
BY ParamsAssumption DEF Words

\* What a setter writes is a word.
LEMMA CodedFits ==
  ASSUME NEW code \in Codes, NEW v \in Int
  PROVE  Coded(code, v) \in Words
<1>1. \A x \in Int : x % Word \in Words
  <2>1. Word \in Nat \ {0}
    BY WordsAre
  <2> QED
    BY <2>1, ModIs DEF Words
<1>2. v * PlayoutUnit \in Int /\ v * WaitUnit \in Int /\ v + Word - 2 \in Int
  BY WordsAre, ParamsAssumption
<1> QED
  BY <1>1, <1>2, WordsAre DEF Codes, Coded

-----------------------------------------------------------------------------
(***************************************************************************)
(* What the setters write.                                                 *)
(***************************************************************************)
Pairs == [cell : Registers, val : Words]

Touches(p, c) == \E i \in DOMAIN Setter(p) : Setter(p)[i].reg = c

\* The writes s set the parameters D to args and touch no other register.
Does(s, D, args) ==
  /\ s \in Seq(Pairs)
  /\ \A p \in D : \A i \in DOMAIN Setter(p) :
       Last(s, Setter(p)[i].reg, Coded(Setter(p)[i].code, args[p]))
  /\ \A c : (\A p \in D : ~Touches(p, c)) => Avoids(s, c)

\* What a setter writes is a register of the model, in a known code.
LEMMA RegistersAre ==
  /\ \A p \in Params : \A i \in DOMAIN Setter(p) :
       Setter(p)[i].reg \in Registers /\ Setter(p)[i].code \in Codes
  /\ <<"e2a", 23>> \in Registers
<1>1. ASSUME NEW p \in Params, NEW i \in DOMAIN Setter(p)
      PROVE  Setter(p)[i].reg \in Registers /\ Setter(p)[i].code \in Codes
  <2>1. Setter(p)[i] \in Writes
    BY DEF Writes
  <2>2. PICK s : s = Setter(p)
    OBVIOUS
  <2>3. s \in Seq([reg : Units \X Nat, code : Codes]) /\ i \in DOMAIN s
    BY <2>2, SettersAreOrderly DEF Orderly
  <2>4. s[i] \in [reg : Units \X Nat, code : Codes]
    <3>1. \A S : s \in Seq(S) => s[i] \in S
      BY <2>3
    <3> QED
      BY <2>3, <3>1
  <2> QED
    BY <2>1, <2>2, <2>4 DEF Registers
<1>2. CorrectionWindow[1].reg = <<"e2a", 23>>
  <2>1. CorrectionWindow = <<Entry("e2a", 23, "word")>>
    BY ToIs DEF CorrectionWindow
  <2> QED
    BY <2>1 DEF Entry
<1> QED
  BY <1>1, <1>2 DEF Registers

\* Setters of different families have no register in common.
LEMMA FamiliesAreApart ==
  ASSUME NEW p \in Params, NEW q \in Params, Family(p) # Family(q),
         NEW i \in DOMAIN Setter(q)
  PROVE  ~Touches(p, Setter(q)[i].reg)
<1>1. PICK s : s = Setter(p)
  OBVIOUS
<1>2. PICK t : t = Setter(q)
  OBVIOUS
<1>3. \A j \in DOMAIN s : Owner(s[j].reg[1], s[j].reg[2]) = Family(p)
  BY <1>1, SettersAreOrderly DEF Orderly
<1>4. Owner(t[i].reg[1], t[i].reg[2]) = Family(q)
  BY <1>2, SettersAreOrderly DEF Orderly
<1> QED
  BY <1>1, <1>2, <1>3, <1>4 DEF Touches

\* Nobody's setter writes the correction window.
LEMMA WindowIsApart ==
  ASSUME NEW p \in Params
  PROVE  ~Touches(p, <<"e2a", 23>>)
<1>1. PICK s : s = Setter(p)
  OBVIOUS
<1>2. \A j \in DOMAIN s : Owner(s[j].reg[1], s[j].reg[2]) = Family(p)
  BY <1>1, SettersAreOrderly DEF Orderly
<1>3. Owner("e2a", 23) = "setcrwin"
  BY DEF Owner
<1>4. Family(p) # "setcrwin"
  BY ParamsAre DEF Params, Family
<1> QED
  BY <1>1, <1>2, <1>3, <1>4 DEF Touches

\* One setter.
LEMMA SetterDoes ==
  ASSUME NEW p \in Params, NEW v \in Int, NEW args, args[p] = v
  PROVE  Does(Encoded(Setter(p), v), {p}, args)
<1>1. PICK s : s = Setter(p)
  OBVIOUS
<1>2. /\ s \in Seq([reg : Units \X Nat, code : Codes])
      /\ \A i, j \in DOMAIN s : s[i].reg = s[j].reg => i = j
      /\ \A i \in DOMAIN s : s[i].reg \in Registers /\ s[i].code \in Codes
  BY <1>1, SettersAreOrderly, RegistersAre DEF Orderly
<1>3. PICK n \in Nat : n = Len(s) /\ DOMAIN s = 1 .. n
  BY <1>2
<1> DEFINE e(i) == [cell |-> s[i].reg, val |-> Coded(s[i].code, v)]
<1>4. Encoded(s, v) = [i \in 1 .. n |-> e(i)]
  BY <1>3 DEF Encoded
<1>5. \A i \in 1 .. n : e(i) \in Pairs
  BY <1>2, <1>3, CodedFits DEF Pairs
<1>6. PICK t \in Seq(Pairs) : /\ t = Encoded(s, v) /\ DOMAIN t = 1 .. n
                              /\ \A i \in 1 .. n : t[i] = e(i)
  <2> HIDE DEF e
  <2> QED
    BY <1>4, <1>5
<1>7. ASSUME NEW i \in DOMAIN s
      PROVE  Last(t, s[i].reg, Coded(s[i].code, v))
  <2>1. \A j \in 1 .. n : j > i => t[j].cell # s[i].reg
    <3>1. \A j \in 1 .. n : t[j].cell = s[j].reg
      BY <1>6
    <3>2. \A j \in 1 .. n : s[j].reg = s[i].reg => j = i
      BY <1>2, <1>3
    <3> QED
      BY <1>3, <3>1, <3>2
  <2> QED
    BY <1>3, <1>6, <2>1 DEF Last
<1>8. ASSUME NEW c, ~Touches(p, c)
      PROVE  Avoids(t, c)
  BY <1>1, <1>3, <1>6, <1>8 DEF Avoids, Touches
<1> QED
  BY <1>1, <1>6, <1>7, <1>8 DEF Does

\* Another setter, of another family.
LEMMA AndSetter ==
  ASSUME NEW s, NEW D \in SUBSET Params, NEW args, Does(s, D, args),
         NEW p \in Params, \A q \in D : Family(q) # Family(p),
         NEW t, Does(t, {p}, args)
  PROVE  Does(s \o t, D \cup {p}, args)
<1>1. s \in Seq(Pairs) /\ t \in Seq(Pairs)
  BY DEF Does
<1>2. \A q \in D : \A i \in DOMAIN Setter(q) :
        Last(s \o t, Setter(q)[i].reg, Coded(Setter(q)[i].code, args[q]))
  <2> TAKE q \in D
  <2> TAKE i \in DOMAIN Setter(q)
  <2>1. Last(s, Setter(q)[i].reg, Coded(Setter(q)[i].code, args[q]))
    BY DEF Does
  <2>2. ~Touches(p, Setter(q)[i].reg)
    BY FamiliesAreApart
  <2>3. Avoids(t, Setter(q)[i].reg)
    BY <2>2 DEF Does
  <2> QED
    BY <1>1, <2>1, <2>3, LastOfTwo
<1>3. \A i \in DOMAIN Setter(p) :
        Last(s \o t, Setter(p)[i].reg, Coded(Setter(p)[i].code, args[p]))
  <2> TAKE i \in DOMAIN Setter(p)
  <2>1. Last(t, Setter(p)[i].reg, Coded(Setter(p)[i].code, args[p]))
    BY DEF Does
  <2> QED
    BY <1>1, <2>1, LastOfTwo
<1>4. \A c : (\A q \in D \cup {p} : ~Touches(q, c)) => Avoids(s \o t, c)
  <2> TAKE c
  <2> HAVE \A q \in D \cup {p} : ~Touches(q, c)
  <2>1. Avoids(s, c) /\ Avoids(t, c)
    BY DEF Does
  <2> QED
    BY <1>1, <2>1, LastOfTwo
<1>5. s \o t \in Seq(Pairs)
  BY <1>1
<1> QED
  BY <1>2, <1>3, <1>4, <1>5 DEF Does

\* The command line: six setters.
LEMMA LaunchDoes ==
  ASSUME NEW args \in LaunchArgs
  PROVE  Does(Encoded(Setter("strlip"), args["strlip"]) \o Encoded(Setter("strdip"), args["strdip"])
                \o Encoded(Setter("strmask"), args["strmask"])
                \o Encoded(Setter("strgip"), args["strgip"])
                \o Encoded(Setter("strport"), args["strport"])
                \o Encoded(Setter("strsport"), args["strsport"]),
              Network \ {"strsip"}, args)
<1> DEFINE In(p) == Encoded(Setter(p), args[p])
<1>1. \A p \in Network \ {"strsip"} : args[p] \in Int /\ p \in Params
  <2>1. args \in [Network \ {"strsip"} -> Typed] /\ Typed \subseteq Int
    BY ParamsAssumption, WordsAre
  <2> QED
    BY <2>1 DEF Params
<1>2. \A p \in Network \ {"strsip"} : Does(In(p), {p}, args)
  BY <1>1, SetterDoes
<1>3. \A p, q \in Network : p # q => Family(p) # Family(q)
  BY ParamsAre DEF Family
<1>4. /\ "strlip" \in Network \ {"strsip"} /\ "strdip" \in Network \ {"strsip"}
      /\ "strmask" \in Network \ {"strsip"} /\ "strgip" \in Network \ {"strsip"}
      /\ "strport" \in Network \ {"strsip"} /\ "strsport" \in Network \ {"strsip"}
  BY ParamsAre
<1> HIDE DEF In
<1>5. \A s, D : \A p \in Network \ {"strsip"} :
        D \subseteq Network \ {"strsip"} /\ p \notin D /\ Does(s, D, args)
          => Does(s \o In(p), D \cup {p}, args)
  <2> SUFFICES ASSUME NEW s, NEW D, NEW p \in Network \ {"strsip"},
                      D \subseteq Network \ {"strsip"}, p \notin D, Does(s, D, args)
               PROVE  Does(s \o In(p), D \cup {p}, args)
    OBVIOUS
  <2>1. D \in SUBSET Params /\ \A q \in D : Family(q) # Family(p)
    BY <1>1, <1>3
  <2> QED
    BY <1>1, <1>2, <2>1, AndSetter
<1>6. Does(In("strlip") \o In("strdip"), {"strlip"} \cup {"strdip"}, args)
  BY <1>2, <1>4, <1>5
<1>7. Does((In("strlip") \o In("strdip")) \o In("strmask"),
           ({"strlip"} \cup {"strdip"}) \cup {"strmask"}, args)
  BY <1>4, <1>5, <1>6
<1>8. Does(((In("strlip") \o In("strdip")) \o In("strmask")) \o In("strgip"),
           (({"strlip"} \cup {"strdip"}) \cup {"strmask"}) \cup {"strgip"}, args)
  BY <1>4, <1>5, <1>7
<1>9. Does((((In("strlip") \o In("strdip")) \o In("strmask")) \o In("strgip")) \o In("strport"),
           ((({"strlip"} \cup {"strdip"}) \cup {"strmask"}) \cup {"strgip"}) \cup {"strport"}, args)
  BY <1>4, <1>5, <1>8
<1>10. Does(((((In("strlip") \o In("strdip")) \o In("strmask")) \o In("strgip")) \o In("strport"))
              \o In("strsport"),
            (((({"strlip"} \cup {"strdip"}) \cup {"strmask"}) \cup {"strgip"}) \cup {"strport"})
              \cup {"strsport"}, args)
  BY <1>4, <1>5, <1>9
<1>11. (((({"strlip"} \cup {"strdip"}) \cup {"strmask"}) \cup {"strgip"}) \cup {"strport"})
         \cup {"strsport"} = Network \ {"strsip"}
  BY ParamsAre
<1> QED
  BY <1>10, <1>11 DEF In

-----------------------------------------------------------------------------
(***************************************************************************)
(* The inductive invariant.  SettingsHold says nothing of a command that   *)
(* runs, so the invariant adds what its remaining writes will leave; and   *)
(* what was given stands only for a parameter that is Sure: no other       *)
(* parameter that can be set has one of its registers.                     *)
(***************************************************************************)
Settable == (Commands \cap Params) \cup (Network \ {"strsip"})

Sure(p) ==
  \A q \in Settable \ {p} : \A i \in DOMAIN Setter(p) : ~Touches(q, Setter(p)[i].reg)

\* The getters that read a register of their setter.
Plain(g) == g \notin {"getgip", "getmask", "getport"}

Typing ==
  /\ TypeOK
  /\ command \in {"none", "off"} => todo = <<>> /\ DOMAIN setting = {}
  /\ DOMAIN setting \subseteq Settable
  /\ \A p \in Params : given[p] # Unset => p \in Settable

GivenStands ==
  \A p \in Params : Sure(p) /\ given[p] # Unset =>
    \A i \in DOMAIN Setter(p) :
      /\ reg[Setter(p)[i].reg] = Coded(Setter(p)[i].code, given[p])
      /\ Avoids(todo, Setter(p)[i].reg)

SettingWill ==
  \A p \in DOMAIN setting : Sure(p) =>
    \A i \in DOMAIN Setter(p) :
      After(todo, Setter(p)[i].reg, reg[Setter(p)[i].reg],
            Coded(Setter(p)[i].code, setting[p]))

ShownIsGiven ==
  shown # <<>> =>
    /\ command \in {"none", "off"}
    /\ LET p == Shows[shown[1]]
       IN Plain(shown[1]) /\ Sure(p) /\ given[p] # Unset =>
            shown[2] = Coded(Setter(p)[1].code, given[p])

IInv == Typing /\ GivenStands /\ SettingWill /\ ShownIsGiven

-----------------------------------------------------------------------------
\* The invariant holds before the first start.
LEMMA Start == Init => IInv
<1> SUFFICES ASSUME Init PROVE IInv
  OBVIOUS
<1>1. TypeOK
  <2>1. 0 \in Words /\ Unset \in Words \cup {Unset}
    BY WordsAre
  <2>2. DOMAIN setting = {}
    BY DEF Init
  <2>3. <<>> \in Seq([cell : Registers, val : Words])
    OBVIOUS
  <2> QED
    BY <2>1, <2>2, <2>3 DEF Init, TypeOK
<1>2. DOMAIN setting = {} /\ \A p \in Params : given[p] = Unset
  BY DEF Init
<1> QED
  BY <1>1, <1>2 DEF Init, IInv, Typing, GivenStands, SettingWill, ShownIsGiven

\* A command begins: what it sets is no longer given, and it touches nothing
\* else that is.
LEMMA BeginKeeps ==
  ASSUME IInv, command \in {"none", "off"},
         NEW c \in Params \cup {"ui_init", "setcrwin"},
         NEW s \in Seq(Pairs), NEW args, Begin(c, s, args),
         DOMAIN args \subseteq Settable, \A p \in DOMAIN args : args[p] \in Words,
         \A p \in DOMAIN args : Sure(p) =>
           \A i \in DOMAIN Setter(p) :
             Last(s, Setter(p)[i].reg, Coded(Setter(p)[i].code, args[p])),
         \A p \in Settable \ DOMAIN args : Sure(p) =>
           \A i \in DOMAIN Setter(p) : Avoids(s, Setter(p)[i].reg),
         tmp' \in Words
  PROVE  IInv'
<1>1. /\ command' = c /\ todo' = s /\ setting' = args /\ shown' = <<>> /\ reg' = reg
      /\ given' = [p \in Params |-> IF p \in DOMAIN args THEN Unset ELSE given[p]]
  BY DEF Begin
<1>2. Settable \subseteq Params
  BY DEF Settable, Params
<1>3. c \notin {"none", "off"}
  BY ParamsAre DEF Params
<1>4. TypeOK'
  <2>1. given' \in [Params -> Words \cup {Unset}]
    BY <1>1 DEF IInv, Typing, TypeOK
  <2>2. reg' \in [Registers -> Words]
    BY <1>1 DEF IInv, Typing, TypeOK
  <2> QED
    BY <1>1, <1>2, <2>1, <2>2 DEF TypeOK, Pairs
<1>5. \A p \in Params : given'[p] # Unset => p \notin DOMAIN args /\ given'[p] = given[p] /\ given[p] # Unset
  BY <1>1
<1>6. \A p \in Params : given'[p] # Unset => p \in Settable
  BY <1>5 DEF IInv, Typing
<1>7. GivenStands'
  BY <1>1, <1>5, <1>6 DEF IInv, GivenStands
<1>8. SettingWill'
  BY <1>1 DEF SettingWill, After
<1> QED
  BY <1>1, <1>3, <1>4, <1>6, <1>7, <1>8 DEF IInv, Typing, ShownIsGiven

\* A setter of one parameter.
LEMMA SetterKeeps ==
  ASSUME IInv, command = "none", NEW p \in Commands \cap Params, NEW v \in Words,
         Begin(p, Encoded(Setter(p), v), [q \in {p} |-> v]), tmp' \in Words
  PROVE  IInv'
<1>1. PICK args : args = [q \in {p} |-> v]
  OBVIOUS
<1>2. DOMAIN args = {p} /\ args[p] = v
  BY <1>1
<1>3. PICK s : s = Encoded(Setter(p), v)
  OBVIOUS
<1>4. p \in Settable /\ p \in Params /\ v \in Int
  BY WordsAre DEF Settable
<1>5. Does(s, {p}, args)
  BY <1>2, <1>3, <1>4, SetterDoes
<1>6. s \in Seq(Pairs) /\ \A c : ~Touches(p, c) => Avoids(s, c)
  BY <1>5 DEF Does
<1>7. \A r \in Settable \ DOMAIN args : Sure(r) =>
        \A i \in DOMAIN Setter(r) : Avoids(s, Setter(r)[i].reg)
  BY <1>2, <1>4, <1>6 DEF Sure
<1>8. \A r \in DOMAIN args : Sure(r) =>
        \A i \in DOMAIN Setter(r) :
          Last(s, Setter(r)[i].reg, Coded(Setter(r)[i].code, args[r]))
  BY <1>2, <1>5 DEF Does
<1>9. Begin(p, s, args)
  BY <1>1, <1>3
<1> QED
  BY <1>2, <1>4, <1>6, <1>7, <1>8, <1>9, BeginKeeps

\* An address is set.
LEMMA SetAddressKeeps ==
  ASSUME IInv, NEW p \in Commands \cap Network, NEW v \in Typed, SetAddress(p, v)
  PROVE  IInv'
<1>1. p \in Commands \cap Params /\ v \in Words
  BY WordsAre DEF Params
<1>2. tmp' \in Words
  BY DEF SetAddress, IInv, Typing, TypeOK
<1>3. command = "none" /\ Begin(p, Encoded(Setter(p), v), [q \in {p} |-> v])
  BY DEF SetAddress
<1> QED
  BY <1>1, <1>2, <1>3, SetterKeeps

\* A number is set.
LEMMA SetNumberKeeps ==
  ASSUME IInv, NEW p \in Commands \cap DOMAIN NumberSetters, NEW v \in Typed, SetNumber(p, v)
  PROVE  IInv'
<1>1. p \in Commands \cap Params /\ v \in Words
  BY WordsAre DEF Params
<1>2. /\ command = "none" /\ tmp' \in Words
      /\ Begin(p, Encoded(Setter(p), v), [q \in {p} |-> v])
  BY <1>1 DEF SetNumber
<1> QED
  BY <1>1, <1>2, SetterKeeps

\* The correction window is written from tmp.
LEMMA SetcrwinKeeps ==
  ASSUME IInv, setcrwin
  PROVE  IInv'
<1>1. PICK args : args = [q \in {} |-> 0]
  OBVIOUS
<1>2. DOMAIN args = {}
  BY <1>1
<1>3. tmp \in Int /\ tmp' \in Words
  BY WordsAre DEF setcrwin, IInv, Typing, TypeOK
<1>4. PICK s : s = Encoded(CorrectionWindow, tmp)
  OBVIOUS
<1>5. s \in Seq(Pairs) /\ \A i \in DOMAIN s : s[i].cell = <<"e2a", 23>>
  <2>1. CorrectionWindow = <<Entry("e2a", 23, "word")>>
    BY ToIs DEF CorrectionWindow
  <2>2. PICK e : e = [cell |-> <<"e2a", 23>>, val |-> Coded("word", tmp)]
    OBVIOUS
  <2>3. s = <<e>>
    BY <1>4, <2>1, <2>2 DEF Encoded, Entry
  <2>4. e \in Pairs
    BY <1>3, <2>2, RegistersAre, CodedFits DEF Pairs, Codes
  <2> QED
    BY <2>2, <2>3, <2>4
<1>6. \A r \in Settable : \A i \in DOMAIN Setter(r) : Avoids(s, Setter(r)[i].reg)
  <2> TAKE r \in Settable
  <2> TAKE i \in DOMAIN Setter(r)
  <2>1. ~Touches(r, <<"e2a", 23>>)
    BY WindowIsApart DEF Settable, Params
  <2>2. Setter(r)[i].reg # <<"e2a", 23>>
    BY <2>1 DEF Touches
  <2> QED
    BY <1>5, <2>2 DEF Avoids
<1>7. command = "none" /\ Begin("setcrwin", s, args)
  BY <1>1, <1>4 DEF setcrwin
<1> QED
  BY <1>2, <1>3, <1>5, <1>6, <1>7, BeginKeeps

\* A process starts: six parameters from the command line.
LEMMA LaunchKeeps ==
  ASSUME IInv, NEW args \in LaunchArgs, Launch(args)
  PROVE  IInv'
<1>1. PICK s : s = Encoded(Setter("strlip"), args["strlip"]) \o Encoded(Setter("strdip"), args["strdip"])
                     \o Encoded(Setter("strmask"), args["strmask"])
                     \o Encoded(Setter("strgip"), args["strgip"])
                     \o Encoded(Setter("strport"), args["strport"])
                     \o Encoded(Setter("strsport"), args["strsport"])
  OBVIOUS
<1>2. Begin("ui_init", s, args) /\ command = "off"
  BY <1>1 DEF Launch
<1>3. Does(s, Network \ {"strsip"}, args)
  BY <1>1, LaunchDoes
<1>4. DOMAIN args = Network \ {"strsip"} /\ \A p \in DOMAIN args : args[p] \in Words
  <2>1. args \in [Network \ {"strsip"} -> Typed]
    BY ParamsAssumption
  <2> QED
    BY <2>1, WordsAre
<1>5. tmp' \in Words
  BY WordsAre DEF Launch
<1>6. DOMAIN args \subseteq Settable
  BY <1>4 DEF Settable
<1>7. \A p \in DOMAIN args : Sure(p) =>
        \A i \in DOMAIN Setter(p) :
          Last(s, Setter(p)[i].reg, Coded(Setter(p)[i].code, args[p]))
  BY <1>3, <1>4 DEF Does
<1>8. \A p \in Settable \ DOMAIN args : Sure(p) =>
        \A i \in DOMAIN Setter(p) : Avoids(s, Setter(p)[i].reg)
  <2> TAKE p \in Settable \ DOMAIN args
  <2> HAVE Sure(p)
  <2> TAKE i \in DOMAIN Setter(p)
  <2>1. \A q \in Network \ {"strsip"} : ~Touches(q, Setter(p)[i].reg)
    <3> TAKE q \in Network \ {"strsip"}
    <3>1. q \in Settable \ {p}
      BY <1>4, <1>6
    <3> QED
      BY <3>1 DEF Sure
  <2> QED
    BY <1>3, <2>1 DEF Does
<1>9. s \in Seq(Pairs)
  BY <1>3 DEF Does
<1> QED
  BY <1>2, <1>4, <1>5, <1>6, <1>7, <1>8, <1>9, BeginKeeps

\* A register is written: what the writes will leave stays.
LEMMA WriteNextKeeps ==
  ASSUME IInv, WriteNext
  PROVE  IInv'
<1>1. /\ todo \in Seq(Pairs) /\ todo # <<>> /\ todo' = Tail(todo)
      /\ UNCHANGED <<tmp, command, setting, given, shown>>
      /\ reg \in [Registers -> Words]
  BY DEF WriteNext, IInv, Typing, TypeOK, Pairs
<1>2. PICK w \in Pairs : w = Head(todo) /\ w = todo[1]
  BY <1>1
<1>3. w.cell \in Registers /\ w.val \in Words
  BY <1>2 DEF Pairs
<1>4. reg' = [reg EXCEPT ![w.cell] = w.val]
  BY <1>2 DEF WriteNext
<1>5. \A c \in Registers : reg'[c] = IF w.cell = c THEN w.val ELSE reg[c]
  BY <1>1, <1>4
<1>6. TypeOK'
  <2>1. reg' \in [Registers -> Words] /\ todo' \in Seq(Pairs)
    BY <1>1, <1>3, <1>4
  <2> QED
    BY <1>1, <2>1 DEF TypeOK, IInv, Typing, Pairs
<1>7. command \notin {"none", "off"}
  BY <1>1 DEF IInv, Typing
<1>8. Typing'
  BY <1>1, <1>6, <1>7 DEF IInv, Typing
<1>9. DOMAIN setting \subseteq Params
  BY DEF IInv, Typing, TypeOK
<1>10. GivenStands'
  <2> SUFFICES ASSUME NEW p \in Params, Sure(p), given[p] # Unset, NEW i \in DOMAIN Setter(p)
               PROVE  /\ reg'[Setter(p)[i].reg] = Coded(Setter(p)[i].code, given[p])
                      /\ Avoids(todo', Setter(p)[i].reg)
    BY <1>1 DEF GivenStands
  <2>1. PICK c \in Registers : c = Setter(p)[i].reg
    BY RegistersAre
  <2>2. reg[c] = Coded(Setter(p)[i].code, given[p]) /\ Avoids(todo, c)
    BY <2>1 DEF IInv, GivenStands
  <2>3. w.cell # c /\ Avoids(todo', c)
    <3>1. /\ DOMAIN todo = 1 .. Len(todo) /\ DOMAIN todo' = 1 .. (Len(todo) - 1)
          /\ \A j \in DOMAIN todo' : todo'[j] = todo[j + 1]
          /\ Len(todo) \in Nat \ {0}
      BY <1>1
    <3> QED
      BY <1>2, <2>2, <3>1 DEF Avoids
  <2> QED
    BY <1>5, <2>1, <2>2, <2>3
<1>11. SettingWill'
  <2> SUFFICES ASSUME NEW p \in DOMAIN setting, Sure(p), NEW i \in DOMAIN Setter(p)
               PROVE  After(todo', Setter(p)[i].reg, reg'[Setter(p)[i].reg],
                            Coded(Setter(p)[i].code, setting[p]))
    BY <1>1 DEF SettingWill
  <2>1. PICK c \in Registers : c = Setter(p)[i].reg
    BY <1>9, RegistersAre
  <2>2. PICK v : v = Coded(Setter(p)[i].code, setting[p])
    OBVIOUS
  <2>3. After(todo, c, reg[c], v)
    BY <2>1, <2>2 DEF IInv, SettingWill
  <2>4. After(Tail(todo), c, IF todo[1].cell = c THEN todo[1].val ELSE reg[c], v)
    BY <1>1, <2>3, OneLess
  <2>5. After(todo', c, reg'[c], v)
    BY <1>1, <1>2, <1>5, <2>4
  <2> QED
    BY <2>1, <2>2, <2>5
<1>12. ShownIsGiven'
  BY <1>1 DEF IInv, ShownIsGiven
<1> QED
  BY <1>8, <1>10, <1>11, <1>12 DEF IInv

\* A command is complete: what it has set is given, and its registers hold it.
LEMMA PromptKeeps ==
  ASSUME IInv, Prompt
  PROVE  IInv'
<1>1. /\ command \notin {"none", "off"} /\ todo = <<>> /\ todo' = <<>> /\ command' = "none"
      /\ UNCHANGED <<reg, tmp, shown>>
      /\ given' = [p \in Params |-> IF p \in DOMAIN setting THEN setting[p] ELSE given[p]]
      /\ DOMAIN setting' = {}
  BY DEF Prompt
<1>2. /\ DOMAIN setting \subseteq Params /\ \A p \in DOMAIN setting : setting[p] \in Words
      /\ given \in [Params -> Words \cup {Unset}] /\ DOMAIN setting \subseteq Settable
  BY DEF IInv, Typing, TypeOK
<1>3. given' \in [Params -> Words \cup {Unset}]
  BY <1>1, <1>2
<1>4. TypeOK'
  <2>1. DOMAIN setting' \subseteq Params /\ \A p \in DOMAIN setting' : setting'[p] \in Words
    BY <1>1
  <2> QED
    BY <1>1, <1>3, <2>1 DEF IInv, Typing, TypeOK
<1>5. Typing'
  <2>1. \A p \in Params : given'[p] # Unset => p \in Settable
    BY <1>1, <1>2 DEF IInv, Typing
  <2> QED
    BY <1>1, <1>4, <2>1 DEF Typing
<1>6. GivenStands'
  <2> SUFFICES ASSUME NEW p \in Params, Sure(p), given'[p] # Unset, NEW i \in DOMAIN Setter(p)
               PROVE  reg[Setter(p)[i].reg] = Coded(Setter(p)[i].code, given'[p])
    BY <1>1 DEF GivenStands, Avoids
  <2>1. CASE p \in DOMAIN setting
    <3>1. given'[p] = setting[p]
      BY <1>1, <2>1
    <3>2. After(todo, Setter(p)[i].reg, reg[Setter(p)[i].reg],
                Coded(Setter(p)[i].code, setting[p]))
      BY <2>1 DEF IInv, SettingWill
    <3> QED
      BY <1>1, <3>1, <3>2 DEF After, Last
  <2>2. CASE p \notin DOMAIN setting
    <3>1. given'[p] = given[p]
      BY <1>1, <2>2
    <3> QED
      BY <3>1 DEF IInv, GivenStands
  <2> QED
    BY <2>1, <2>2
<1>7. SettingWill'
  BY <1>1 DEF SettingWill
<1>8. ShownIsGiven'
  BY <1>1 DEF IInv, ShownIsGiven
<1> QED
  BY <1>5, <1>6, <1>7, <1>8 DEF IInv

\* What the getters read.
LEMMA GettersRead ==
  /\ \A g \in DOMAIN Getters : Getters[g] # <<>> => Getters[g][1] \in Registers
  /\ \A g \in DOMAIN Getters : /\ Shows[g] \in Params
                               /\ Plain(g) => /\ Getters[g] # <<>>
                                              /\ 1 \in DOMAIN Setter(Shows[g])
                                              /\ Getters[g][1] = Setter(Shows[g])[1].reg
<1>0. DOMAIN Getters = {"getdip", "getlip", "getgip", "getmask", "getport", "getplen",
                        "getporder", "getblen", "getpoutdly"}
  BY DEF Getters
<1>1. /\ Udp("DEST_IP") = <<<<"udp", 5>>>> /\ Udp("LOCAL_IP") = <<<<"udp", 2>>>>
      /\ Udp("GTWAY_IP") = <<<<"udp", 4>>>> /\ Udp("MASK_IP") = <<<<"udp", 6>>>>
      /\ Udp("DEST_PORT") = <<>>
  BY DEF Udp, ETH_PARAM_ID, read_eth_param
<1>2. /\ Getters["getdip"] = <<<<"udp", 5>>>> /\ Getters["getlip"] = <<<<"udp", 2>>>>
      /\ Getters["getgip"] = <<<<"udp", 4>>>> /\ Getters["getmask"] = <<<<"udp", 6>>>>
      /\ Getters["getport"] = <<>> /\ Getters["getplen"] = <<<<"a2e", 3>>>>
      /\ Getters["getporder"] = <<<<"seq", 0>>>> /\ Getters["getblen"] = <<<<"e2a", 5>>>>
      /\ Getters["getpoutdly"] = <<<<"e2a", 11>>>>
  BY <1>1 DEF Getters
<1>3. /\ Shows["getdip"] = "strdip" /\ Shows["getlip"] = "strlip"
      /\ Shows["getgip"] = "strgip" /\ Shows["getmask"] = "strmask"
      /\ Shows["getport"] = "strport" /\ Shows["getplen"] = "strplen"
      /\ Shows["getporder"] = "strporder" /\ Shows["getblen"] = "strblen"
      /\ Shows["getpoutdly"] = "setpoutdly"
  BY DEF Shows
<1>4. \A p \in {"strdip", "strlip", "strgip", "strmask", "strport", "strplen", "strporder",
                "strblen", "setpoutdly"} : p \in Params
  BY ParamsAre DEF Params
<1>5. /\ 1 \in DOMAIN Setter("strdip") /\ Setter("strdip")[1].reg = <<"udp", 5>>
      /\ 1 \in DOMAIN Setter("strlip") /\ Setter("strlip")[1].reg = <<"udp", 2>>
      /\ 1 \in DOMAIN Setter("strmask") /\ Setter("strmask")[1].reg = <<"udp", 4>>
      /\ 1 \in DOMAIN Setter("strport") /\ Setter("strport")[1].reg = <<"udp", 6>>
  BY NetworkTable DEF Entry
<1>6. /\ 1 \in DOMAIN Setter("strplen") /\ Setter("strplen")[1].reg = <<"a2e", 3>>
      /\ 1 \in DOMAIN Setter("strporder") /\ Setter("strporder")[1].reg = <<"seq", 0>>
      /\ 1 \in DOMAIN Setter("strblen") /\ Setter("strblen")[1].reg = <<"e2a", 5>>
      /\ 1 \in DOMAIN Setter("setpoutdly") /\ Setter("setpoutdly")[1].reg = <<"e2a", 11>>
  <2>1. \A e : 1 \in DOMAIN <<e>> /\ <<e>>[1] = e
    OBVIOUS
  <2>2. /\ Setter("strplen") = <<Entry("a2e", 3, "word")>>
        /\ Setter("strporder") = <<Entry("seq", 0, "word")>>
        /\ Setter("strblen") = <<Entry("e2a", 5, "word")>>
        /\ Setter("setpoutdly") = <<Entry("e2a", 11, "playout")>>
    BY NumberTable
  <2>3. \A u, n, c : Entry(u, n, c).reg = <<u, n>>
    BY DEF Entry
  <2> QED
    BY <2>1, <2>2, <2>3
<1>7. {<<"udp", 5>>, <<"udp", 2>>, <<"udp", 4>>, <<"udp", 6>>, <<"a2e", 3>>, <<"seq", 0>>,
       <<"e2a", 5>>, <<"e2a", 11>>} \subseteq Registers
  <2>1. \A p \in Params : 1 \in DOMAIN Setter(p) => Setter(p)[1].reg \in Registers
    BY RegistersAre
  <2>2. /\ <<"udp", 5>> \in Registers /\ <<"udp", 2>> \in Registers
        /\ <<"udp", 4>> \in Registers /\ <<"udp", 6>> \in Registers
    BY <1>4, <1>5, <2>1
  <2>3. /\ <<"a2e", 3>> \in Registers /\ <<"seq", 0>> \in Registers
        /\ <<"e2a", 5>> \in Registers /\ <<"e2a", 11>> \in Registers
    BY <1>4, <1>6, <2>1
  <2> QED
    BY <2>2, <2>3
<1>8. \A g \in DOMAIN Getters : Getters[g] # <<>> => Getters[g][1] \in Registers
  <2> TAKE g \in DOMAIN Getters
  <2> HAVE Getters[g] # <<>>
  <2>1. \A c : <<c>>[1] = c
    OBVIOUS
  <2>2. CASE g = "getdip"
    BY <1>2, <1>7, <2>1, <2>2
  <2>3. CASE g = "getlip"
    BY <1>2, <1>7, <2>1, <2>3
  <2>4. CASE g = "getgip"
    BY <1>2, <1>7, <2>1, <2>4
  <2>5. CASE g = "getmask"
    BY <1>2, <1>7, <2>1, <2>5
  <2>6. CASE g = "getplen"
    BY <1>2, <1>7, <2>1, <2>6
  <2>7. CASE g = "getporder"
    BY <1>2, <1>7, <2>1, <2>7
  <2>8. CASE g = "getblen"
    BY <1>2, <1>7, <2>1, <2>8
  <2>9. CASE g = "getpoutdly"
    BY <1>2, <1>7, <2>1, <2>9
  <2>10. CASE g = "getport"
    BY <1>2, <2>10
  <2> QED
    BY <1>0, <2>2, <2>3, <2>4, <2>5, <2>6, <2>7, <2>8, <2>9, <2>10
<1>9. \A g \in DOMAIN Getters : Shows[g] \in Params
  BY <1>0, <1>3, <1>4
<1>10. \A g \in DOMAIN Getters : Plain(g) => /\ Getters[g] # <<>>
                                             /\ 1 \in DOMAIN Setter(Shows[g])
                                             /\ Getters[g][1] = Setter(Shows[g])[1].reg
  <2> TAKE g \in DOMAIN Getters
  <2> HAVE Plain(g)
  <2>1. \A c : <<c>> # <<>> /\ <<c>>[1] = c
    OBVIOUS
  <2>2. CASE g = "getdip"
    BY <1>2, <1>3, <1>5, <2>1, <2>2
  <2>3. CASE g = "getlip"
    BY <1>2, <1>3, <1>5, <2>1, <2>3
  <2>4. CASE g = "getplen"
    BY <1>2, <1>3, <1>6, <2>1, <2>4
  <2>5. CASE g = "getporder"
    BY <1>2, <1>3, <1>6, <2>1, <2>5
  <2>6. CASE g = "getblen"
    BY <1>2, <1>3, <1>6, <2>1, <2>6
  <2>7. CASE g = "getpoutdly"
    BY <1>2, <1>3, <1>6, <2>1, <2>7
  <2> QED
    BY <1>0, <2>2, <2>3, <2>4, <2>5, <2>6, <2>7 DEF Plain
<1> QED
  BY <1>8, <1>9, <1>10

\* A getter prints what stands in a register of its setter.
LEMMA GetKeeps ==
  ASSUME IInv, NEW g \in Commands \cap DOMAIN Getters, Get(g)
  PROVE  IInv'
<1>1. PICK v : v = IF Getters[g] = <<>> THEN Word - 1 ELSE reg[Getters[g][1]]
  OBVIOUS
<1>2. /\ command = "none" /\ shown' = <<g, v>> /\ tmp' = IF g = "getport" THEN tmp ELSE v
      /\ UNCHANGED <<reg, command, todo, setting, given>>
  BY <1>1 DEF Get
<1>3. v \in Words
  BY <1>1, GettersRead, WordsAre DEF IInv, Typing, TypeOK
<1>4. TypeOK'
  <2>1. tmp' \in Words
    BY <1>2, <1>3, WordsAre DEF IInv, Typing, TypeOK
  <2>2. shown' \in {<<>>} \cup ((DOMAIN Getters) \X Words)
    BY <1>2, <1>3
  <2> QED
    BY <1>2, <2>1, <2>2 DEF IInv, Typing, TypeOK
<1>5. Typing' /\ GivenStands' /\ SettingWill'
  BY <1>2, <1>4 DEF IInv, Typing, GivenStands, SettingWill
<1>6. ShownIsGiven'
  <2>1. shown'[1] = g /\ shown'[2] = v
    BY <1>2
  <2>2. ASSUME Plain(g), Sure(Shows[g]), given[Shows[g]] # Unset
        PROVE  v = Coded(Setter(Shows[g])[1].code, given[Shows[g]])
    <3>1. /\ Shows[g] \in Params /\ 1 \in DOMAIN Setter(Shows[g])
          /\ v = reg[Setter(Shows[g])[1].reg]
      BY <1>1, <2>2, GettersRead
    <3> QED
      BY <2>2, <3>1 DEF IInv, GivenStands
  <2> QED
    BY <1>2, <2>1, <2>2 DEF ShownIsGiven
<1> QED
  BY <1>5, <1>6 DEF IInv

\* The other getters, the end and nothing: registers and settings are left.
LEMMA QuietKeeps ==
  ASSUME IInv, Measure \/ Exit \/ UNCHANGED vars
  PROVE  IInv'
<1>1. UNCHANGED <<reg, todo, setting, given>>
  BY DEF Measure, Exit, vars
<1>2. /\ command' = command \/ (command = "none" /\ command' = "off" /\ shown' = <<>>)
      /\ shown' \in {shown, <<>>} /\ tmp' \in Words
  <2>1. CASE Measure
    BY <2>1, WordsAre DEF Measure
  <2>2. CASE Exit
    BY <2>2, WordsAre DEF Exit
  <2>3. CASE UNCHANGED vars
    BY <2>3 DEF vars, IInv, Typing, TypeOK
  <2> QED
    BY <2>1, <2>2, <2>3
<1>3. TypeOK'
  BY <1>1, <1>2 DEF IInv, Typing, TypeOK
<1>4. Typing'
  BY <1>1, <1>2, <1>3 DEF IInv, Typing
<1>5. GivenStands' /\ SettingWill'
  BY <1>1 DEF IInv, GivenStands, SettingWill
<1>6. ShownIsGiven'
  BY <1>1, <1>2 DEF IInv, ShownIsGiven
<1> QED
  BY <1>4, <1>5, <1>6 DEF IInv

\* The process is killed: what it was setting is not given.
LEMMA KillKeeps ==
  ASSUME IInv, Kill
  PROVE  IInv'
<1>1. /\ command' = "off" /\ todo' = <<>> /\ DOMAIN setting' = {} /\ tmp' = 0 /\ shown' = <<>>
      /\ UNCHANGED <<reg, given>>
  BY DEF Kill
<1>2. TypeOK'
  <2>1. DOMAIN setting' \subseteq Params /\ \A p \in DOMAIN setting' : setting'[p] \in Words
    BY <1>1
  <2> QED
    BY <1>1, <2>1, WordsAre DEF IInv, Typing, TypeOK
<1>3. Typing'
  BY <1>1, <1>2 DEF IInv, Typing
<1>4. GivenStands'
  BY <1>1 DEF IInv, GivenStands, Avoids
<1> QED
  BY <1>1, <1>3, <1>4 DEF IInv, SettingWill, ShownIsGiven

\* The inductive invariant holds in every reachable state.
THEOREM Invariance == Spec => []IInv
<1>1. Init => IInv
  BY Start
<1>2. IInv /\ [Next]_vars => IInv'
  BY SetAddressKeeps, SetNumberKeeps, SetcrwinKeeps, LaunchKeeps, WriteNextKeeps, PromptKeeps,
     GetKeeps, QuietKeeps, KillKeeps DEF Next
<1> QED
  BY <1>1, <1>2, PTL DEF Spec

\* Registers and tmp hold words, whatever is typed.
THEOREM TypeCorrect == Spec => []TypeOK
<1>1. IInv => TypeOK
  BY DEF IInv, Typing
<1> QED
  BY <1>1, Invariance, PTL

-----------------------------------------------------------------------------
\* The commands of which no two set the same register: setdlim writes
\* sethdrlen's (stream_control.c:452-456) and setbdlm setpoutdly's.
NoTwoSetters ==
  /\ ~({"sethdrlen", "setdlim"} \subseteq Commands)
  /\ ~({"setpoutdly", "setbdlm"} \subseteq Commands)

\* Without them, every parameter that can be set is sure.
LEMMA AllAreSure ==
  ASSUME NoTwoSetters, NEW p \in Settable
  PROVE  Sure(p)
<1>1. Settable \subseteq Params
  BY DEF Settable, Params
<1>2. \A q \in Settable \ {p} : Family(q) # Family(p)
  BY ParamsAre DEF Settable, Family, NoTwoSetters
<1>3. \A q \in Settable \ {p} : \A i \in DOMAIN Setter(p) : ~Touches(q, Setter(p)[i].reg)
  BY <1>1, <1>2, FamiliesAreApart
<1> QED
  BY <1>3 DEF Sure

\* Whatever is typed, killed and restarted, what a completed command has set
\* stands in all of its registers until the same parameter is set again: of
\* all commands, only the two pairs that share a register disturb each other.
THEOREM SettingsAlwaysHold ==
  ASSUME NoTwoSetters
  PROVE  Spec => []SettingsHold
<1>1. IInv => SettingsHold
  <2> SUFFICES ASSUME IInv, NEW p \in Params, given[p] # Unset, NEW i \in DOMAIN Setter(p)
               PROVE  reg[Setter(p)[i].reg] = Coded(Setter(p)[i].code, given[p])
    BY DEF SettingsHold
  <2>1. Sure(p)
    BY AllAreSure DEF IInv, Typing
  <2> QED
    BY <2>1 DEF IInv, GivenStands
<1> QED
  BY <1>1, Invariance, PTL

\* A getter prints what was last set, unless it is one of the three for which
\* read_eth_param knows another register or none.
THEOREM SettingsReadBack ==
  ASSUME NoTwoSetters,
         Commands \cap {"getgip", "getmask", "getport"} = {}
  PROVE  Spec => []ReadBack
<1> DEFINE Told == shown # <<>> => shown[1] \in Commands \cap DOMAIN Getters
<1>1. Init => Told
  BY DEF Init
<1>2. Told /\ [Next]_vars => Told'
  <2> SUFFICES ASSUME Told, [Next]_vars PROVE Told'
    OBVIOUS
  <2>1. ASSUME NEW g \in Commands \cap DOMAIN Getters, Get(g) PROVE Told'
    <3>1. shown'[1] = g
      BY <2>1 DEF Get
    <3> QED
      BY <3>1
  <2>2. ASSUME shown' \in {shown, <<>>} PROVE Told'
    BY <2>2
  <2>3. ASSUME NEW p, NEW v, SetAddress(p, v) \/ SetNumber(p, v)
        PROVE  shown' = <<>>
    BY <2>3 DEF SetAddress, SetNumber, Begin
  <2>4. ASSUME NEW args, Launch(args) PROVE shown' = <<>>
    BY <2>4 DEF Launch, Begin
  <2>5. setcrwin => shown' = <<>>
    BY DEF setcrwin, Begin
  <2>6. WriteNext \/ Prompt \/ UNCHANGED vars => shown' = shown
    BY DEF WriteNext, Prompt, vars
  <2>7. Measure \/ Exit \/ Kill => shown' = <<>>
    BY DEF Measure, Exit, Kill
  <2> QED
    BY <2>1, <2>2, <2>3, <2>4, <2>5, <2>6, <2>7 DEF Next
<1>3. IInv /\ Told => ReadBack
  <2> SUFFICES ASSUME IInv, Told, shown # <<>>, given[Shows[shown[1]]] # Unset
               PROVE  shown[2] = Coded(Setter(Shows[shown[1]])[1].code, given[Shows[shown[1]]])
    BY DEF ReadBack
  <2>1. Plain(shown[1]) /\ Shows[shown[1]] \in Params
    BY GettersRead DEF Plain
  <2>2. Sure(Shows[shown[1]])
    BY <2>1, AllAreSure DEF IInv, Typing
  <2> QED
    BY <2>1, <2>2 DEF IInv, ShownIsGiven
<1> QED
  BY <1>1, <1>2, <1>3, Invariance, PTL DEF Spec
==============================================================================
