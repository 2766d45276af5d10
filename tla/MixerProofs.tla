----------------------------- MODULE MixerProofs ------------------------------
(***************************************************************************)
(* What Mixer guarantees for every set of numbers an operator types, every *)
(* width of a word and any number of commands and starts.                  *)
(*                                                                         *)
(* A command is a sequence of writes, and a property of the prompt is one  *)
(* of the values the cells will have when the writes are done: Will.       *)
(***************************************************************************)
EXTENDS Mixer, WriteLemmas, TLAPS

Cells == Memory \cup Device

\* What a cell of the memory may hold, as in TypeOK.
Fits(c, v) ==
  CASE c[1] = "volume" \/ c = <<"ui", "gain">> -> v \in 0 .. (Word - 1)
    [] c[2] \in Filters -> v \in {0, 1}
    [] OTHER -> 2 * v \in (-Word) .. (Word - 1)
Writes ==
  {w \in [cell : Cells, val : Int] :
     IF w.cell \in Memory THEN Fits(w.cell, w.val) ELSE w.val \in {0, 1}}

\* What cell c holds, and what it will hold when the command that runs is done.
Holds(c) == IF c \in Memory THEN memory[c] ELSE device[c]
Will(c, v) == After(todo, c, Holds(c), v)

-----------------------------------------------------------------------------
(***************************************************************************)
(* Sequences of writes.                                                    *)
(***************************************************************************)
\* The memory and the device are apart.
LEMMA Apart == Memory \cap Device = {}
BY DEF Memory, Device

\* A single write.
LEMMA PutIs ==
  ASSUME NEW area, NEW name, NEW v \in Int, <<area, name>> \in Cells,
         IF <<area, name>> \in Memory THEN Fits(<<area, name>>, v) ELSE v \in {0, 1}
  PROVE  /\ Put(area, name, v) \in Seq(Writes)
         /\ \A c, old :
              After(Put(area, name, v), c, old, IF c = <<area, name>> THEN v ELSE old)
<1>1. [cell |-> <<area, name>>, val |-> v] \in Writes
  BY DEF Writes
<1>2. Put(area, name, v) \in Seq(Writes) /\ DOMAIN Put(area, name, v) = {1}
      /\ Put(area, name, v)[1] = [cell |-> <<area, name>>, val |-> v]
  BY <1>1 DEF Put
<1> QED
  BY <1>2 DEF After, Last, Avoids

\* Nothing to write.
LEMMA NothingLeft ==
  ASSUME NEW c, NEW v, todo = <<>>
  PROVE  Will(c, v) <=> Holds(c) = v
BY DEF Will, After, Last, Avoids

\* A write that is made leaves what the cells will hold.
LEMMA WillStay ==
  ASSUME NEW c \in Cells, NEW v, todo \in Seq(Writes), Step, Will(c, v),
         DOMAIN memory = Memory, DOMAIN device = Device
  PROVE  Will(c, v)'
<1>1. todo # <<>> /\ todo' = Tail(todo) /\ Head(todo) = todo[1] /\ todo[1] \in Writes
  BY DEF Step
<1>2. Holds(c)' = IF todo[1].cell = c THEN todo[1].val ELSE Holds(c)
  <2>1. todo[1].cell \in Cells
    BY <1>1 DEF Writes
  <2> QED
    BY <1>1, <2>1 DEF Step, Holds, Cells
<1>3. After(todo', c, Holds(c)', v)
  BY <1>1, <1>2, OneLess DEF Will
<1> QED
  BY <1>3 DEF Will

-----------------------------------------------------------------------------
(***************************************************************************)
(* Unsigned arithmetic.                                                    *)
(***************************************************************************)
\* A product is the same in unsigned arithmetic whether the number typed is
\* taken with its sign or without.
LEMMA SignedProduct ==
  ASSUME NEW a \in Int, NEW g \in 0 .. (Word - 1)
  PROVE  (a * g) % Word = (a * Signed(g)) % Word
<1>1. CASE 2 * g < Word
  BY <1>1 DEF Signed
<1>2. CASE ~(2 * g < Word)
  <2>1. a * Signed(g) = a * g - Word * a
    BY <1>2, MixerAssumption DEF Signed
  <2>2. a * g \in Int
    OBVIOUS
  <2> QED
    BY <2>1, <2>2, ModShift, MixerAssumption
<1> QED
  BY <1>1, <1>2

\* A typed gain as scanf's %d stores it: an integer whose double is of a word.
LEMMA SignedFits ==
  ASSUME NEW g \in 0 .. (Word - 1)
  PROVE  Signed(g) \in Int /\ 2 * Signed(g) \in (-Word) .. (Word - 1)
BY MixerAssumption DEF Signed

-----------------------------------------------------------------------------
(***************************************************************************)
(* What the commands write.                                                *)
(***************************************************************************)
\* The cells of the memory and what fits in them.
LEMMA MemoryCells ==
  /\ \A x \in Volumes : /\ <<"volume", x>> \in Memory
                        /\ \A v : v \in 0 .. (Word - 1) => Fits(<<"volume", x>>, v)
  /\ \A x \in Volumes \cup {"v_global"} :
       /\ <<"params", x>> \in Memory
       /\ \A v : 2 * v \in (-Word) .. (Word - 1) => Fits(<<"params", x>>, v)
  /\ \A x \in Volumes :
       /\ <<"setting", x>> \in Memory
       /\ \A v : 2 * v \in (-Word) .. (Word - 1) => Fits(<<"setting", x>>, v)
  /\ \A x \in Filters :
       /\ <<"params", x>> \in Memory /\ <<"setting", x>> \in Memory
       /\ \A v \in {0, 1} : Fits(<<"params", x>>, v) /\ Fits(<<"setting", x>>, v)
  /\ <<"ui", "gain">> \in Memory /\ <<"ui", "globalVol">> \in Memory
  /\ \A v : v \in 0 .. (Word - 1) => Fits(<<"ui", "gain">>, v)
  /\ \A v : 2 * v \in (-Word) .. (Word - 1) => Fits(<<"ui", "globalVol">>, v)
<1>1. \A x \in Volumes : <<"volume", x>> \in Memory /\ <<"setting", x>> \in Memory
  BY DEF Memory
<1>2. \A x \in Volumes \cup {"v_global"} : <<"params", x>> \in Memory
  BY DEF Memory
<1>3. \A x \in Filters : <<"params", x>> \in Memory /\ <<"setting", x>> \in Memory
  BY DEF Memory
<1>4. <<"ui", "gain">> \in Memory /\ <<"ui", "globalVol">> \in Memory
  BY DEF Memory
<1>5. \A x \in Volumes \cup {"v_global"} : x \notin Filters
  BY DEF Volumes, Filters
<1>6. "globalVol" \notin Filters /\ "gain" \notin Filters
  BY DEF Filters
<1>7. \A x \in Volumes : \A v : v \in 0 .. (Word - 1) => Fits(<<"volume", x>>, v)
  BY <1>5 DEF Fits
<1>8. \A x \in Volumes \cup {"v_global"} : \A v :
        2 * v \in (-Word) .. (Word - 1) => Fits(<<"params", x>>, v) /\ Fits(<<"setting", x>>, v)
  BY <1>5 DEF Fits
<1>9. \A x \in Filters : \A v \in {0, 1} : Fits(<<"params", x>>, v) /\ Fits(<<"setting", x>>, v)
  BY DEF Fits
<1>10. \A v : v \in 0 .. (Word - 1) => Fits(<<"ui", "gain">>, v)
  BY <1>6 DEF Fits
<1>11. \A v : 2 * v \in (-Word) .. (Word - 1) => Fits(<<"ui", "globalVol">>, v)
  BY <1>6 DEF Fits
<1> QED
  BY <1>1, <1>2, <1>3, <1>4, <1>7, <1>8, <1>9, <1>10, <1>11

\* The cells of the device, none of which is in the memory.
LEMMA DeviceCells ==
  /\ \A x \in Filters : <<"filter", x>> \in Cells \ Memory
  /\ \A x \in Chains : {<<"coefficients", x>>, <<"reg15", x>>, <<"reg16", x>>} \subseteq Cells \ Memory
  /\ \A i \in DOMAIN Leds : <<"led", Leds[i]>> \in Cells \ Memory
<1>1. \A x \in Filters : <<"filter", x>> \in Device
  BY DEF Device
<1>2. \A x \in Chains : {<<"coefficients", x>>, <<"reg15", x>>, <<"reg16", x>>} \subseteq Device
  BY DEF Device
<1>3. \A i \in DOMAIN Leds : <<"led", Leds[i]>> \in Device
  BY DEF Device
<1> QED
  BY <1>1, <1>2, <1>3, Apart DEF Cells

\* A write to the process's memory is one write, of that cell alone.
LEMMA MemoryPut ==
  ASSUME NEW area, NEW name, NEW v \in Int, <<area, name>> \in Memory, Fits(<<area, name>>, v)
  PROVE  /\ Put(area, name, v) \in Seq(Writes)
         /\ \A c, old :
              After(Put(area, name, v), c, old, IF c = <<area, name>> THEN v ELSE old)
BY PutIs DEF Cells

\* A write of a bit to a register or an LED is one write, of that cell alone.
LEMMA DevicePut ==
  ASSUME NEW area, NEW name, NEW v \in {0, 1}, <<area, name>> \in Cells \ Memory
  PROVE  /\ Put(area, name, v) \in Seq(Writes)
         /\ \A c, old :
              After(Put(area, name, v), c, old, IF c = <<area, name>> THEN v ELSE old)
<1>1. v \in Int /\ <<area, name>> \in Cells /\ <<area, name>> \notin Memory
  OBVIOUS
<1> QED
  BY <1>1, PutIs

\* A volume is asked for in unsigned arithmetic.
LEMMA VolumeAsked ==
  ASSUME NEW x \in Volumes, NEW g \in Int
  PROVE  /\ set_volume(x, g) \in Seq(Writes)
         /\ \A c, old :
              After(set_volume(x, g), c, old, IF c = <<"volume", x>> THEN g % Word ELSE old)
<1>1. g % Word \in 0 .. (Word - 1)
  BY ModIs, MixerAssumption
<1>2. g % Word \in Int /\ <<"volume", x>> \in Memory /\ Fits(<<"volume", x>>, g % Word)
  BY <1>1, MemoryCells
<1> QED
  BY <1>2, MemoryPut DEF set_volume

\* Four volumes.
LEMMA FourVolumes ==
  ASSUME NEW a \in Int, NEW b \in Int, NEW d \in Int, NEW e \in Int
  PROVE  LET s == set_volume("vl_lpbk", a) \o set_volume("vr_lpbk", b)
                    \o set_volume("vl_net", d) \o set_volume("vr_net", e)
         IN /\ s \in Seq(Writes)
            /\ \A c, old :
                 After(s, c, old, CASE c = <<"volume", "vl_lpbk">> -> a % Word
                                    [] c = <<"volume", "vr_lpbk">> -> b % Word
                                    [] c = <<"volume", "vl_net">> -> d % Word
                                    [] c = <<"volume", "vr_net">> -> e % Word
                                    [] OTHER -> old)
<1> DEFINE s1 == set_volume("vl_lpbk", a)
           s2 == set_volume("vr_lpbk", b)
           s3 == set_volume("vl_net", d)
           s4 == set_volume("vr_net", e)
<1>1. /\ s1 \in Seq(Writes)
      /\ \A c, old : After(s1, c, old, IF c = <<"volume", "vl_lpbk">> THEN a % Word ELSE old)
  BY VolumeAsked DEF Volumes
<1>2. /\ s2 \in Seq(Writes)
      /\ \A c, old : After(s2, c, old, IF c = <<"volume", "vr_lpbk">> THEN b % Word ELSE old)
  BY VolumeAsked DEF Volumes
<1>3. /\ s3 \in Seq(Writes)
      /\ \A c, old : After(s3, c, old, IF c = <<"volume", "vl_net">> THEN d % Word ELSE old)
  BY VolumeAsked DEF Volumes
<1>4. /\ s4 \in Seq(Writes)
      /\ \A c, old : After(s4, c, old, IF c = <<"volume", "vr_net">> THEN e % Word ELSE old)
  BY VolumeAsked DEF Volumes
<1> HIDE DEF s1, s2, s3, s4
<1>5. /\ s1 \o s2 \in Seq(Writes) /\ (s1 \o s2) \o s3 \in Seq(Writes)
      /\ ((s1 \o s2) \o s3) \o s4 \in Seq(Writes)
  BY <1>1, <1>2, <1>3, <1>4
<1>6. ASSUME NEW c, NEW old
      PROVE  After(((s1 \o s2) \o s3) \o s4, c, old,
                   CASE c = <<"volume", "vl_lpbk">> -> a % Word
                     [] c = <<"volume", "vr_lpbk">> -> b % Word
                     [] c = <<"volume", "vl_net">> -> d % Word
                     [] c = <<"volume", "vr_net">> -> e % Word
                     [] OTHER -> old)
  <2> DEFINE v1 == IF c = <<"volume", "vl_lpbk">> THEN a % Word ELSE old
             v2 == IF c = <<"volume", "vr_lpbk">> THEN b % Word ELSE v1
             v3 == IF c = <<"volume", "vl_net">> THEN d % Word ELSE v2
             v4 == IF c = <<"volume", "vr_net">> THEN e % Word ELSE v3
  <2>1. After(s1, c, old, v1) /\ After(s2, c, v1, v2) /\ After(s3, c, v2, v3) /\ After(s4, c, v3, v4)
    BY <1>1, <1>2, <1>3, <1>4
  <2>2. v4 = CASE c = <<"volume", "vl_lpbk">> -> a % Word
               [] c = <<"volume", "vr_lpbk">> -> b % Word
               [] c = <<"volume", "vl_net">> -> d % Word
               [] c = <<"volume", "vr_net">> -> e % Word
               [] OTHER -> old
    OBVIOUS
  <2> HIDE DEF v1, v2, v3, v4
  <2>3. After(s1 \o s2, c, old, v2)
    BY <1>1, <1>2, <2>1, Chain
  <2>4. After((s1 \o s2) \o s3, c, old, v3)
    BY <1>3, <1>5, <2>1, <2>3, Chain
  <2>5. After(((s1 \o s2) \o s3) \o s4, c, old, v4)
    BY <1>4, <1>5, <2>1, <2>4, Chain
  <2> QED
    BY <2>2, <2>5
<1> QED
  BY <1>5, <1>6 DEF s1, s2, s3, s4

\* Every channel's volume is a number, and every cell has one that fits.
MemoryTyped ==
  /\ DOMAIN memory = Memory /\ DOMAIN device = Device
  /\ \A c \in Memory : memory[c] \in Int /\ Fits(c, memory[c])

\* Each channel is asked for its own product.
LEMMA ScaleAllIs ==
  ASSUME MemoryTyped, NEW g \in Int
  PROVE  /\ ScaleAll(g) \in Seq(Writes)
         /\ \A c, old : (\A x \in Volumes : c # <<"volume", x>>) => After(ScaleAll(g), c, old, old)
         /\ \A x \in Volumes : \A old :
              After(ScaleAll(g), <<"volume", x>>, old, (params(x) * g) % Word)
<1>1. \A x \in Volumes : params(x) \in Int /\ params(x) * g \in Int
  <2>1. \A x \in Volumes : <<"params", x>> \in Memory
    BY MemoryCells
  <2>2. \A x \in Volumes : params(x) \in Int
    BY <2>1 DEF MemoryTyped, params
  <2> QED
    BY <2>2
<1>2. /\ params("vl_lpbk") * g \in Int /\ params("vr_lpbk") * g \in Int
      /\ params("vl_net") * g \in Int /\ params("vr_net") * g \in Int
  BY <1>1 DEF Volumes
<1> DEFINE value(c, old) == CASE c = <<"volume", "vl_lpbk">> -> (params("vl_lpbk") * g) % Word
                              [] c = <<"volume", "vr_lpbk">> -> (params("vr_lpbk") * g) % Word
                              [] c = <<"volume", "vl_net">> -> (params("vl_net") * g) % Word
                              [] c = <<"volume", "vr_net">> -> (params("vr_net") * g) % Word
                              [] OTHER -> old
<1>3. ScaleAll(g) \in Seq(Writes) /\ \A c, old : After(ScaleAll(g), c, old, value(c, old))
  BY <1>2, FourVolumes DEF ScaleAll
<1>4. \A c, old : (\A x \in Volumes : c # <<"volume", x>>) => value(c, old) = old
  BY DEF Volumes
<1>5. \A x \in Volumes : \A old : value(<<"volume", x>>, old) = (params(x) * g) % Word
  BY DEF Volumes
<1> HIDE DEF value
<1>6. ASSUME NEW c, NEW old, \A x \in Volumes : c # <<"volume", x>>
      PROVE  After(ScaleAll(g), c, old, old)
  <2>1. value(c, old) = old
    BY <1>4, <1>6
  <2> QED
    BY <1>3, <2>1
<1>7. ASSUME NEW x \in Volumes, NEW old
      PROVE  After(ScaleAll(g), <<"volume", x>>, old, (params(x) * g) % Word)
  <2>1. value(<<"volume", x>>, old) = (params(x) * g) % Word
    BY <1>5
  <2> QED
    BY <1>3, <2>1
<1> QED
  BY <1>3, <1>6, <1>7

\* LED i of the bar for a volume.
Bar(vol, i) == IF vol >= 18 - 2 * i THEN 1 ELSE 0

\* The bar has eight LEDs, all different.
LEMMA EightLeds ==
  /\ DOMAIN Leds = 1 .. 8
  /\ \A i, j \in 1 .. 8 : Leds[i] = Leds[j] => i = j
BY DEF Leds

\* update_leds writes the whole bar for a volume and nothing besides.
LEMMA UpdateLedsIs ==
  ASSUME NEW vol \in Int
  PROVE  /\ update_leds(vol) \in Seq(Writes)
         /\ \A c, old : (\A i \in 1 .. 8 : c # <<"led", Leds[i]>>) => After(update_leds(vol), c, old, old)
         /\ \A i \in 1 .. 8 : \A old : After(update_leds(vol), <<"led", Leds[i]>>, old, Bar(vol, i))
<1> DEFINE w(i) == [cell |-> <<"led", Leds[i]>>, val |-> Bar(vol, i)]
<1>1. update_leds(vol) = [i \in 1 .. 8 |-> w(i)]
  BY EightLeds DEF update_leds, Bar
<1>2. \A i \in 1 .. 8 : w(i) \in Writes
  <2> TAKE i \in 1 .. 8
  <2>1. <<"led", Leds[i]>> \in Cells /\ <<"led", Leds[i]>> \notin Memory
    BY EightLeds, DeviceCells
  <2>2. Bar(vol, i) \in {0, 1} /\ Bar(vol, i) \in Int
    BY DEF Bar
  <2> QED
    BY <2>1, <2>2 DEF Writes
<1>3. update_leds(vol) \in Seq(Writes)
  BY <1>1, <1>2
<1>4. ASSUME NEW c, NEW old, \A i \in 1 .. 8 : c # <<"led", Leds[i]>>
      PROVE  After(update_leds(vol), c, old, old)
  BY <1>1, <1>4 DEF After, Avoids
<1>5. ASSUME NEW i \in 1 .. 8, NEW old
      PROVE  After(update_leds(vol), <<"led", Leds[i]>>, old, Bar(vol, i))
  <2>1. \A j \in 1 .. 8 : j > i => <<"led", Leds[j]>> # <<"led", Leds[i]>>
    BY EightLeds
  <2>2. DOMAIN update_leds(vol) = 1 .. 8 /\ \A j \in 1 .. 8 : update_leds(vol)[j] = w(j)
    BY <1>1
  <2>3. update_leds(vol)[i].cell = <<"led", Leds[i]>> /\ update_leds(vol)[i].val = Bar(vol, i)
    BY <2>2
  <2>4. \A j \in 1 .. 8 : j > i => update_leds(vol)[j].cell # <<"led", Leds[i]>>
    BY <2>1, <2>2
  <2> QED
    BY <2>2, <2>3, <2>4 DEF After, Last
<1> QED
  BY <1>3, <1>4, <1>5

\* The coefficients are in, and the chain is not left in the load.
LEMMA CoefficientsAre ==
  ASSUME NEW x \in Chains
  PROVE  /\ set_coefficients(x) \in Seq(Writes)
         /\ \A c, old : c \notin {<<"coefficients", x>>, <<"reg15", x>>, <<"reg16", x>>} =>
              After(set_coefficients(x), c, old, old)
         /\ \A old : /\ After(set_coefficients(x), <<"coefficients", x>>, old, 1)
                     /\ After(set_coefficients(x), <<"reg15", x>>, old, 0)
<1> DEFINE s1 == Put("reg15", x, 1)
           s2 == Put("reg15", x, 0)
           s3 == Put("reg16", x, 1)
           s4 == Put("coefficients", x, 1)
<1>0. /\ <<"reg15", x>> \in Cells \ Memory /\ <<"reg16", x>> \in Cells \ Memory
      /\ <<"coefficients", x>> \in Cells \ Memory /\ 0 \in {0, 1} /\ 1 \in {0, 1}
  BY DeviceCells
<1>1. s1 \in Seq(Writes) /\ \A c, old : After(s1, c, old, IF c = <<"reg15", x>> THEN 1 ELSE old)
  BY <1>0, DevicePut
<1>2. s2 \in Seq(Writes) /\ \A c, old : After(s2, c, old, IF c = <<"reg15", x>> THEN 0 ELSE old)
  BY <1>0, DevicePut
<1>3. s3 \in Seq(Writes) /\ \A c, old : After(s3, c, old, IF c = <<"reg16", x>> THEN 1 ELSE old)
  BY <1>0, DevicePut
<1>4. /\ s4 \in Seq(Writes)
      /\ \A c, old : After(s4, c, old, IF c = <<"coefficients", x>> THEN 1 ELSE old)
  BY <1>0, DevicePut
<1>5. set_coefficients(x) = (((s1 \o s2) \o s3) \o s4) \o s2
  BY DEF set_coefficients
<1> HIDE DEF s1, s2, s3, s4
<1>6. /\ s1 \o s2 \in Seq(Writes) /\ (s1 \o s2) \o s3 \in Seq(Writes)
      /\ ((s1 \o s2) \o s3) \o s4 \in Seq(Writes)
      /\ (((s1 \o s2) \o s3) \o s4) \o s2 \in Seq(Writes)
  BY <1>1, <1>2, <1>3, <1>4
<1>7. ASSUME NEW c, NEW old
      PROVE  LET v4 == IF c = <<"coefficients", x>> THEN 1 ELSE
                       IF c = <<"reg16", x>> THEN 1 ELSE IF c = <<"reg15", x>> THEN 0 ELSE old
             IN  After((((s1 \o s2) \o s3) \o s4) \o s2, c, old, IF c = <<"reg15", x>> THEN 0 ELSE v4)
  <2> DEFINE v1 == IF c = <<"reg15", x>> THEN 1 ELSE old
             v2 == IF c = <<"reg15", x>> THEN 0 ELSE v1
             v3 == IF c = <<"reg16", x>> THEN 1 ELSE v2
             v4 == IF c = <<"coefficients", x>> THEN 1 ELSE v3
             v5 == IF c = <<"reg15", x>> THEN 0 ELSE v4
  <2>1. /\ After(s1, c, old, v1) /\ After(s2, c, v1, v2) /\ After(s3, c, v2, v3)
        /\ After(s4, c, v3, v4) /\ After(s2, c, v4, v5)
    BY <1>1, <1>2, <1>3, <1>4
  <2>2. v5 = IF c = <<"reg15", x>> THEN 0 ELSE IF c = <<"coefficients", x>> THEN 1 ELSE
             IF c = <<"reg16", x>> THEN 1 ELSE IF c = <<"reg15", x>> THEN 0 ELSE old
    OBVIOUS
  <2> HIDE DEF v1, v2, v3, v4, v5
  <2>3. After(s1 \o s2, c, old, v2)
    BY <1>1, <1>2, <2>1, Chain
  <2>4. After((s1 \o s2) \o s3, c, old, v3)
    BY <1>3, <1>6, <2>1, <2>3, Chain
  <2>5. After(((s1 \o s2) \o s3) \o s4, c, old, v4)
    BY <1>4, <1>6, <2>1, <2>4, Chain
  <2>6. After((((s1 \o s2) \o s3) \o s4) \o s2, c, old, v5)
    BY <1>2, <1>6, <2>1, <2>5, Chain
  <2> QED
    BY <2>2, <2>6
<1> QED
  BY <1>5, <1>6, <1>7

\* One more write to the memory.
LEMMA AndPut ==
  ASSUME NEW s \in Seq(Writes), NEW a, NEW n, NEW v \in Int,
         <<a, n>> \in Memory, Fits(<<a, n>>, v)
  PROVE  /\ s \o Put(a, n, v) \in Seq(Writes)
         /\ \A c, old, m : After(s, c, old, m) =>
              After(s \o Put(a, n, v), c, old, IF c = <<a, n>> THEN v ELSE m)
<1> DEFINE p == Put(a, n, v)
<1>1. p \in Seq(Writes) /\ \A c, old : After(p, c, old, IF c = <<a, n>> THEN v ELSE old)
  BY MemoryPut
<1> HIDE DEF p
<1>2. ASSUME NEW c, NEW old, NEW m, After(s, c, old, m)
      PROVE  After(s \o p, c, old, IF c = <<a, n>> THEN v ELSE m)
  <2>1. After(p, c, m, IF c = <<a, n>> THEN v ELSE m)
    BY <1>1
  <2> QED
    BY <1>1, <1>2, <2>1, Chain
<1> QED
  BY <1>1, <1>2 DEF p

IsVolume(c) == \E x \in Volumes : c = <<"volume", x>>
IsLed(c) == \E i \in 1 .. 8 : c = <<"led", Leds[i]>>

\* Every channel and every LED follows.
LEMMA ScaleAndShow ==
  ASSUME MemoryTyped, NEW g \in Int, NEW vol \in Int, NEW before \in Seq(Writes),
         NEW kept,
         \A c, old : c \notin kept => After(before, c, old, old),
         \A c \in kept : ~IsVolume(c) /\ ~IsLed(c)
  PROVE  LET s == (before \o ScaleAll(g)) \o update_leds(vol)
         IN /\ s \in Seq(Writes)
            /\ \A x \in Volumes : \A old : After(s, <<"volume", x>>, old, (params(x) * g) % Word)
            /\ \A i \in 1 .. 8 : \A old : After(s, <<"led", Leds[i]>>, old, Bar(vol, i))
            /\ \A c \in kept : \A old, v : After(before, c, old, v) => After(s, c, old, v)
            /\ \A c, old : c \notin kept /\ ~IsVolume(c) /\ ~IsLed(c) => After(s, c, old, old)
<1> DEFINE scale == ScaleAll(g)
           leds == update_leds(vol)
<1>1. /\ scale \in Seq(Writes)
      /\ \A c, old : ~IsVolume(c) => After(scale, c, old, old)
      /\ \A x \in Volumes : \A old : After(scale, <<"volume", x>>, old, (params(x) * g) % Word)
  BY ScaleAllIs DEF IsVolume
<1>2. /\ leds \in Seq(Writes)
      /\ \A c, old : ~IsLed(c) => After(leds, c, old, old)
      /\ \A i \in 1 .. 8 : \A old : After(leds, <<"led", Leds[i]>>, old, Bar(vol, i))
  BY UpdateLedsIs DEF IsLed
<1>3. /\ \A x \in Volumes : ~IsLed(<<"volume", x>>)
      /\ \A i \in 1 .. 8 : ~IsVolume(<<"led", Leds[i]>>)
  BY DEF IsLed, IsVolume
<1>4. /\ \A x \in Volumes : <<"volume", x>> \notin kept
      /\ \A i \in 1 .. 8 : <<"led", Leds[i]>> \notin kept
  BY DEF IsLed, IsVolume
<1> HIDE DEF scale, leds
<1>5. before \o scale \in Seq(Writes) /\ (before \o scale) \o leds \in Seq(Writes)
  BY <1>1, <1>2
<1>6. ASSUME NEW c, NEW old, NEW v1, NEW v2, NEW v3,
             After(before, c, old, v1), After(scale, c, v1, v2), After(leds, c, v2, v3)
      PROVE  After((before \o scale) \o leds, c, old, v3)
  <2>1. After(before \o scale, c, old, v2)
    BY <1>1, <1>6, Chain
  <2> QED
    BY <1>2, <1>5, <1>6, <2>1, Chain
<1>7. ASSUME NEW x \in Volumes, NEW old
      PROVE  After((before \o scale) \o leds, <<"volume", x>>, old, (params(x) * g) % Word)
  BY <1>1, <1>2, <1>3, <1>4, <1>6
<1>8. ASSUME NEW i \in 1 .. 8, NEW old
      PROVE  After((before \o scale) \o leds, <<"led", Leds[i]>>, old, Bar(vol, i))
  BY <1>1, <1>2, <1>3, <1>4, <1>6
<1>9. ASSUME NEW c \in kept, NEW old, NEW v, After(before, c, old, v)
      PROVE  After((before \o scale) \o leds, c, old, v)
  BY <1>1, <1>2, <1>6, <1>9
<1>10. ASSUME NEW c, NEW old, c \notin kept, ~IsVolume(c), ~IsLed(c)
       PROVE  After((before \o scale) \o leds, c, old, old)
  BY <1>1, <1>2, <1>6, <1>10
<1> QED
  BY <1>5, <1>7, <1>8, <1>9, <1>10 DEF scale, leds

\* The global volume (vgg).
LEMMA GlobalVolumeIs ==
  ASSUME MemoryTyped, NEW g \in 0 .. (Word - 1)
  PROVE  /\ vgg(g) \in Seq(Writes)
         /\ \A x \in Volumes : \A old : After(vgg(g), <<"volume", x>>, old, (params(x) * g) % Word)
         /\ \A i \in 1 .. 8 : \A old : After(vgg(g), <<"led", Leds[i]>>, old, Bar(Signed(g), i))
         /\ \A old : /\ After(vgg(g), <<"params", "v_global">>, old, Signed(g))
                     /\ After(vgg(g), <<"ui", "globalVol">>, old, Signed(g))
         /\ \A c, old : /\ c \notin {<<"ui", "gain">>, <<"ui", "globalVol">>, <<"params", "v_global">>}
                        /\ ~IsVolume(c) /\ ~IsLed(c)
                        => After(vgg(g), c, old, old)
<1> DEFINE s1 == Put("ui", "gain", g)
           s2 == s1 \o Put("params", "v_global", Signed(g))
           s3 == s2 \o Put("ui", "globalVol", Signed(g))
           kept == {<<"ui", "gain">>, <<"ui", "globalVol">>, <<"params", "v_global">>}
           v1(c, old) == IF c = <<"ui", "gain">> THEN g ELSE old
           v2(c, old) == IF c = <<"params", "v_global">> THEN Signed(g) ELSE v1(c, old)
           v3(c, old) == IF c = <<"ui", "globalVol">> THEN Signed(g) ELSE v2(c, old)
<1>0. g \in Int /\ Signed(g) \in Int /\ vgg(g) = (s3 \o ScaleAll(g)) \o update_leds(Signed(g))
  BY SignedFits DEF vgg
<1>1. s1 \in Seq(Writes) /\ \A c, old : After(s1, c, old, v1(c, old))
  BY <1>0, MemoryPut, MemoryCells
<1>2. s2 \in Seq(Writes) /\ \A c, old : After(s2, c, old, v2(c, old))
  <2>1. <<"params", "v_global">> \in Memory /\ Fits(<<"params", "v_global">>, Signed(g))
    BY SignedFits, MemoryCells
  <2> HIDE DEF s1, v1
  <2> QED
    BY <1>0, <1>1, <2>1, AndPut
<1>3. s3 \in Seq(Writes) /\ \A c, old : After(s3, c, old, v3(c, old))
  <2>1. <<"ui", "globalVol">> \in Memory /\ Fits(<<"ui", "globalVol">>, Signed(g))
    BY SignedFits, MemoryCells
  <2> HIDE DEF s2, v2
  <2> QED
    BY <1>0, <1>2, <2>1, AndPut
<1>4. \A c \in kept : ~IsVolume(c) /\ ~IsLed(c)
  BY DEF IsVolume, IsLed
<1>5. \A c, old : c \notin kept => After(s3, c, old, old)
  <2>1. \A c, old : c \notin kept => v3(c, old) = old
    OBVIOUS
  <2> HIDE DEF v3, s3, kept
  <2> QED
    BY <1>3, <2>1
<1>6. \A old : /\ After(s3, <<"params", "v_global">>, old, Signed(g))
               /\ After(s3, <<"ui", "globalVol">>, old, Signed(g))
  <2>1. \A old : /\ v3(<<"params", "v_global">>, old) = Signed(g)
                 /\ v3(<<"ui", "globalVol">>, old) = Signed(g)
    OBVIOUS
  <2> HIDE DEF v3, s3
  <2> QED
    BY <1>3, <2>1
<1>7. <<"params", "v_global">> \in kept /\ <<"ui", "globalVol">> \in kept
  OBVIOUS
<1> HIDE DEF s3, kept
<1>8. LET s == (s3 \o ScaleAll(g)) \o update_leds(Signed(g))
      IN /\ s \in Seq(Writes)
         /\ \A x \in Volumes : \A old : After(s, <<"volume", x>>, old, (params(x) * g) % Word)
         /\ \A i \in 1 .. 8 : \A old : After(s, <<"led", Leds[i]>>, old, Bar(Signed(g), i))
         /\ \A c \in kept : \A old, v : After(s3, c, old, v) => After(s, c, old, v)
         /\ \A c, old : c \notin kept /\ ~IsVolume(c) /\ ~IsLed(c) => After(s, c, old, old)
  BY <1>0, <1>3, <1>4, <1>5, ScaleAndShow
<1> QED
  BY <1>0, <1>6, <1>7, <1>8 DEF kept

\* The end (exit).
LEMMA ExitIs ==
  ASSUME MemoryTyped
  PROVE  /\ Exit \in Seq(Writes)
         /\ \A x \in Volumes : \A old : After(Exit, <<"volume", x>>, old, 0)
         /\ \A i \in 1 .. 8 : \A old : After(Exit, <<"led", Leds[i]>>, old, 0)
         /\ \A old : After(Exit, <<"ui", "globalVol">>, old, 0)
<1> DEFINE s1 == Put("ui", "gain", 0)
           s2 == s1 \o Put("ui", "globalVol", 0)
           kept == {<<"ui", "gain">>, <<"ui", "globalVol">>}
           v1(c, old) == IF c = <<"ui", "gain">> THEN 0 ELSE old
           v2(c, old) == IF c = <<"ui", "globalVol">> THEN 0 ELSE v1(c, old)
<1>e. Exit = (s2 \o ScaleAll(0)) \o update_leds(0)
  BY DEF Exit
<1>0. 0 \in Int /\ 0 \in 0 .. (Word - 1) /\ 2 * 0 \in (-Word) .. (Word - 1)
  BY MixerAssumption
<1>1. s1 \in Seq(Writes) /\ \A c, old : After(s1, c, old, v1(c, old))
  <2>1. <<"ui", "gain">> \in Memory /\ Fits(<<"ui", "gain">>, 0)
    BY <1>0, MemoryCells
  <2> QED
    BY <1>0, <2>1, MemoryPut
<1>2. s2 \in Seq(Writes) /\ \A c, old : After(s2, c, old, v2(c, old))
  <2>1. <<"ui", "globalVol">> \in Memory /\ Fits(<<"ui", "globalVol">>, 0)
    BY <1>0, MemoryCells
  <2> HIDE DEF s1, v1
  <2> QED
    BY <1>0, <1>1, <2>1, AndPut
<1>3. \A c \in kept : ~IsVolume(c) /\ ~IsLed(c)
  BY DEF IsVolume, IsLed
<1>4. \A c, old : c \notin kept => After(s2, c, old, old)
  <2>1. \A c, old : c \notin kept => v2(c, old) = old
    OBVIOUS
  <2> HIDE DEF v2, s2, kept
  <2> QED
    BY <1>2, <2>1
<1>5. \A old : After(s2, <<"ui", "globalVol">>, old, 0)
  <2>1. \A old : v2(<<"ui", "globalVol">>, old) = 0
    OBVIOUS
  <2> HIDE DEF v2, s2
  <2> QED
    BY <1>2, <2>1
<1>6. <<"ui", "globalVol">> \in kept
  OBVIOUS
<1>7. \A x \in Volumes : (params(x) * 0) % Word = 0
  <2>1. 0 % Word = 0
    BY MixerAssumption, ModShift
  <2>2. \A x \in Volumes : params(x) * 0 = 0
    <3>1. \A x \in Volumes : <<"params", x>> \in Memory
      BY MemoryCells
    <3>2. \A x \in Volumes : params(x) \in Int
      BY <3>1 DEF MemoryTyped, params
    <3> QED
      BY <3>2
  <2> QED
    BY <2>1, <2>2
<1>8. \A i \in 1 .. 8 : Bar(0, i) = 0
  BY DEF Bar
<1> HIDE DEF s2, kept
<1>9. LET s == (s2 \o ScaleAll(0)) \o update_leds(0)
      IN /\ s \in Seq(Writes)
         /\ \A x \in Volumes : \A old : After(s, <<"volume", x>>, old, (params(x) * 0) % Word)
         /\ \A i \in 1 .. 8 : \A old : After(s, <<"led", Leds[i]>>, old, Bar(0, i))
         /\ \A c \in kept : \A old, v : After(s2, c, old, v) => After(s, c, old, v)
  BY <1>0, <1>2, <1>3, <1>4, ScaleAndShow
<1> QED
  BY <1>e, <1>5, <1>6, <1>7, <1>8, <1>9

\* A channel's volume (vll, vlr, vnl, vnr).
LEMMA VolumeIs ==
  ASSUME MemoryTyped, NEW ch \in Volumes, NEW g \in 0 .. (Word - 1)
  PROVE  /\ Volume(ch, g) \in Seq(Writes)
         /\ \A old : /\ After(Volume(ch, g), <<"volume", ch>>, old, (params("v_global") * g) % Word)
                     /\ After(Volume(ch, g), <<"params", ch>>, old, Signed(g))
         /\ \A c, old : /\ c \notin {<<"ui", "gain">>, <<"volume", ch>>, <<"params", ch>>, <<"setting", ch>>}
                        => After(Volume(ch, g), c, old, old)
<1> DEFINE p == (params("v_global") * g) % Word
           s1 == Put("ui", "gain", g)
           s2 == s1 \o Put("volume", ch, p)
           s3 == s2 \o Put("params", ch, Signed(g))
           s4 == s3 \o Put("setting", ch, Signed(g))
           v1(c, old) == IF c = <<"ui", "gain">> THEN g ELSE old
           v2(c, old) == IF c = <<"volume", ch>> THEN p ELSE v1(c, old)
           v3(c, old) == IF c = <<"params", ch>> THEN Signed(g) ELSE v2(c, old)
           v4(c, old) == IF c = <<"setting", ch>> THEN Signed(g) ELSE v3(c, old)
<1>e. Volume(ch, g) = s4
  BY DEF Volume, set_volume
<1>p. p \in 0 .. (Word - 1)
  <2>1. <<"params", "v_global">> \in Memory
    BY MemoryCells
  <2>2. params("v_global") \in Int
    BY <2>1 DEF MemoryTyped, params
  <2>3. params("v_global") * g \in Int /\ Word \in Nat \ {0}
    BY <2>2, MixerAssumption
  <2> QED
    BY <2>3, ModIs
<1>g. g \in Int /\ Signed(g) \in Int /\ p \in Int
  BY <1>p, SignedFits
<1>f. /\ <<"ui", "gain">> \in Memory /\ Fits(<<"ui", "gain">>, g)
      /\ <<"volume", ch>> \in Memory /\ Fits(<<"volume", ch>>, p)
      /\ <<"params", ch>> \in Memory /\ Fits(<<"params", ch>>, Signed(g))
      /\ <<"setting", ch>> \in Memory /\ Fits(<<"setting", ch>>, Signed(g))
  <2> HIDE DEF p
  <2> QED
    BY <1>p, SignedFits, MemoryCells
<1> HIDE DEF p
<1>1. s1 \in Seq(Writes) /\ \A c, old : After(s1, c, old, v1(c, old))
  BY <1>g, <1>f, MemoryPut
<1>2. s2 \in Seq(Writes) /\ \A c, old : After(s2, c, old, v2(c, old))
  <2> HIDE DEF s1, v1
  <2> QED
    BY <1>g, <1>f, <1>1, AndPut
<1>3. s3 \in Seq(Writes) /\ \A c, old : After(s3, c, old, v3(c, old))
  <2> HIDE DEF s2, v2
  <2> QED
    BY <1>g, <1>f, <1>2, AndPut
<1>4. s4 \in Seq(Writes) /\ \A c, old : After(s4, c, old, v4(c, old))
  <2> HIDE DEF s3, v3
  <2> QED
    BY <1>g, <1>f, <1>3, AndPut
<1>5. \A old : v4(<<"volume", ch>>, old) = p /\ v4(<<"params", ch>>, old) = Signed(g)
  OBVIOUS
<1>6. \A c, old : c \notin {<<"ui", "gain">>, <<"volume", ch>>, <<"params", ch>>, <<"setting", ch>>}
                    => v4(c, old) = old
  OBVIOUS
<1> HIDE DEF s4, v4
<1>7. \A old : After(s4, <<"volume", ch>>, old, p) /\ After(s4, <<"params", ch>>, old, Signed(g))
  BY <1>4, <1>5
<1>8. \A c, old : c \notin {<<"ui", "gain">>, <<"volume", ch>>, <<"params", ch>>, <<"setting", ch>>}
                    => After(s4, c, old, old)
  BY <1>4, <1>6
<1> QED
  BY <1>e, <1>4, <1>7, <1>8 DEF p

\* A filter (lfhe, lfhd, ..., nfle, nfld): each of the six has a type that
\* set_filter_type accepts.
LEMMA FilterIs ==
  ASSUME NEW f \in Filters, NEW on \in {0, 1}
  PROVE  /\ Filter(f, on) \in Seq(Writes)
         /\ \A old : /\ After(Filter(f, on), <<"filter", f>>, old, on)
                     /\ After(Filter(f, on), <<"params", f>>, old, on)
                     /\ After(Filter(f, on), <<"setting", f>>, old, on)
         /\ \A c, old : c \notin {<<"filter", f>>, <<"params", f>>, <<"setting", f>>}
                          => After(Filter(f, on), c, old, old)
<1> DEFINE s1 == Put("filter", f, on)
           s2 == s1 \o Put("params", f, on)
           s3 == s2 \o Put("setting", f, on)
           v1(c, old) == IF c = <<"filter", f>> THEN on ELSE old
           v2(c, old) == IF c = <<"params", f>> THEN on ELSE v1(c, old)
           v3(c, old) == IF c = <<"setting", f>> THEN on ELSE v2(c, old)
<1>t. FilterType[f] \in 1 .. (FILTER_TYPE_MAX - 1)
  <2>1. FilterType[f] = CASE f \in {"filter_b_lpbk", "filter_b_net"} -> 1
                          [] f \in {"filter_h_lpbk", "filter_h_net"} -> 2
                          [] OTHER -> 4
    BY DEF FilterType
  <2>2. FilterType[f] \in {1, 2, 4}
    BY <2>1 DEF Filters
  <2> QED
    BY <2>2 DEF FILTER_TYPE_MAX
<1>e. Filter(f, on) = s3
  BY <1>t DEF Filter, set_filter_type
<1>f. /\ <<"filter", f>> \in Cells \ Memory
      /\ <<"params", f>> \in Memory /\ Fits(<<"params", f>>, on)
      /\ <<"setting", f>> \in Memory /\ Fits(<<"setting", f>>, on)
      /\ on \in Int
  BY MemoryCells, DeviceCells
<1>1. s1 \in Seq(Writes) /\ \A c, old : After(s1, c, old, v1(c, old))
  BY <1>f, DevicePut
<1>2. s2 \in Seq(Writes) /\ \A c, old : After(s2, c, old, v2(c, old))
  <2> HIDE DEF s1, v1
  <2> QED
    BY <1>f, <1>1, AndPut
<1>3. s3 \in Seq(Writes) /\ \A c, old : After(s3, c, old, v3(c, old))
  <2> HIDE DEF s2, v2
  <2> QED
    BY <1>f, <1>2, AndPut
<1>5. \A old : /\ v3(<<"filter", f>>, old) = on /\ v3(<<"params", f>>, old) = on
               /\ v3(<<"setting", f>>, old) = on
  OBVIOUS
<1>6. \A c, old : c \notin {<<"filter", f>>, <<"params", f>>, <<"setting", f>>} => v3(c, old) = old
  OBVIOUS
<1> HIDE DEF s3, v3
<1>7. \A old : /\ After(s3, <<"filter", f>>, old, on) /\ After(s3, <<"params", f>>, old, on)
               /\ After(s3, <<"setting", f>>, old, on)
  BY <1>3, <1>5
<1>8. \A c, old : c \notin {<<"filter", f>>, <<"params", f>>, <<"setting", f>>} => After(s3, c, old, old)
  <2> TAKE c, old
  <2> HAVE c \notin {<<"filter", f>>, <<"params", f>>, <<"setting", f>>}
  <2>1. v3(c, old) = old
    BY <1>6
  <2>2. After(s3, c, old, v3(c, old))
    BY <1>3
  <2> QED
    BY <2>1, <2>2
<1> QED
  BY <1>e, <1>3, <1>7, <1>8

\* Both chains are loaded.
LEMMA BothLoaded ==
  LET s == set_coefficients("lpbk") \o set_coefficients("net")
  IN /\ s \in Seq(Writes)
     /\ \A x \in Chains : \A old : /\ After(s, <<"coefficients", x>>, old, 1)
                                /\ After(s, <<"reg15", x>>, old, 0)
     /\ \A c \in Memory : \A old : After(s, c, old, old)
<1> DEFINE a == set_coefficients("lpbk")
           b == set_coefficients("net")
           Of(x) == {<<"coefficients", x>>, <<"reg15", x>>, <<"reg16", x>>}
<1>0. "lpbk" \in Chains /\ "net" \in Chains /\ \A x \in Chains : x = "lpbk" \/ x = "net"
  BY DEF Chains
<1>1. /\ a \in Seq(Writes) /\ \A c, old : c \notin Of("lpbk") => After(a, c, old, old)
      /\ \A old : After(a, <<"coefficients", "lpbk">>, old, 1) /\ After(a, <<"reg15", "lpbk">>, old, 0)
  BY <1>0, CoefficientsAre
<1>2. /\ b \in Seq(Writes) /\ \A c, old : c \notin Of("net") => After(b, c, old, old)
      /\ \A old : After(b, <<"coefficients", "net">>, old, 1) /\ After(b, <<"reg15", "net">>, old, 0)
  BY <1>0, CoefficientsAre
<1> HIDE DEF a, b
<1>3. ASSUME NEW old
      PROVE  /\ After(a \o b, <<"coefficients", "lpbk">>, old, 1)
             /\ After(a \o b, <<"reg15", "lpbk">>, old, 0)
  <2>1. /\ After(b, <<"coefficients", "lpbk">>, 1, 1)
        /\ After(b, <<"reg15", "lpbk">>, 0, 0)
    BY <1>2
  <2> QED
    BY <1>1, <1>2, <2>1, Chain
<1>4. ASSUME NEW old
      PROVE  /\ After(a \o b, <<"coefficients", "net">>, old, 1)
             /\ After(a \o b, <<"reg15", "net">>, old, 0)
  <2>1. /\ After(a, <<"coefficients", "net">>, old, old)
        /\ After(a, <<"reg15", "net">>, old, old)
    BY <1>1
  <2> QED
    BY <1>1, <1>2, <2>1, Chain
<1>5. ASSUME NEW c \in Memory, NEW old
      PROVE  After(a \o b, c, old, old)
  <2>1. c \notin Of("lpbk") /\ c \notin Of("net")
    <3>1. Of("lpbk") \cap Memory = {} /\ Of("net") \cap Memory = {}
      BY <1>0, DeviceCells
    <3> HIDE DEF Of
    <3> QED
      BY <3>1
  <2>2. After(a, c, old, old) /\ After(b, c, old, old)
    BY <1>1, <1>2, <2>1
  <2> QED
    BY <1>1, <1>2, <2>2, Chain
<1>6. a \o b \in Seq(Writes)
  BY <1>1, <1>2
<1> QED
  BY <1>0, <1>3, <1>4, <1>5, <1>6 DEF a, b

\* The start (ui_init).
LEMMA InitIs ==
  /\ ui_init \in Seq(Writes)
  /\ \A x \in Volumes : \A old : /\ After(ui_init, <<"volume", x>>, old, 30)
                              /\ After(ui_init, <<"params", x>>, old, 30)
  /\ \A old : /\ After(ui_init, <<"params", "v_global">>, old, 4)
              /\ After(ui_init, <<"ui", "globalVol">>, old, 4)
  /\ \A f \in Filters : \A old : /\ After(ui_init, <<"params", f>>, old, old)
                              /\ After(ui_init, <<"setting", f>>, old, old)
  /\ \A b \in Chains : \A old : /\ After(ui_init, <<"coefficients", b>>, old, 1)
                             /\ After(ui_init, <<"reg15", b>>, old, 0)
<1> DEFINE s0 == set_coefficients("lpbk") \o set_coefficients("net")
           s1 == s0 \o Put("volume", "vl_lpbk", 30)
           s2 == s1 \o Put("volume", "vr_lpbk", 30)
           s3 == s2 \o Put("volume", "vl_net", 30)
           s4 == s3 \o Put("volume", "vr_net", 30)
           s5 == s4 \o Put("params", "vl_lpbk", 30)
           s6 == s5 \o Put("params", "v_global", 4)
           s7 == s6 \o Put("ui", "globalVol", 4)
           s8 == s7 \o Put("params", "vr_lpbk", 30)
           s9 == s8 \o Put("params", "vl_net", 30)
           s10 == s9 \o Put("params", "vr_net", 30)
           v0(c, old) == old
           v1(c, old) == IF c = <<"volume", "vl_lpbk">> THEN 30 ELSE v0(c, old)
           v2(c, old) == IF c = <<"volume", "vr_lpbk">> THEN 30 ELSE v1(c, old)
           v3(c, old) == IF c = <<"volume", "vl_net">> THEN 30 ELSE v2(c, old)
           v4(c, old) == IF c = <<"volume", "vr_net">> THEN 30 ELSE v3(c, old)
           v5(c, old) == IF c = <<"params", "vl_lpbk">> THEN 30 ELSE v4(c, old)
           v6(c, old) == IF c = <<"params", "v_global">> THEN 4 ELSE v5(c, old)
           v7(c, old) == IF c = <<"ui", "globalVol">> THEN 4 ELSE v6(c, old)
           v8(c, old) == IF c = <<"params", "vr_lpbk">> THEN 30 ELSE v7(c, old)
           v9(c, old) == IF c = <<"params", "vl_net">> THEN 30 ELSE v8(c, old)
           v10(c, old) == IF c = <<"params", "vr_net">> THEN 30 ELSE v9(c, old)
<1>w. 30 % Word = 30 /\ 30 \in Int /\ 4 \in Int /\ 30 \in 0 .. (Word - 1)
      /\ 2 * 30 \in (-Word) .. (Word - 1) /\ 2 * 4 \in (-Word) .. (Word - 1)
  <2>1. Word \in Nat /\ Word > 60
    BY MixerAssumption
  <2> QED
    BY <2>1
<1>e. ui_init = s10
  BY <1>w DEF ui_init, set_volume
<1>f. /\ <<"volume", "vl_lpbk">> \in Memory /\ Fits(<<"volume", "vl_lpbk">>, 30)
      /\ <<"volume", "vr_lpbk">> \in Memory /\ Fits(<<"volume", "vr_lpbk">>, 30)
      /\ <<"volume", "vl_net">> \in Memory /\ Fits(<<"volume", "vl_net">>, 30)
      /\ <<"volume", "vr_net">> \in Memory /\ Fits(<<"volume", "vr_net">>, 30)
      /\ <<"params", "vl_lpbk">> \in Memory /\ Fits(<<"params", "vl_lpbk">>, 30)
      /\ <<"params", "v_global">> \in Memory /\ Fits(<<"params", "v_global">>, 4)
      /\ <<"ui", "globalVol">> \in Memory /\ Fits(<<"ui", "globalVol">>, 4)
      /\ <<"params", "vr_lpbk">> \in Memory /\ Fits(<<"params", "vr_lpbk">>, 30)
      /\ <<"params", "vl_net">> \in Memory /\ Fits(<<"params", "vl_net">>, 30)
      /\ <<"params", "vr_net">> \in Memory /\ Fits(<<"params", "vr_net">>, 30)
  <2>1. /\ "vl_lpbk" \in Volumes /\ "vr_lpbk" \in Volumes
        /\ "vl_net" \in Volumes /\ "vr_net" \in Volumes
    BY DEF Volumes
  <2> QED
    BY <2>1, <1>w, MemoryCells
<1>0. /\ s0 \in Seq(Writes)
      /\ \A c \in Memory : \A old : After(s0, c, old, v0(c, old))
  BY BothLoaded
<1>c. \A x \in Chains : \A old : /\ After(s0, <<"coefficients", x>>, old, 1)
                             /\ After(s0, <<"reg15", x>>, old, 0)
  BY BothLoaded
<1> DEFINE Kept(s) == \A c \in Cells \ Memory : \A old, m : After(s0, c, old, m) => After(s, c, old, m)
<1>k. Kept(s0)
  OBVIOUS
<1>1. s1 \in Seq(Writes) /\ (\A c \in Memory : \A old : After(s1, c, old, v1(c, old))) /\ Kept(s1)
  <2> HIDE DEF s0, v0
  <2> QED
    BY <1>w, <1>f, <1>0, <1>k, AndPut
<1>2. s2 \in Seq(Writes) /\ (\A c \in Memory : \A old : After(s2, c, old, v2(c, old))) /\ Kept(s2)
  <2> HIDE DEF s1, v1
  <2> QED
    BY <1>w, <1>f, <1>1, AndPut
<1>3. s3 \in Seq(Writes) /\ (\A c \in Memory : \A old : After(s3, c, old, v3(c, old))) /\ Kept(s3)
  <2> HIDE DEF s2, v2
  <2> QED
    BY <1>w, <1>f, <1>2, AndPut
<1>4. s4 \in Seq(Writes) /\ (\A c \in Memory : \A old : After(s4, c, old, v4(c, old))) /\ Kept(s4)
  <2> HIDE DEF s3, v3
  <2> QED
    BY <1>w, <1>f, <1>3, AndPut
<1>5. s5 \in Seq(Writes) /\ (\A c \in Memory : \A old : After(s5, c, old, v5(c, old))) /\ Kept(s5)
  <2> HIDE DEF s4, v4
  <2> QED
    BY <1>w, <1>f, <1>4, AndPut
<1>6. s6 \in Seq(Writes) /\ (\A c \in Memory : \A old : After(s6, c, old, v6(c, old))) /\ Kept(s6)
  <2> HIDE DEF s5, v5
  <2> QED
    BY <1>w, <1>f, <1>5, AndPut
<1>7. s7 \in Seq(Writes) /\ (\A c \in Memory : \A old : After(s7, c, old, v7(c, old))) /\ Kept(s7)
  <2> HIDE DEF s6, v6
  <2> QED
    BY <1>w, <1>f, <1>6, AndPut
<1>8. s8 \in Seq(Writes) /\ (\A c \in Memory : \A old : After(s8, c, old, v8(c, old))) /\ Kept(s8)
  <2> HIDE DEF s7, v7
  <2> QED
    BY <1>w, <1>f, <1>7, AndPut
<1>9. s9 \in Seq(Writes) /\ (\A c \in Memory : \A old : After(s9, c, old, v9(c, old))) /\ Kept(s9)
  <2> HIDE DEF s8, v8
  <2> QED
    BY <1>w, <1>f, <1>8, AndPut
<1>10. s10 \in Seq(Writes) /\ (\A c \in Memory : \A old : After(s10, c, old, v10(c, old))) /\ Kept(s10)
  <2> HIDE DEF s9, v9
  <2> QED
    BY <1>w, <1>f, <1>9, AndPut
<1>11. \A old : /\ \A x \in Volumes : v10(<<"volume", x>>, old) = 30 /\ v10(<<"params", x>>, old) = 30
                /\ v10(<<"params", "v_global">>, old) = 4 /\ v10(<<"ui", "globalVol">>, old) = 4
  BY DEF Volumes
<1>12. \A f \in Filters : \A old : v10(<<"params", f>>, old) = old /\ v10(<<"setting", f>>, old) = old
  BY DEF Filters
<1> HIDE DEF s10, v10
<1>13. \A x \in Volumes : \A old : /\ After(s10, <<"volume", x>>, old, 30)
                               /\ After(s10, <<"params", x>>, old, 30)
  <2> TAKE x \in Volumes
  <2> TAKE old
  <2>1. <<"volume", x>> \in Memory /\ <<"params", x>> \in Memory
    BY MemoryCells
  <2>2. v10(<<"volume", x>>, old) = 30 /\ v10(<<"params", x>>, old) = 30
    BY <1>11
  <2>3. /\ After(s10, <<"volume", x>>, old, v10(<<"volume", x>>, old))
        /\ After(s10, <<"params", x>>, old, v10(<<"params", x>>, old))
    BY <1>10, <2>1
  <2> QED
    BY <2>2, <2>3
<1>14. \A old : /\ After(s10, <<"params", "v_global">>, old, 4)
                /\ After(s10, <<"ui", "globalVol">>, old, 4)
  BY <1>10, <1>11, MemoryCells
<1>15. \A f \in Filters : \A old : /\ After(s10, <<"params", f>>, old, old)
                               /\ After(s10, <<"setting", f>>, old, old)
  <2> TAKE f \in Filters
  <2> TAKE old
  <2>1. <<"params", f>> \in Memory /\ <<"setting", f>> \in Memory
    BY MemoryCells
  <2>2. v10(<<"params", f>>, old) = old /\ v10(<<"setting", f>>, old) = old
    BY <1>12
  <2>3. /\ After(s10, <<"params", f>>, old, v10(<<"params", f>>, old))
        /\ After(s10, <<"setting", f>>, old, v10(<<"setting", f>>, old))
    BY <1>10, <2>1
  <2> QED
    BY <2>2, <2>3
<1>16. \A b \in Chains : \A old : /\ After(s10, <<"coefficients", b>>, old, 1)
                              /\ After(s10, <<"reg15", b>>, old, 0)
  <2>1. \A b \in Chains : /\ <<"coefficients", b>> \in Cells \ Memory
                          /\ <<"reg15", b>> \in Cells \ Memory
    BY DeviceCells
  <2> HIDE DEF s0
  <2> QED
    BY <1>10, <1>c, <2>1
<1> QED
  BY <1>e, <1>10, <1>13, <1>14, <1>15, <1>16

-----------------------------------------------------------------------------
(***************************************************************************)
(* The inductive invariant: the properties of the prompt, said of what the *)
(* cells will hold.  VolumesFollow, LedsShowGlobal and FiltersShown are    *)
(* about the prompt only, and between two writes of a command the copies   *)
(* of a setting do differ.                                                 *)
(***************************************************************************)
Typing ==
  /\ MemoryTyped
  /\ \A c \in Device : device[c] \in {0, 1}
  /\ mode \in {"off", "init", "prompt", "busy", "leaving", "exited"}
  /\ (todo # <<>>) = (mode \in {"init", "busy", "leaving"})
  /\ entered \in 0 .. MaxCommands /\ launches \in 0 .. MaxLaunches
  /\ todo \in Seq(Writes)

Serving == mode \in {"init", "busy", "prompt"}

VolumesWill ==
  Serving =>
    \A x \in Volumes : \E g, p, v \in Int :
      /\ Will(<<"params", "v_global">>, g)
      /\ Will(<<"params", x>>, p)
      /\ Will(<<"volume", x>>, v)
      /\ v = (g * p) % Word \/ (g = 4 /\ p = 30 /\ v = 30)

LedsWill ==
  Serving =>
    \E vol \in Int :
      /\ Will(<<"ui", "globalVol">>, vol) /\ Will(<<"params", "v_global">>, vol)
      /\ vol = 4 \/ \A i \in 1 .. 8 : Will(<<"led", Leds[i]>>, Bar(vol, i))

FiltersWill ==
  Serving =>
    /\ \A b \in Chains : Will(<<"coefficients", b>>, 1) /\ Will(<<"reg15", b>>, 0)
    /\ \A f \in Filters : \E on \in {0, 1} :
         /\ Will(<<"params", f>>, on) /\ Will(<<"setting", f>>, on)
         /\ on = 1 => Will(<<"filter", f>>, 1)

ExitWill ==
  mode \in {"leaving", "exited"} =>
    /\ \A x \in Volumes : Will(<<"volume", x>>, 0)
    /\ \A i \in 1 .. 8 : Will(<<"led", Leds[i]>>, 0)
    /\ Will(<<"ui", "globalVol">>, 0)

IInv == Typing /\ VolumesWill /\ LedsWill /\ FiltersWill /\ ExitWill

-----------------------------------------------------------------------------
\* Every cell the invariant speaks of is a cell.
LEMMA AllCells ==
  /\ \A x \in Volumes : <<"volume", x>> \in Cells /\ <<"params", x>> \in Cells
  /\ <<"params", "v_global">> \in Cells /\ <<"ui", "globalVol">> \in Cells
  /\ \A i \in 1 .. 8 : <<"led", Leds[i]>> \in Cells
  /\ \A b \in Chains : <<"coefficients", b>> \in Cells /\ <<"reg15", b>> \in Cells
  /\ \A f \in Filters : /\ <<"params", f>> \in Cells /\ <<"setting", f>> \in Cells
                        /\ <<"filter", f>> \in Cells
<1>1. Memory \subseteq Cells
  BY DEF Cells
<1>2. \A b \in Chains : <<"coefficients", b>> \in Cells /\ <<"reg15", b>> \in Cells
  BY DeviceCells
<1>3. \A i \in 1 .. 8 : <<"led", Leds[i]>> \in Cells
  BY DeviceCells, EightLeds
<1>4. \A f \in Filters : <<"filter", f>> \in Cells
  BY DeviceCells
<1> QED
  BY <1>1, <1>2, <1>3, <1>4, MemoryCells

\* What a process starts with fits.
LEMMA StaticsFit ==
  /\ DOMAIN Statics = Memory
  /\ \A c \in Memory : Statics[c] \in Int /\ Fits(c, Statics[c])
<1>1. /\ 0 \in Int /\ 5 \in Int /\ 8 \in Int
      /\ 0 \in 0 .. (Word - 1) /\ 2 * 0 \in (-Word) .. (Word - 1)
      /\ 2 * 5 \in (-Word) .. (Word - 1) /\ 2 * 8 \in (-Word) .. (Word - 1)
  BY MixerAssumption
<1>2. ASSUME NEW c \in Memory
      PROVE  Statics[c] \in Int /\ Fits(c, Statics[c])
  <2>0. Statics[c] = CASE c[1] = "setting" /\ c[2] \in Volumes -> 5
                       [] c = <<"ui", "globalVol">> -> 8
                       [] OTHER -> 0
    BY DEF Statics
  <2>1. CASE c[1] = "setting" /\ c[2] \in Volumes
    <3>1. c # <<"ui", "globalVol">> /\ Statics[c] = 5
      BY <2>0, <2>1
    <3>2. c = <<"setting", c[2]>>
      BY <2>1 DEF Memory
    <3> QED
      BY <1>1, <2>1, <3>1, <3>2, MemoryCells
  <2>2. CASE c = <<"ui", "globalVol">>
    <3>1. Statics[c] = 8
      BY <2>0, <2>2
    <3> QED
      BY <1>1, <2>2, <3>1, MemoryCells
  <2>3. CASE ~(c[1] = "setting" /\ c[2] \in Volumes) /\ c # <<"ui", "globalVol">>
    <3>1. Statics[c] = 0
      BY <2>0, <2>3
    <3>2. Fits(c, 0)
      BY <1>1 DEF Fits
    <3> QED
      BY <1>1, <3>1, <3>2
  <2> QED
    BY <2>1, <2>2, <2>3
<1> QED
  BY <1>2 DEF Statics

\* A command that is entered, or a process that starts, has its writes to do.
LEMMA BeginWill ==
  ASSUME NEW s, todo' = s, NEW c, NEW v, Holds(c)' = Holds(c), After(s, c, Holds(c), v)
  PROVE  Will(c, v)'
BY DEF Will, After, Last, Avoids

\* A step that writes nothing leaves every cell with what it holds.
LEMMA HoldsStay ==
  ASSUME UNCHANGED <<memory, device>>, NEW c
  PROVE  Holds(c)' = Holds(c)
BY DEF Holds

\* What a cell will hold at the prompt, when a command leaves it alone.
LEMMA UntouchedWill ==
  ASSUME todo = <<>>, NEW s, todo' = s, UNCHANGED <<memory, device>>,
         NEW c, NEW v, Will(c, v), \A old : After(s, c, old, old)
  PROVE  Will(c, v)'
<1>1. Holds(c) = v
  BY NothingLeft
<1>2. After(s, c, Holds(c), v)
  BY <1>1
<1> QED
  BY <1>2, HoldsStay, BeginWill

\* What a command writes.
LEMMA WrittenWill ==
  ASSUME NEW s, todo' = s, NEW c, NEW v, \A old : After(s, c, old, v)
  PROVE  Will(c, v)'
BY DEF Will, After, Last, Avoids

-----------------------------------------------------------------------------
\* The invariant holds before the first start.
LEMMA Start == Init => IInv
<1> SUFFICES ASSUME Init PROVE IInv
  OBVIOUS
<1> USE DEF Init
<1>1. Typing
  <2>1. MemoryTyped
    BY StaticsFit DEF MemoryTyped
  <2>2. todo \in Seq(Writes) /\ (todo # <<>>) = (mode \in {"init", "busy", "leaving"})
    OBVIOUS
  <2>3. \A c \in Device : device[c] \in {0, 1}
    OBVIOUS
  <2> QED
    BY <2>1, <2>2, <2>3, MixerAssumption DEF Typing
<1> QED
  BY <1>1 DEF IInv, Serving, VolumesWill, LedsWill, FiltersWill, ExitWill

\* A process starts.
LEMMA LaunchKeeps ==
  ASSUME IInv, Launch
  PROVE  IInv'
<1> USE DEF Launch
<1>i. ui_init \in Seq(Writes) /\ ui_init # <<>>
  <2>1. ASSUME ui_init = <<>>
        PROVE  FALSE
    <3>1. After(ui_init, <<"ui", "globalVol">>, 0, 4)
      BY InitIs
    <3>2. After(<<>>, <<"ui", "globalVol">>, 0, 4)
      BY <2>1, <3>1
    <3> QED
      BY <3>2 DEF After, Last
  <2> QED
    BY <2>1, InitIs
<1>1. Typing'
  <2>1. MemoryTyped'
    BY StaticsFit DEF MemoryTyped, IInv, Typing
  <2>2. launches' \in 0 .. MaxLaunches
    BY MixerAssumption DEF IInv, Typing
  <2> QED
    BY <1>i, <2>1, <2>2 DEF IInv, Typing
<1>2. \A x \in Volumes : Will(<<"volume", x>>, 30)' /\ Will(<<"params", x>>, 30)'
  BY InitIs, WrittenWill
<1>3. Will(<<"params", "v_global">>, 4)' /\ Will(<<"ui", "globalVol">>, 4)'
  BY InitIs, WrittenWill
<1>4. \A b \in Chains : Will(<<"coefficients", b>>, 1)' /\ Will(<<"reg15", b>>, 0)'
  BY InitIs, WrittenWill
<1>5. \A f \in Filters : Will(<<"params", f>>, 0)' /\ Will(<<"setting", f>>, 0)'
  <2> TAKE f \in Filters
  <2>1. Statics[<<"params", f>>] = 0 /\ Statics[<<"setting", f>>] = 0
    <3>1. <<"params", f>> \in Memory /\ <<"setting", f>> \in Memory /\ f \notin Volumes
      BY MemoryCells DEF Filters, Volumes
    <3> QED
      BY <3>1 DEF Statics
  <2>2. Holds(<<"params", f>>)' = 0 /\ Holds(<<"setting", f>>)' = 0
    BY <2>1, MemoryCells DEF Holds
  <2>3. /\ After(ui_init, <<"params", f>>, 0, 0)
        /\ After(ui_init, <<"setting", f>>, 0, 0)
    BY InitIs
  <2> QED
    BY <2>2, <2>3 DEF Will, After, Last, Avoids
<1>6. VolumesWill'
  <2> SUFFICES ASSUME NEW x \in Volumes
               PROVE  \E g, p, v \in Int :
                        /\ Will(<<"params", "v_global">>, g)'
                        /\ Will(<<"params", x>>, p)'
                        /\ Will(<<"volume", x>>, v)'
                        /\ v = (g * p) % Word \/ (g = 4 /\ p = 30 /\ v = 30)
    BY DEF VolumesWill
  <2> WITNESS 4 \in Int, 30 \in Int, 30 \in Int
  <2> QED
    BY <1>2, <1>3
<1>7. LedsWill'
  <2> SUFFICES \E vol \in Int :
                 /\ Will(<<"ui", "globalVol">>, vol)' /\ Will(<<"params", "v_global">>, vol)'
                 /\ vol = 4 \/ \A i \in 1 .. 8 : Will(<<"led", Leds[i]>>, Bar(vol, i))'
    BY DEF LedsWill
  <2> WITNESS 4 \in Int
  <2> QED
    BY <1>3
<1>8. FiltersWill'
  <2>1. ASSUME NEW f \in Filters
        PROVE  \E on \in {0, 1} :
                 /\ Will(<<"params", f>>, on)' /\ Will(<<"setting", f>>, on)'
                 /\ on = 1 => Will(<<"filter", f>>, 1)'
    <3> WITNESS 0 \in {0, 1}
    <3> QED
      BY <1>5
  <2> QED
    BY <1>4, <2>1 DEF FiltersWill
<1> QED
  BY <1>1, <1>6, <1>7, <1>8 DEF IInv, ExitWill

\* What every command shares.
LEMMA EnterTypes ==
  ASSUME IInv, NEW s \in Seq(Writes), s # <<>>, NEW then \in {"busy", "leaving"}, Enter(s, then)
  PROVE  /\ Typing' /\ todo = <<>> /\ todo' = s /\ UNCHANGED <<memory, device>>
         /\ mode = "prompt" /\ mode' = then /\ Serving /\ MemoryTyped
<1>1. todo = <<>> /\ Serving /\ MemoryTyped
  BY DEF IInv, Typing, Enter, Serving
<1>2. MemoryTyped' /\ (\A c \in Device : device[c] \in {0, 1})'
  BY DEF IInv, Typing, MemoryTyped, Enter
<1>3. entered' \in 0 .. MaxCommands /\ launches' \in 0 .. MaxLaunches
  BY MixerAssumption DEF IInv, Typing, Enter
<1> QED
  BY <1>1, <1>2, <1>3 DEF Typing, Enter

\* A command that writes something to a cell has something to write.
LEMMA NotNothing ==
  ASSUME NEW s, NEW c, NEW v, NEW u, u # v, After(s, c, u, v)
  PROVE  s # <<>>
BY DEF After, Last

\* The number typed is unsigned.
LEMMA TypedFits ==
  ASSUME MemoryTyped
  PROVE  Typed \subseteq 0 .. (Word - 1)
<1>1. <<"ui", "gain">> \in Memory
  BY MemoryCells
<1>2. memory[<<"ui", "gain">>] \in 0 .. (Word - 1)
  <2>1. Fits(<<"ui", "gain">>, memory[<<"ui", "gain">>])
    BY <1>1 DEF MemoryTyped
  <2> QED
    BY <2>1 DEF Fits, Filters
<1> QED
  BY <1>2, MixerAssumption DEF Typed

\* The global volume is set: the products and the bar are of the same number.
LEMMA GlobalVolumeKeeps ==
  ASSUME IInv, GlobalVolume
  PROVE  IInv'
<1>1. PICK g \in Typed : Enter(vgg(g), "busy")
  BY DEF GlobalVolume
<1>2. mode = "prompt" /\ MemoryTyped
  BY <1>1 DEF Enter, IInv, Typing
<1>3. g \in 0 .. (Word - 1) /\ Signed(g) \in Int
  BY <1>2, TypedFits, SignedFits
<1>h. PICK h \in Int : h = Signed(g)
  BY <1>3
<1> DEFINE s == vgg(g)
<1>4. /\ s \in Seq(Writes)
      /\ \A x \in Volumes : \A old : After(s, <<"volume", x>>, old, (params(x) * g) % Word)
      /\ \A i \in 1 .. 8 : \A old : After(s, <<"led", Leds[i]>>, old, Bar(h, i))
      /\ \A old : /\ After(s, <<"params", "v_global">>, old, h)
                  /\ After(s, <<"ui", "globalVol">>, old, h)
      /\ \A c, old : /\ c \notin {<<"ui", "gain">>, <<"ui", "globalVol">>, <<"params", "v_global">>}
                     /\ ~IsVolume(c) /\ ~IsLed(c)
                     => After(s, c, old, old)
  BY <1>2, <1>3, <1>h, GlobalVolumeIs
<1> HIDE DEF s
<1>5. s # <<>>
  <2>1. After(s, <<"ui", "globalVol">>, h + 1, h)
    BY <1>4
  <2> QED
    BY <1>3, <2>1, NotNothing
<1>6. /\ Typing' /\ todo = <<>> /\ todo' = s /\ UNCHANGED <<memory, device>>
      /\ mode' = "busy" /\ Serving
  BY <1>1, <1>4, <1>5, EnterTypes DEF s
<1>7. \A c, v : (\A old : After(s, c, old, v)) => Will(c, v)'
  BY <1>6, WrittenWill
<1>8. \A c, v : Will(c, v) /\ (\A old : After(s, c, old, old)) => Will(c, v)'
  BY <1>6, UntouchedWill
<1>9. VolumesWill'
  <2> SUFFICES ASSUME NEW x \in Volumes
               PROVE  \E k, p, v \in Int :
                        /\ Will(<<"params", "v_global">>, k)'
                        /\ Will(<<"params", x>>, p)'
                        /\ Will(<<"volume", x>>, v)'
                        /\ v = (k * p) % Word \/ (k = 4 /\ p = 30 /\ v = 30)
    BY DEF VolumesWill
  <2>1. PICK p \in Int : Will(<<"params", x>>, p)
    BY <1>6 DEF IInv, VolumesWill
  <2>2. params(x) = p
    <3>1. <<"params", x>> \in Memory
      BY MemoryCells
    <3> QED
      BY <1>6, <2>1, <3>1, NothingLeft DEF Holds, params
  <2>3. (p * g) % Word = (h * p) % Word
    <3>1. (p * g) % Word = (p * h) % Word
      BY <1>3, <1>h, SignedProduct
    <3>2. p * h = h * p
      BY <1>3
    <3> QED
      BY <3>1, <3>2
  <2>4. Will(<<"volume", x>>, (h * p) % Word)'
    BY <1>4, <1>7, <2>2, <2>3
  <2>5. Will(<<"params", x>>, p)'
    <3>1. /\ <<"params", x>> \notin {<<"ui", "gain">>, <<"ui", "globalVol">>, <<"params", "v_global">>}
          /\ ~IsVolume(<<"params", x>>) /\ ~IsLed(<<"params", x>>)
      BY DEF Volumes, IsVolume, IsLed
    <3> QED
      BY <1>4, <1>8, <2>1, <3>1
  <2>6. Will(<<"params", "v_global">>, h)'
    BY <1>4, <1>7
  <2>7. PICK v \in Int : v = (h * p) % Word
    <3>1. h * p \in Int /\ Word \in Nat \ {0}
      BY MixerAssumption
    <3> QED
      BY <3>1, ModIs
  <2> WITNESS h \in Int, p \in Int, v \in Int
  <2> QED
    BY <2>4, <2>5, <2>6, <2>7
<1>10. LedsWill'
  <2> SUFFICES \E vol \in Int :
                 /\ Will(<<"ui", "globalVol">>, vol)' /\ Will(<<"params", "v_global">>, vol)'
                 /\ vol = 4 \/ \A i \in 1 .. 8 : Will(<<"led", Leds[i]>>, Bar(vol, i))'
    BY DEF LedsWill
  <2> WITNESS h \in Int
  <2>1. \A i \in 1 .. 8 : Will(<<"led", Leds[i]>>, Bar(h, i))'
    BY <1>4, <1>7
  <2> QED
    BY <1>4, <1>7, <2>1
<1>11. FiltersWill'
  <2>1. \A b \in Chains : /\ ~IsVolume(<<"coefficients", b>>) /\ ~IsLed(<<"coefficients", b>>)
                          /\ ~IsVolume(<<"reg15", b>>) /\ ~IsLed(<<"reg15", b>>)
    BY DEF IsVolume, IsLed
  <2>2. \A b \in Chains : Will(<<"coefficients", b>>, 1)' /\ Will(<<"reg15", b>>, 0)'
    <3> TAKE b \in Chains
    <3>1. Will(<<"coefficients", b>>, 1) /\ Will(<<"reg15", b>>, 0)
      BY <1>6 DEF IInv, FiltersWill
    <3>2. /\ \A old : After(s, <<"coefficients", b>>, old, old)
          /\ \A old : After(s, <<"reg15", b>>, old, old)
      BY <1>4, <2>1
    <3> QED
      BY <1>8, <3>1, <3>2
  <2>3. ASSUME NEW f \in Filters
        PROVE  \E on \in {0, 1} :
                 /\ Will(<<"params", f>>, on)' /\ Will(<<"setting", f>>, on)'
                 /\ on = 1 => Will(<<"filter", f>>, 1)'
    <3>1. PICK on \in {0, 1} : /\ Will(<<"params", f>>, on) /\ Will(<<"setting", f>>, on)
                               /\ on = 1 => Will(<<"filter", f>>, 1)
      BY <1>6 DEF IInv, FiltersWill
    <3>2. /\ \A old : After(s, <<"params", f>>, old, old)
          /\ \A old : After(s, <<"setting", f>>, old, old)
          /\ \A old : After(s, <<"filter", f>>, old, old)
      <4>1. /\ <<"params", f>> # <<"params", "v_global">>
            /\ ~IsVolume(<<"params", f>>) /\ ~IsLed(<<"params", f>>)
            /\ ~IsVolume(<<"setting", f>>) /\ ~IsLed(<<"setting", f>>)
            /\ ~IsVolume(<<"filter", f>>) /\ ~IsLed(<<"filter", f>>)
        BY DEF IsVolume, IsLed, Filters
      <4> QED
        BY <1>4, <4>1
    <3> WITNESS on \in {0, 1}
    <3> QED
      BY <1>8, <3>1, <3>2
  <2> QED
    BY <2>2, <2>3 DEF FiltersWill
<1> QED
  BY <1>6, <1>9, <1>10, <1>11 DEF IInv, ExitWill

\* A channel's volume is set: its product is of the number typed.
LEMMA ChannelVolumeKeeps ==
  ASSUME IInv, ChannelVolume
  PROVE  IInv'
<1>1. PICK ch \in Volumes, g \in Typed : Enter(Volume(ch, g), "busy")
  BY DEF ChannelVolume
<1>2. mode = "prompt" /\ MemoryTyped
  BY <1>1 DEF Enter, IInv, Typing
<1>3. g \in 0 .. (Word - 1) /\ Signed(g) \in Int
  BY <1>2, TypedFits, SignedFits
<1>h. PICK h \in Int : h = Signed(g)
  BY <1>3
<1> DEFINE s == Volume(ch, g)
           own == {<<"ui", "gain">>, <<"volume", ch>>, <<"params", ch>>, <<"setting", ch>>}
<1>4. /\ s \in Seq(Writes)
      /\ \A old : /\ After(s, <<"volume", ch>>, old, (params("v_global") * g) % Word)
                  /\ After(s, <<"params", ch>>, old, h)
      /\ \A c, old : c \notin own => After(s, c, old, old)
  BY <1>2, <1>3, <1>h, VolumeIs
<1> HIDE DEF s
<1>5. s # <<>>
  <2>1. After(s, <<"params", ch>>, h + 1, h)
    BY <1>4
  <2> QED
    BY <2>1, NotNothing
<1>6. /\ Typing' /\ todo = <<>> /\ todo' = s /\ UNCHANGED <<memory, device>>
      /\ mode' = "busy" /\ Serving
  BY <1>1, <1>4, <1>5, EnterTypes DEF s
<1>7. \A c, v : (\A old : After(s, c, old, v)) => Will(c, v)'
  BY <1>6, WrittenWill
<1>8. \A c, v : Will(c, v) /\ c \notin own => Will(c, v)'
  <2> HIDE DEF own
  <2> QED
    BY <1>4, <1>6, UntouchedWill
<1>9. VolumesWill'
  <2> SUFFICES ASSUME NEW x \in Volumes
               PROVE  \E k, p, v \in Int :
                        /\ Will(<<"params", "v_global">>, k)'
                        /\ Will(<<"params", x>>, p)'
                        /\ Will(<<"volume", x>>, v)'
                        /\ v = (k * p) % Word \/ (k = 4 /\ p = 30 /\ v = 30)
    BY DEF VolumesWill
  <2>1. PICK k, p, v \in Int :
          /\ Will(<<"params", "v_global">>, k) /\ Will(<<"params", x>>, p)
          /\ Will(<<"volume", x>>, v)
          /\ v = (k * p) % Word \/ (k = 4 /\ p = 30 /\ v = 30)
    BY <1>6 DEF IInv, VolumesWill
  <2>2. Will(<<"params", "v_global">>, k)'
    <3>1. <<"params", "v_global">> \notin own
      BY DEF Volumes
    <3> QED
      BY <1>8, <2>1, <3>1
  <2>3. CASE x # ch
    <3>1. <<"params", x>> \notin own /\ <<"volume", x>> \notin own
      BY <2>3
    <3> WITNESS k \in Int, p \in Int, v \in Int
    <3> QED
      BY <1>8, <2>1, <2>2, <3>1
  <2>4. CASE x = ch
    <3>1. params("v_global") = k
      <4>1. <<"params", "v_global">> \in Memory
        BY MemoryCells
      <4> QED
        BY <1>6, <2>1, <4>1, NothingLeft DEF Holds, params
    <3>2. (k * g) % Word = (k * h) % Word
      BY <1>3, <1>h, SignedProduct
    <3>3. Will(<<"volume", x>>, (k * h) % Word)' /\ Will(<<"params", x>>, h)'
      BY <1>4, <1>7, <2>4, <3>1, <3>2
    <3>4. PICK w \in Int : w = (k * h) % Word
      <4>1. k * h \in Int /\ Word \in Nat \ {0}
        BY MixerAssumption
      <4> QED
        BY <4>1, ModIs
    <3> WITNESS k \in Int, h \in Int, w \in Int
    <3> QED
      BY <2>2, <3>3, <3>4
  <2> QED
    BY <2>3, <2>4
<1>10. LedsWill'
  <2>1. PICK vol \in Int :
          /\ Will(<<"ui", "globalVol">>, vol) /\ Will(<<"params", "v_global">>, vol)
          /\ vol = 4 \/ \A i \in 1 .. 8 : Will(<<"led", Leds[i]>>, Bar(vol, i))
    BY <1>6 DEF IInv, LedsWill
  <2>2. /\ <<"ui", "globalVol">> \notin own /\ <<"params", "v_global">> \notin own
        /\ \A i \in 1 .. 8 : <<"led", Leds[i]>> \notin own
    BY DEF Volumes
  <2>3. Will(<<"ui", "globalVol">>, vol)' /\ Will(<<"params", "v_global">>, vol)'
    BY <1>8, <2>1, <2>2
  <2>4. vol = 4 \/ \A i \in 1 .. 8 : Will(<<"led", Leds[i]>>, Bar(vol, i))'
    BY <1>8, <2>1, <2>2
  <2> SUFFICES \E k \in Int :
                 /\ Will(<<"ui", "globalVol">>, k)' /\ Will(<<"params", "v_global">>, k)'
                 /\ k = 4 \/ \A i \in 1 .. 8 : Will(<<"led", Leds[i]>>, Bar(k, i))'
    BY DEF LedsWill
  <2> WITNESS vol \in Int
  <2> QED
    BY <2>3, <2>4
<1>11. FiltersWill'
  <2>1. \A b \in Chains : Will(<<"coefficients", b>>, 1)' /\ Will(<<"reg15", b>>, 0)'
    <3> TAKE b \in Chains
    <3>1. Will(<<"coefficients", b>>, 1) /\ Will(<<"reg15", b>>, 0)
      BY <1>6 DEF IInv, FiltersWill
    <3>2. <<"coefficients", b>> \notin own /\ <<"reg15", b>> \notin own
      OBVIOUS
    <3> QED
      BY <1>8, <3>1, <3>2
  <2>2. ASSUME NEW f \in Filters
        PROVE  \E on \in {0, 1} :
                 /\ Will(<<"params", f>>, on)' /\ Will(<<"setting", f>>, on)'
                 /\ on = 1 => Will(<<"filter", f>>, 1)'
    <3>1. PICK on \in {0, 1} : /\ Will(<<"params", f>>, on) /\ Will(<<"setting", f>>, on)
                               /\ on = 1 => Will(<<"filter", f>>, 1)
      BY <1>6 DEF IInv, FiltersWill
    <3>2. f # ch
      BY DEF Filters, Volumes
    <3>3. <<"params", f>> \notin own /\ <<"setting", f>> \notin own /\ <<"filter", f>> \notin own
      BY <3>2
    <3> WITNESS on \in {0, 1}
    <3> QED
      BY <1>8, <3>1, <3>3
  <2> QED
    BY <2>1, <2>2 DEF FiltersWill
<1> QED
  BY <1>6, <1>9, <1>10, <1>11 DEF IInv, ExitWill

\* A filter is switched: in the register and in both copies.
LEMMA SwitchFilterKeeps ==
  ASSUME IInv, SwitchFilter
  PROVE  IInv'
<1>1. PICK e \in Filters, to \in {0, 1} : Enter(Filter(e, to), "busy")
  BY DEF SwitchFilter
<1> DEFINE s == Filter(e, to)
           own == {<<"filter", e>>, <<"params", e>>, <<"setting", e>>}
<1>4. /\ s \in Seq(Writes)
      /\ \A old : /\ After(s, <<"filter", e>>, old, to)
                  /\ After(s, <<"params", e>>, old, to)
                  /\ After(s, <<"setting", e>>, old, to)
      /\ \A c, old : c \notin own => After(s, c, old, old)
  BY FilterIs
<1> HIDE DEF s
<1>5. s # <<>>
  <2>1. After(s, <<"params", e>>, to + 1, to)
    BY <1>4
  <2> QED
    BY <2>1, NotNothing
<1>6. /\ Typing' /\ todo = <<>> /\ todo' = s /\ UNCHANGED <<memory, device>>
      /\ mode' = "busy" /\ Serving
  BY <1>1, <1>4, <1>5, EnterTypes DEF s
<1>7. \A c, v : (\A old : After(s, c, old, v)) => Will(c, v)'
  BY <1>6, WrittenWill
<1>8. \A c, v : Will(c, v) /\ c \notin own => Will(c, v)'
  <2> HIDE DEF own
  <2> QED
    BY <1>4, <1>6, UntouchedWill
<1>9. VolumesWill'
  <2> SUFFICES ASSUME NEW x \in Volumes
               PROVE  \E k, p, v \in Int :
                        /\ Will(<<"params", "v_global">>, k)'
                        /\ Will(<<"params", x>>, p)'
                        /\ Will(<<"volume", x>>, v)'
                        /\ v = (k * p) % Word \/ (k = 4 /\ p = 30 /\ v = 30)
    BY DEF VolumesWill
  <2>1. PICK k, p, v \in Int :
          /\ Will(<<"params", "v_global">>, k) /\ Will(<<"params", x>>, p)
          /\ Will(<<"volume", x>>, v)
          /\ v = (k * p) % Word \/ (k = 4 /\ p = 30 /\ v = 30)
    BY <1>6 DEF IInv, VolumesWill
  <2>2. x # e /\ e # "v_global"
    BY DEF Filters, Volumes
  <2>3. /\ <<"params", x>> \notin own /\ <<"volume", x>> \notin own
        /\ <<"params", "v_global">> \notin own
    BY <2>2
  <2> WITNESS k \in Int, p \in Int, v \in Int
  <2> QED
    BY <1>8, <2>1, <2>3
<1>10. LedsWill'
  <2>1. PICK vol \in Int :
          /\ Will(<<"ui", "globalVol">>, vol) /\ Will(<<"params", "v_global">>, vol)
          /\ vol = 4 \/ \A i \in 1 .. 8 : Will(<<"led", Leds[i]>>, Bar(vol, i))
    BY <1>6 DEF IInv, LedsWill
  <2>2. /\ <<"ui", "globalVol">> \notin own /\ <<"params", "v_global">> \notin own
        /\ \A i \in 1 .. 8 : <<"led", Leds[i]>> \notin own
    BY DEF Filters
  <2>3. Will(<<"ui", "globalVol">>, vol)' /\ Will(<<"params", "v_global">>, vol)'
    BY <1>8, <2>1, <2>2
  <2>4. vol = 4 \/ \A i \in 1 .. 8 : Will(<<"led", Leds[i]>>, Bar(vol, i))'
    BY <1>8, <2>1, <2>2
  <2> SUFFICES \E k \in Int :
                 /\ Will(<<"ui", "globalVol">>, k)' /\ Will(<<"params", "v_global">>, k)'
                 /\ k = 4 \/ \A i \in 1 .. 8 : Will(<<"led", Leds[i]>>, Bar(k, i))'
    BY DEF LedsWill
  <2> WITNESS vol \in Int
  <2> QED
    BY <2>3, <2>4
<1>11. FiltersWill'
  <2>1. \A b \in Chains : Will(<<"coefficients", b>>, 1)' /\ Will(<<"reg15", b>>, 0)'
    <3> TAKE b \in Chains
    <3>1. Will(<<"coefficients", b>>, 1) /\ Will(<<"reg15", b>>, 0)
      BY <1>6 DEF IInv, FiltersWill
    <3>2. <<"coefficients", b>> \notin own /\ <<"reg15", b>> \notin own
      OBVIOUS
    <3> QED
      BY <1>8, <3>1, <3>2
  <2>2. ASSUME NEW f \in Filters
        PROVE  \E on \in {0, 1} :
                 /\ Will(<<"params", f>>, on)' /\ Will(<<"setting", f>>, on)'
                 /\ on = 1 => Will(<<"filter", f>>, 1)'
    <3>1. CASE f = e
      <4>1. /\ Will(<<"params", f>>, to)' /\ Will(<<"setting", f>>, to)'
            /\ Will(<<"filter", f>>, to)'
        BY <1>4, <1>7, <3>1
      <4> WITNESS to \in {0, 1}
      <4> QED
        BY <4>1
    <3>2. CASE f # e
      <4>1. PICK on \in {0, 1} : /\ Will(<<"params", f>>, on) /\ Will(<<"setting", f>>, on)
                                 /\ on = 1 => Will(<<"filter", f>>, 1)
        BY <1>6 DEF IInv, FiltersWill
      <4>2. <<"params", f>> \notin own /\ <<"setting", f>> \notin own /\ <<"filter", f>> \notin own
        BY <3>2
      <4> WITNESS on \in {0, 1}
      <4> QED
        BY <1>8, <4>1, <4>2
    <3> QED
      BY <3>1, <3>2
  <2> QED
    BY <2>1, <2>2 DEF FiltersWill
<1> QED
  BY <1>6, <1>9, <1>10, <1>11 DEF IInv, ExitWill

\* The process is left by exit.
LEMMA LeaveKeeps ==
  ASSUME IInv, Leave
  PROVE  IInv'
<1>1. Enter(Exit, "leaving")
  BY DEF Leave
<1>2. MemoryTyped
  BY DEF IInv, Typing
<1>3. /\ Exit \in Seq(Writes)
      /\ \A x \in Volumes : \A old : After(Exit, <<"volume", x>>, old, 0)
      /\ \A i \in 1 .. 8 : \A old : After(Exit, <<"led", Leds[i]>>, old, 0)
      /\ \A old : After(Exit, <<"ui", "globalVol">>, old, 0)
  BY <1>2, ExitIs
<1>4. Exit # <<>>
  <2>1. After(Exit, <<"ui", "globalVol">>, 1, 0)
    BY <1>3
  <2> QED
    BY <2>1, NotNothing
<1>5. Typing' /\ todo' = Exit /\ mode' = "leaving"
  BY <1>1, <1>3, <1>4, EnterTypes
<1>6. \A c, v : (\A old : After(Exit, c, old, v)) => Will(c, v)'
  BY <1>5, WrittenWill
<1>7. ExitWill'
  BY <1>3, <1>6 DEF ExitWill
<1> QED
  BY <1>5, <1>7 DEF IInv, Serving, VolumesWill, LedsWill, FiltersWill

\* A write is made: what the cells will hold stays, and it fits.
LEMMA StepKeeps ==
  ASSUME IInv, Step
  PROVE  IInv'
<1>1. /\ todo \in Seq(Writes) /\ todo # <<>> /\ todo' = Tail(todo)
      /\ DOMAIN memory = Memory /\ DOMAIN device = Device /\ MemoryTyped
  BY DEF IInv, Typing, MemoryTyped, Step
<1>2. \A c \in Cells : \A v : Will(c, v) => Will(c, v)'
  BY <1>1, WillStay
<1>3. mode \in {"init", "busy", "leaving"}
  BY <1>1 DEF IInv, Typing
<1>4. /\ mode' \in {"init", "busy", "leaving", "prompt", "exited"}
      /\ (todo' # <<>>) = (mode' \in {"init", "busy", "leaving"})
      /\ Serving' => Serving
      /\ mode' \in {"leaving", "exited"} => mode = "leaving"
  <2>1. CASE Tail(todo) # <<>>
    <3>1. mode' = mode
      BY <2>1 DEF Step
    <3> QED
      BY <1>1, <1>3, <2>1, <3>1 DEF Serving
  <2>2. CASE Tail(todo) = <<>> /\ mode = "leaving"
    <3>1. mode' = "exited"
      BY <2>2 DEF Step
    <3> QED
      BY <1>1, <2>2, <3>1 DEF Serving
  <2>3. CASE Tail(todo) = <<>> /\ mode # "leaving"
    <3>1. mode' = "prompt"
      BY <2>3 DEF Step
    <3> QED
      BY <1>1, <1>3, <2>3, <3>1 DEF Serving
  <2> QED
    BY <2>1, <2>2, <2>3
<1>5. Typing'
  <2>1. PICK w : w = Head(todo)
    OBVIOUS
  <2>2. w \in Writes
    BY <1>1, <2>1
  <2>3. /\ w.cell \in Cells /\ w.val \in Int
        /\ IF w.cell \in Memory THEN Fits(w.cell, w.val) ELSE w.val \in {0, 1}
    BY <2>2 DEF Writes
  <2>4. IF w.cell \in Memory
        THEN memory' = [memory EXCEPT ![w.cell] = w.val] /\ UNCHANGED device
        ELSE device' = [device EXCEPT ![w.cell] = w.val] /\ UNCHANGED memory
    BY <2>1 DEF Step
  <2>5. MemoryTyped' /\ (\A c \in Device : device[c] \in {0, 1})'
    <3>0. \A c \in Memory : memory[c] \in Int /\ Fits(c, memory[c])
      BY <1>1 DEF MemoryTyped
    <3>d. \A c \in Device : device[c] \in {0, 1}
      BY DEF IInv, Typing
    <3>1. CASE w.cell \in Memory
      <4>1. memory' = [memory EXCEPT ![w.cell] = w.val] /\ device' = device
        BY <2>4, <3>1
      <4>2. ASSUME NEW c \in Memory
            PROVE  memory'[c] \in Int /\ Fits(c, memory'[c])
        <5>1. CASE c = w.cell
          <6>1. memory'[c] = w.val
            BY <1>1, <4>1, <5>1
          <6> QED
            BY <2>3, <3>1, <5>1, <6>1
        <5>2. CASE c # w.cell
          <6>1. memory'[c] = memory[c]
            BY <1>1, <4>1, <5>2
          <6> QED
            BY <3>0, <6>1
        <5> QED
          BY <5>1, <5>2
      <4>3. \A c : Fits(c, memory[c])' <=> Fits(c, memory'[c])
        BY DEF Fits
      <4> QED
        BY <1>1, <3>d, <4>1, <4>2, <4>3 DEF MemoryTyped
    <3>2. CASE w.cell \notin Memory
      <4>1. device' = [device EXCEPT ![w.cell] = w.val] /\ memory' = memory
        BY <2>4, <3>2
      <4>2. \A c \in Device : device'[c] \in {0, 1}
        BY <1>1, <2>3, <3>2, <3>d, <4>1
      <4>3. MemoryTyped'
        <5>1. \A c : Fits(c, memory[c])' <=> Fits(c, memory'[c])
          BY DEF Fits
        <5> QED
          BY <1>1, <3>0, <4>1, <5>1 DEF MemoryTyped
      <4> QED
        BY <4>2, <4>3
    <3> QED
      BY <3>1, <3>2
  <2>6. todo' \in Seq(Writes)
    BY <1>1
  <2>7. entered' \in 0 .. MaxCommands /\ launches' \in 0 .. MaxLaunches
    BY DEF Step, IInv, Typing
  <2> QED
    BY <1>4, <2>5, <2>6, <2>7 DEF Typing
<1>6. VolumesWill'
  <2> SUFFICES ASSUME Serving, NEW x \in Volumes
               PROVE  \E k, p, v \in Int :
                        /\ Will(<<"params", "v_global">>, k)'
                        /\ Will(<<"params", x>>, p)'
                        /\ Will(<<"volume", x>>, v)'
                        /\ v = (k * p) % Word \/ (k = 4 /\ p = 30 /\ v = 30)
    BY <1>4 DEF VolumesWill
  <2>1. PICK k, p, v \in Int :
          /\ Will(<<"params", "v_global">>, k) /\ Will(<<"params", x>>, p)
          /\ Will(<<"volume", x>>, v)
          /\ v = (k * p) % Word \/ (k = 4 /\ p = 30 /\ v = 30)
    BY DEF IInv, VolumesWill
  <2> WITNESS k \in Int, p \in Int, v \in Int
  <2> QED
    BY <1>2, <2>1, AllCells
<1>7. LedsWill'
  <2> SUFFICES ASSUME Serving
               PROVE  \E k \in Int :
                        /\ Will(<<"ui", "globalVol">>, k)' /\ Will(<<"params", "v_global">>, k)'
                        /\ k = 4 \/ \A i \in 1 .. 8 : Will(<<"led", Leds[i]>>, Bar(k, i))'
    BY <1>4 DEF LedsWill
  <2>1. PICK vol \in Int :
          /\ Will(<<"ui", "globalVol">>, vol) /\ Will(<<"params", "v_global">>, vol)
          /\ vol = 4 \/ \A i \in 1 .. 8 : Will(<<"led", Leds[i]>>, Bar(vol, i))
    BY DEF IInv, LedsWill
  <2>2. Will(<<"ui", "globalVol">>, vol)' /\ Will(<<"params", "v_global">>, vol)'
    BY <1>2, <2>1, AllCells
  <2>3. vol = 4 \/ \A i \in 1 .. 8 : Will(<<"led", Leds[i]>>, Bar(vol, i))'
    BY <1>2, <2>1, AllCells
  <2> WITNESS vol \in Int
  <2> QED
    BY <2>2, <2>3
<1>8. FiltersWill'
  <2> SUFFICES ASSUME Serving
               PROVE  /\ \A b \in Chains : Will(<<"coefficients", b>>, 1)' /\ Will(<<"reg15", b>>, 0)'
                      /\ \A f \in Filters : \E on \in {0, 1} :
                           /\ Will(<<"params", f>>, on)' /\ Will(<<"setting", f>>, on)'
                           /\ on = 1 => Will(<<"filter", f>>, 1)'
    BY <1>4 DEF FiltersWill
  <2>1. \A b \in Chains : Will(<<"coefficients", b>>, 1)' /\ Will(<<"reg15", b>>, 0)'
    BY <1>2, AllCells DEF IInv, FiltersWill
  <2>2. ASSUME NEW f \in Filters
        PROVE  \E on \in {0, 1} :
                 /\ Will(<<"params", f>>, on)' /\ Will(<<"setting", f>>, on)'
                 /\ on = 1 => Will(<<"filter", f>>, 1)'
    <3>1. PICK on \in {0, 1} : /\ Will(<<"params", f>>, on) /\ Will(<<"setting", f>>, on)
                               /\ on = 1 => Will(<<"filter", f>>, 1)
      BY DEF IInv, FiltersWill
    <3> WITNESS on \in {0, 1}
    <3> QED
      BY <1>2, <3>1, AllCells
  <2> QED
    BY <2>1, <2>2
<1>9. ExitWill'
  <2> SUFFICES ASSUME mode = "leaving"
               PROVE  /\ \A x \in Volumes : Will(<<"volume", x>>, 0)'
                      /\ \A i \in 1 .. 8 : Will(<<"led", Leds[i]>>, 0)'
                      /\ Will(<<"ui", "globalVol">>, 0)'
    BY <1>4 DEF ExitWill
  <2> QED
    BY <1>2, AllCells DEF IInv, ExitWill
<1> QED
  BY <1>5, <1>6, <1>7, <1>8, <1>9 DEF IInv

\* The process is killed.
LEMMA KillKeeps ==
  ASSUME IInv, Kill
  PROVE  IInv'
<1>1. MemoryTyped'
  BY StaticsFit DEF MemoryTyped, Kill, IInv, Typing
<1>2. Typing'
  BY <1>1 DEF Typing, IInv, Kill
<1> QED
  BY <1>2 DEF IInv, Kill, Serving, VolumesWill, LedsWill, FiltersWill, ExitWill

\* Nothing happens.
LEMMA StutterKeeps ==
  ASSUME IInv, UNCHANGED vars
  PROVE  IInv'
<1>1. \A c, v : Will(c, v)' <=> Will(c, v)
  BY DEF Will, After, Last, Avoids, Holds, vars
<1>2. Typing'
  BY DEF Typing, IInv, MemoryTyped, Fits, vars
<1>3. mode' = mode
  BY DEF vars
<1> QED
  BY <1>1, <1>2, <1>3 DEF IInv, Serving, VolumesWill, LedsWill, FiltersWill, ExitWill

\* The inductive invariant holds in every reachable state, whatever commands
\* are entered and wherever the process is killed.
THEOREM Invariance == Spec => []IInv
<1>1. Init => IInv
  BY Start
<1>2. IInv /\ [Next]_vars => IInv'
  BY LaunchKeeps, GlobalVolumeKeeps, ChannelVolumeKeeps, SwitchFilterKeeps, LeaveKeeps,
     StepKeeps, KillKeeps, StutterKeeps DEF Next
<1> QED
  BY <1>1, <1>2, PTL DEF Spec

\* Every cell of params, setting and the device holds what its C type can.
THEOREM TypeCorrect == Spec => []TypeOK
<1>1. IInv => TypeOK
  <2> SUFFICES ASSUME IInv PROVE TypeOK
    OBVIOUS
  <2>1. \A c \in Memory : Fits(c, memory[c])
    BY DEF IInv, Typing, MemoryTyped
  <2>2. \A c \in Memory :
          CASE c[1] = "volume" \/ c = <<"ui", "gain">> -> memory[c] \in 0 .. (Word - 1)
            [] c[2] \in Filters -> memory[c] \in {0, 1}
            [] OTHER -> 2 * memory[c] \in (-Word) .. (Word - 1)
    BY <2>1 DEF Fits
  <2>3. /\ DOMAIN memory = Memory /\ DOMAIN device = Device
        /\ \A c \in Device : device[c] \in {0, 1}
        /\ mode \in {"off", "init", "prompt", "busy", "leaving", "exited"}
        /\ (todo # <<>>) = (mode \in {"init", "busy", "leaving"})
        /\ entered \in 0 .. MaxCommands /\ launches \in 0 .. MaxLaunches
    BY DEF IInv, Typing, MemoryTyped
  <2> QED
    BY <2>2, <2>3 DEF TypeOK
<1> QED
  BY <1>1, Invariance, PTL

\* At the prompt every channel was last asked for the product of the two
\* numbers the screen shows, or nobody has touched it since ui_init.
THEOREM VolumesAlwaysFollow == Spec => []VolumesFollow
<1>1. IInv => VolumesFollow
  <2> SUFFICES ASSUME IInv, mode = "prompt", NEW c \in Volumes
               PROVE  \/ memory[<<"volume", c>>] = (params("v_global") * params(c)) % Word
                      \/ /\ params("v_global") = 4 /\ params(c) = 30
                         /\ memory[<<"volume", c>>] = 30
    BY DEF VolumesFollow
  <2>1. todo = <<>> /\ Serving
    BY DEF IInv, Typing, Serving
  <2>2. PICK k, p, v \in Int :
          /\ Will(<<"params", "v_global">>, k) /\ Will(<<"params", c>>, p)
          /\ Will(<<"volume", c>>, v)
          /\ v = (k * p) % Word \/ (k = 4 /\ p = 30 /\ v = 30)
    BY <2>1 DEF IInv, VolumesWill
  <2>3. /\ Holds(<<"params", "v_global">>) = k /\ Holds(<<"params", c>>) = p
        /\ Holds(<<"volume", c>>) = v
    BY <2>1, <2>2, NothingLeft
  <2>4. params("v_global") = k /\ params(c) = p /\ memory[<<"volume", c>>] = v
    BY <2>3, MemoryCells DEF Holds, params
  <2> QED
    BY <2>2, <2>4
<1> QED
  BY <1>1, Invariance, PTL

\* At the prompt the LEDs are the bar of the global volume, which params and
\* the menu agree about, unless the volume is the start's 4.
THEOREM LedsAreRight == Spec => []LedsShowGlobal
<1>1. IInv => LedsShowGlobal
  <2> SUFFICES ASSUME IInv, mode = "prompt" PROVE LedsShowGlobal
    BY DEF LedsShowGlobal
  <2>1. todo = <<>> /\ Serving
    BY DEF IInv, Typing, Serving
  <2>2. PICK vol \in Int :
          /\ Will(<<"ui", "globalVol">>, vol) /\ Will(<<"params", "v_global">>, vol)
          /\ vol = 4 \/ \A i \in 1 .. 8 : Will(<<"led", Leds[i]>>, Bar(vol, i))
    BY <2>1 DEF IInv, LedsWill
  <2>3. memory[<<"ui", "globalVol">>] = vol /\ params("v_global") = vol
    BY <2>1, <2>2, NothingLeft, MemoryCells DEF Holds, params
  <2>4. \/ vol = 4
        \/ \A i \in 1 .. 8 : device[<<"led", Leds[i]>>] = Bar(vol, i)
    <3>1. \A i \in 1 .. 8 : <<"led", Leds[i]>> \notin Memory
      BY DeviceCells, EightLeds
    <3> QED
      BY <2>1, <2>2, <3>1, NothingLeft DEF Holds
  <2>5. PICK bars : bars = IF vol < 0 THEN 0 ELSE IF vol >= 16 THEN 8 ELSE vol \div 2
    OBVIOUS
  <2>6. ASSUME \A i \in 1 .. 8 : device[<<"led", Leds[i]>>] = Bar(vol, i)
        PROVE  Lit = (9 - bars) .. 8
    <3>1. Lit = {i \in 1 .. 8 : Bar(vol, i) = 1}
      BY <2>6, EightLeds DEF Lit
    <3>2. Lit = {i \in 1 .. 8 : vol >= 18 - 2 * i}
      BY <3>1 DEF Bar
    <3>3. CASE vol < 0
      BY <2>5, <3>2, <3>3
    <3>4. CASE vol >= 16
      BY <2>5, <3>2, <3>4
    <3>5. CASE vol \in 0 .. 15
      <4>1. bars = vol \div 2
        BY <2>5, <3>5
      <4>2. bars \in 0 .. 7 /\ (vol = 2 * bars \/ vol = 2 * bars + 1)
        BY <3>5, <4>1
      <4>3. \A i \in 1 .. 8 : vol >= 18 - 2 * i <=> i >= 9 - bars
        BY <4>2
      <4> QED
        BY <3>2, <4>2, <4>3
    <3> QED
      BY <3>3, <3>4, <3>5
  <2> QED
    BY <2>3, <2>4, <2>5, <2>6 DEF LedsShowGlobal
<1> QED
  BY <1>1, Invariance, PTL

\* At the prompt the coefficients are loaded, and every filter displayed as
\* on is on in its register.
THEOREM FiltersAreShown == Spec => []FiltersShown
<1>1. IInv => FiltersShown
  <2> SUFFICES ASSUME IInv, mode = "prompt" PROVE FiltersShown
    BY DEF FiltersShown
  <2>1. todo = <<>> /\ Serving
    BY DEF IInv, Typing, Serving
  <2>2. \A b \in Chains :
          device[<<"coefficients", b>>] = 1 /\ device[<<"reg15", b>>] = 0
    <3> TAKE b \in Chains
    <3>1. Will(<<"coefficients", b>>, 1) /\ Will(<<"reg15", b>>, 0)
      BY <2>1 DEF IInv, FiltersWill
    <3>2. <<"coefficients", b>> \notin Memory /\ <<"reg15", b>> \notin Memory
      BY DeviceCells
    <3> QED
      BY <2>1, <3>1, <3>2, NothingLeft DEF Holds
  <2>3. \A f \in Filters : /\ memory[<<"setting", f>>] = params(f)
                           /\ params(f) = 1 => device[<<"filter", f>>] = 1
    <3> TAKE f \in Filters
    <3>1. PICK on \in {0, 1} : /\ Will(<<"params", f>>, on) /\ Will(<<"setting", f>>, on)
                               /\ on = 1 => Will(<<"filter", f>>, 1)
      BY <2>1 DEF IInv, FiltersWill
    <3>2. /\ <<"params", f>> \in Memory /\ <<"setting", f>> \in Memory
          /\ <<"filter", f>> \notin Memory
      BY MemoryCells, DeviceCells
    <3>3. params(f) = on /\ memory[<<"setting", f>>] = on
      BY <2>1, <3>1, <3>2, NothingLeft DEF Holds, params
    <3>4. on = 1 => device[<<"filter", f>>] = 1
      BY <2>1, <3>1, <3>2, NothingLeft DEF Holds
    <3> QED
      BY <3>3, <3>4
  <2> QED
    BY <2>2, <2>3 DEF FiltersShown
<1> QED
  BY <1>1, Invariance, PTL

\* A process that ended by exit has asked for silence and darkened the LEDs.
THEOREM ExitIsSilent == Spec => []ExitSilent
<1>1. IInv => ExitSilent
  <2> SUFFICES ASSUME IInv, mode = "exited" PROVE ExitSilent
    BY DEF ExitSilent
  <2>1. todo = <<>>
    BY DEF IInv, Typing
  <2>2. /\ \A x \in Volumes : Will(<<"volume", x>>, 0)
        /\ \A i \in 1 .. 8 : Will(<<"led", Leds[i]>>, 0)
        /\ Will(<<"ui", "globalVol">>, 0)
    BY DEF IInv, ExitWill
  <2>3. /\ \A x \in Volumes : memory[<<"volume", x>>] = 0
        /\ memory[<<"ui", "globalVol">>] = 0
    BY <2>1, <2>2, NothingLeft, MemoryCells DEF Holds
  <2>4. Lit = {}
    <3>1. \A i \in 1 .. 8 : <<"led", Leds[i]>> \notin Memory
      BY DeviceCells, EightLeds
    <3>2. \A i \in 1 .. 8 : device[<<"led", Leds[i]>>] = 0
      BY <2>1, <2>2, <3>1, NothingLeft DEF Holds
    <3> QED
      BY <3>2, EightLeds DEF Lit
  <2> QED
    BY <2>3, <2>4 DEF ExitSilent
<1> QED
  BY <1>1, Invariance, PTL
====
