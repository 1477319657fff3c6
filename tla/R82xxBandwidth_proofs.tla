----------------------- MODULE R82xxBandwidth_proofs -----------------------
(***************************************************************************)
(* Proofs about set_bw of the R82xx driver for every bandwidth that a      *)
(* caller can ask for, where the run tries the boundaries and a grid.      *)
(***************************************************************************)
EXTENDS R82xxBandwidth, FiniteSetTheorems, TLAPS

T == IF_LOW_PASS_BW_TABLE

LEMMA Table ==
    /\ T[1] = 1700000 /\ T[2] = 1600000 /\ T[3] = 1550000 /\ T[4] = 1450000 /\ T[5] = 1200000
    /\ T[6] = 900000 /\ T[7] = 700000 /\ T[8] = 550000 /\ T[9] = 450000 /\ T[10] = 350000
BY SMT DEF T, IF_LOW_PASS_BW_TABLE

LEMMA TableInt == \A i \in 1..10 : T[i] \in Int
BY Table, SMT

LEMMA TableFalls == \A i, j \in 1..10 : i < j => T[i] > T[j]
BY Table, SMT

LEMMA MaxWithOne ==
    ASSUME NEW k \in 0..10
    PROVE  Max({1, k}) = IF k = 0 THEN 1 ELSE k
<1> DEFINE m == IF k = 0 THEN 1 ELSE k
<1>1. m \in {1, k} /\ \A y \in {1, k} : m >= y
      OBVIOUS
<1>2. ASSUME NEW x \in {1, k}, \A y \in {1, k} : x >= y
      PROVE  x = m
      BY <1>2
<1> HIDE DEF m
<1>3. Max({1, k}) = m
      BY <1>1, <1>2 DEF Max
<1> QED BY <1>3 DEF m

(* The entries wide enough for r are a prefix of the table.                *)
LEMMA WideEnough ==
    ASSUME NEW r \in Nat
    PROVE  \E k \in 0..10 : {i \in 1..10 : T[i] >= r} = 1..k
<1> DEFINE P(k) == {i \in 1..10 : T[i] >= r} = 1..k
<1>1. CASE r > T[1]
  <2>1. P(0)
        BY <1>1, Table, SMT
  <2> QED BY <2>1
<1>2. CASE r <= T[10]
  <2>1. P(10)
        BY <1>2, Table, SMT
  <2> QED BY <2>1
<1>3. ASSUME NEW k \in 1..9, r <= T[k], r > T[k + 1]
      PROVE  P(k)
  <2>1. \A i \in 1..10 : T[i] >= r <=> i <= k
    <3>1. ASSUME NEW i \in 1..10, i < k
          PROVE  T[i] > T[k]
          BY <3>1, TableFalls
    <3>2. ASSUME NEW i \in 1..10, i > k + 1
          PROVE  T[i] < T[k + 1]
          BY <3>2, TableFalls
    <3>3. ASSUME NEW i \in 1..10
          PROVE  T[i] >= r <=> i <= k
      <4>1. T[i] \in Int /\ T[k] \in Int /\ T[k + 1] \in Int
            BY TableInt, SMT
      <4>2. i < k \/ i = k \/ i = k + 1 \/ i > k + 1
            BY SMT
      <4> QED BY <1>3, <3>1, <3>2, <4>1, <4>2, SMT
    <3> QED BY <3>3
  <2> QED BY <2>1
<1>4. r > T[1] \/ r <= T[10] \/ \E k \in 1..9 : r <= T[k] /\ r > T[k + 1]
      BY Table, SMT
<1> QED BY <1>1, <1>2, <1>3, <1>4

(* find_if_lpf_idx finds the narrowest filter that is wide enough.         *)
LEMMA LowPass ==
    ASSUME NEW r \in Nat
    PROVE  /\ FindIfLpfIdx(r) \in 1..10
           /\ r <= Widest => T[FindIfLpfIdx(r)] >= r
           /\ r <= Widest => \A i \in 1..10 : T[i] >= r => T[FindIfLpfIdx(r)] <= T[i]
<1>1. PICK k \in 0..10 : {i \in 1..10 : T[i] >= r} = 1..k
      BY WideEnough
<1>2. Cardinality(1..k) = k
  <2>1. Cardinality(1..k) = IF 1 > k THEN 0 ELSE k - 1 + 1
        BY FS_Interval
  <2> QED BY <2>1, SMT
<1>3. FindIfLpfIdx(r) = IF k = 0 THEN 1 ELSE k
      BY <1>1, <1>2, MaxWithOne DEF FindIfLpfIdx, T
<1>4. \A i \in 1..10 : T[i] >= r <=> i <= k
      BY <1>1
<1>5. Widest = T[1]
      BY DEF Widest, T
<1>6. ASSUME r <= Widest
      PROVE  k >= 1
  <2>1. T[1] >= r
        BY <1>5, <1>6, TableInt, SMT
  <2> QED BY <1>4, <2>1, SMT
<1>7. ASSUME r <= Widest, NEW i \in 1..10, T[i] >= r
      PROVE  T[k] <= T[i]
  <2>1. k \in 1..10 /\ i <= k
        BY <1>4, <1>6, <1>7
  <2>2. T[i] \in Int /\ T[k] \in Int
        BY <2>1, TableInt, SMT
  <2> QED BY <2>1, <2>2, TableFalls, SMT
<1> QED BY <1>3, <1>4, <1>6, <1>7

---------------------------------------------------------------------------
(* The narrow path: what the request needs beyond the high-pass corners is *)
(* within the table.                                                       *)

NarrowTop == 2430000

LEMMA Constants ==
    /\ Widest = 1700000 /\ FILT_HP_BW1 = 350000 /\ FILT_HP_BW2 = 380000
    /\ Widest + FILT_HP_BW1 + FILT_HP_BW2 = NarrowTop
BY SMT DEF Widest, IF_LOW_PASS_BW_TABLE, FILT_HP_BW1, FILT_HP_BW2, NarrowTop

(* The corners that a request opens, as a function of its width.           *)
LEMMA CornerPoints ==
    ASSUME NEW bw \in Nat
    PROVE  /\ Hp2(bw) <=> bw > 2050000
           /\ Hp1(bw) <=> (bw > 1700000 /\ bw <= 2050000) \/ bw > 2080000
           /\ HighPass(bw) = IF bw <= 1700000 THEN 0 ELSE IF bw <= 2050000 THEN 350000
                             ELSE IF bw <= 2080000 THEN 380000 ELSE 730000
           /\ Residual(bw) = bw - HighPass(bw)
<1>1. Hp2(bw) <=> bw > 2050000
      BY Constants, SMT DEF Hp2
<1>2. Residual2(bw) = IF bw > 2050000 THEN bw - 380000 ELSE bw
      BY <1>1, Constants, SMT DEF Residual2
<1>3. Hp1(bw) <=> (bw > 1700000 /\ bw <= 2050000) \/ bw > 2080000
      BY <1>2, Constants, SMT DEF Hp1
<1>4. HighPass(bw) = IF bw <= 1700000 THEN 0 ELSE IF bw <= 2050000 THEN 350000
                     ELSE IF bw <= 2080000 THEN 380000 ELSE 730000
      BY <1>1, <1>3, SMT DEF HighPass, FILT_HP_BW1, FILT_HP_BW2
<1>5. Residual(bw) = bw - HighPass(bw)
      BY <1>2, <1>3, <1>4, SMT DEF Residual, FILT_HP_BW1
<1> QED BY <1>1, <1>3, <1>4, <1>5

LEMMA Corners ==
    ASSUME NEW bw \in Nat, bw <= NarrowTop
    PROVE  /\ Residual(bw) \in Nat /\ Residual(bw) <= Widest
           /\ HighPass(bw) \in Nat /\ bw = Residual(bw) + HighPass(bw)
<1>1. bw <= 2430000 /\ Widest = 1700000
      BY Constants, SMT DEF NarrowTop
<1>2. /\ HighPass(bw) = IF bw <= 1700000 THEN 0 ELSE IF bw <= 2050000 THEN 350000
                        ELSE IF bw <= 2080000 THEN 380000 ELSE 730000
      /\ Residual(bw) = bw - HighPass(bw)
      BY <1>1, CornerPoints
<1> QED BY <1>1, <1>2, SMT

(* More corners open only for a request that fewer could not serve.        *)
LEMMA CornersGrow ==
    ASSUME NEW bw \in Nat, NEW wider \in Nat, bw <= wider
    PROVE  HighPass(bw) = HighPass(wider) \/ HighPass(bw) + Widest < wider
<1>1. /\ HighPass(bw) = IF bw <= 1700000 THEN 0 ELSE IF bw <= 2050000 THEN 350000
                        ELSE IF bw <= 2080000 THEN 380000 ELSE 730000
      /\ HighPass(wider) = IF wider <= 1700000 THEN 0 ELSE IF wider <= 2050000 THEN 350000
                           ELSE IF wider <= 2080000 THEN 380000 ELSE 730000
      BY CornerPoints
<1> QED BY <1>1, Constants, SMT

Lpf(bw) == FindIfLpfIdx(Residual(bw))

LEMMA NarrowFilter ==
    ASSUME NEW bw \in Nat, bw <= NarrowTop
    PROVE  /\ Lpf(bw) \in 1..10 /\ T[Lpf(bw)] \in Int
           /\ Setting(bw) = NarrowSetting(bw)
           /\ Setting(bw).filter = HighPass(bw) + T[Lpf(bw)]
           /\ Setting(bw).filter >= bw
           /\ T[Lpf(bw)] <= Widest
           /\ \A i \in 1..10 : T[i] + HighPass(bw) >= bw => T[Lpf(bw)] <= T[i]
<1>1. /\ Lpf(bw) \in 1..10 /\ T[Lpf(bw)] >= Residual(bw)
      /\ \A i \in 1..10 : T[i] >= Residual(bw) => T[Lpf(bw)] <= T[i]
      BY Corners, LowPass, SMT DEF Lpf
<1>2. \A i \in 1..10 : T[i] \in Int
      BY TableInt
<1>3. T[Lpf(bw)] \in Int /\ T[1] = Widest /\ Widest \in Int
      BY <1>1, <1>2, Constants, SMT DEF Widest, T
<1>4. T[Lpf(bw)] <= Widest
      BY <1>1, <1>3, Corners, SMT
<1>5. Setting(bw) = NarrowSetting(bw)
  <2>1. NarrowTop \in Int
        BY SMT DEF NarrowTop
  <2>2. ~(bw > Widest + FILT_HP_BW1 + FILT_HP_BW2)
        BY <2>1, Constants, SMT
  <2> QED BY <2>2, SMT DEF Setting
<1>6. Setting(bw).filter = HighPass(bw) + T[Lpf(bw)]
      BY <1>5, SMT DEF NarrowSetting, RealBw, Lpf, T
<1>7. Setting(bw).filter >= bw
      BY <1>1, <1>3, <1>6, Corners, SMT
<1>8. ASSUME NEW i \in 1..10, T[i] + HighPass(bw) >= bw
      PROVE  T[Lpf(bw)] <= T[i]
  <2>1. T[i] >= Residual(bw)
        BY <1>2, <1>8, Corners, SMT
  <2> QED BY <1>1, <2>1
<1> QED BY <1>1, <1>3, <1>4, <1>5, <1>6, <1>7, <1>8

(* The registers of the narrow path spell the same filter.                 *)
LEMMA NarrowRegisters ==
    ASSUME NEW bw \in Nat, bw <= NarrowTop, setting = Setting(bw)
    PROVE  /\ Narrow /\ Opened = HighPass(bw)
           /\ 16 - (setting.reg0b % 16) = Lpf(bw)
           /\ setting.intFreq = 2300000 + HighPass(bw) - setting.filter \div 2
<1> DEFINE a == IF Hp2(bw) THEN 0 ELSE 32
           b == IF Hp1(bw) THEN 0 ELSE 64
<1>1. setting = NarrowSetting(bw) /\ Lpf(bw) \in 1..10
      BY NarrowFilter
<1>2. setting.reg0b = 128 + a + b + (16 - Lpf(bw))
      BY <1>1, SMT DEF NarrowSetting, Lpf
<1>3. a \in {0, 32} /\ b \in {0, 64}
      BY SMT
<1>4. setting.reg0b % 16 = 16 - Lpf(bw)
      BY <1>1, <1>2, <1>3, SMT
<1>5. /\ BitSet(setting.reg0b, 32) <=> a = 32
      /\ BitSet(setting.reg0b, 64) <=> b = 64
      BY <1>1, <1>2, <1>3, SMT DEF BitSet
<1>6. Opened = HighPass(bw)
      BY <1>5, SMT DEF Opened, HighPass
<1>7. Narrow
      BY <1>1, SMT DEF Narrow, NarrowSetting
<1>8. setting.intFreq = 2300000 + HighPass(bw) - setting.filter \div 2
      BY <1>1, SMT DEF NarrowSetting
<1> QED BY <1>1, <1>4, <1>6, <1>7, <1>8, SMT

---------------------------------------------------------------------------
(* The wide path                                                           *)

LEMMA WideFilter ==
    ASSUME NEW bw \in Nat, bw > NarrowTop
    PROVE  /\ Setting(bw) = WideSetting(bw)
           /\ Setting(bw).reg0a = 16
           /\ Setting(bw).filter = IF bw > 7000000 THEN 8000000
                                   ELSE IF bw > 6000000 THEN 7000000 ELSE 6000000
<1>1. NarrowTop \in Int
      BY SMT DEF NarrowTop
<1>2. bw > Widest + FILT_HP_BW1 + FILT_HP_BW2
      BY <1>1, Constants, SMT
<1>3. Setting(bw) = WideSetting(bw)
      BY <1>2, SMT DEF Setting
<1>4. CASE bw > 7000000
      BY <1>3, <1>4, SMT DEF WideSetting
<1>5. CASE bw > 6000000 /\ bw <= 7000000
      BY <1>3, <1>5, SMT DEF WideSetting
<1>6. CASE bw <= 6000000
      BY <1>3, <1>6, SMT DEF WideSetting
<1> QED BY <1>3, <1>4, <1>5, <1>6, SMT

---------------------------------------------------------------------------
(* A wider request selects no narrower filter: with the same corners the   *)
(* low-pass is no narrower; and more corners, or the wide path, add more   *)
(* than the low-pass can give up.                                          *)
LEMMA Monotone ==
    ASSUME NEW bw \in Nat, NEW wider \in Nat, bw <= wider
    PROVE  Setting(bw).filter <= Setting(wider).filter
<1>1. NarrowTop \in Int /\ NarrowTop = 2430000 /\ Widest = 1700000
      BY Constants, SMT DEF NarrowTop
<1>2. CASE wider <= NarrowTop
  <2>1. bw <= NarrowTop
        BY <1>1, <1>2, SMT
  <2>2. /\ Setting(bw).filter = HighPass(bw) + T[Lpf(bw)]
        /\ Lpf(bw) \in 1..10 /\ T[Lpf(bw)] \in Int /\ T[Lpf(bw)] <= Widest
        /\ \A i \in 1..10 : T[i] + HighPass(bw) >= bw => T[Lpf(bw)] <= T[i]
        BY <2>1, NarrowFilter
  <2>3. /\ Setting(wider).filter = HighPass(wider) + T[Lpf(wider)]
        /\ Setting(wider).filter >= wider
        /\ Lpf(wider) \in 1..10 /\ T[Lpf(wider)] \in Int
        BY <1>2, NarrowFilter
  <2>4. HighPass(bw) \in Nat /\ HighPass(wider) \in Nat
        BY <1>2, <2>1, Corners
  <2>5. CASE HighPass(bw) = HighPass(wider)
    <3>1. T[Lpf(wider)] + HighPass(bw) >= bw
          BY <2>3, <2>4, <2>5, SMT
    <3>2. T[Lpf(bw)] <= T[Lpf(wider)]
          BY <2>2, <2>3, <3>1
    <3> QED BY <2>2, <2>3, <2>4, <2>5, <3>2, SMT
  <2>6. CASE HighPass(bw) + Widest < wider
        BY <1>1, <2>2, <2>3, <2>4, <2>6, SMT
  <2> QED BY <2>5, <2>6, CornersGrow
<1>3. CASE bw <= NarrowTop /\ wider > NarrowTop
  <2>1. /\ Setting(bw).filter = HighPass(bw) + T[Lpf(bw)]
        /\ T[Lpf(bw)] \in Int /\ T[Lpf(bw)] <= Widest
        BY <1>3, NarrowFilter
  <2>2. HighPass(bw) \in Nat /\ HighPass(bw) <= 730000
        BY CornerPoints, SMT
  <2>3. Setting(wider).filter = IF wider > 7000000 THEN 8000000
                                ELSE IF wider > 6000000 THEN 7000000 ELSE 6000000
        BY <1>3, WideFilter
  <2> QED BY <1>1, <2>1, <2>2, <2>3, SMT
<1>4. CASE bw > NarrowTop
  <2>1. wider > NarrowTop
        BY <1>1, <1>4, SMT
  <2>2. /\ Setting(bw).filter = IF bw > 7000000 THEN 8000000
                                ELSE IF bw > 6000000 THEN 7000000 ELSE 6000000
        /\ Setting(wider).filter = IF wider > 7000000 THEN 8000000
                                   ELSE IF wider > 6000000 THEN 7000000 ELSE 6000000
        BY <1>4, <2>1, WideFilter
  <2> QED BY <2>2, SMT
<1> QED BY <1>1, <1>2, <1>3, <1>4, SMT

---------------------------------------------------------------------------
(* The driver's setting is that of the last request.                       *)

InitialSetting == [reg0a |-> 16, reg0b |-> 107, intFreq |-> 3570000, filter |-> 6000000]

SettingFollows ==
    /\ request \in Nat
    /\ setting = Setting(request) \/ (request = 0 /\ setting = InitialSetting)

LEMMA Follows == Spec => []SettingFollows
<1>1. Init => SettingFollows
      BY SMT DEF Init, SettingFollows, InitialSetting
<1>2. SettingFollows /\ [SetBw]_bwVars => SettingFollows'
  <2> SUFFICES ASSUME SettingFollows, [SetBw]_bwVars
               PROVE  SettingFollows'
      OBVIOUS
  <2>1. CASE SetBw
    <3>1. PICK bw \in Requests : request' = bw /\ setting' = Setting(bw)
          BY <2>1 DEF SetBw
    <3>2. I32_MAX \in Nat
          BY SMT DEF I32_MAX
    <3>3. bw \in Nat
          BY <3>2, RequestsAssumption, SMT
    <3>4. setting' = Setting(request')
          BY <3>1
    <3> QED BY <3>1, <3>3, <3>4 DEF SettingFollows
  <2>2. CASE UNCHANGED bwVars
        BY <2>2 DEF bwVars, SettingFollows
  <2> QED BY <2>1, <2>2
<1> QED BY <1>1, <1>2, PTL DEF Spec

LEMMA NotNarrowInitially ==
    ASSUME setting = InitialSetting
    PROVE  ~Narrow /\ setting.filter = 6000000
BY SMT DEF InitialSetting, Narrow

LEMMA WideIsNotNarrow ==
    ASSUME request \in Nat, setting = Setting(request), ~(request <= NarrowTop)
    PROVE  ~Narrow
<1>1. NarrowTop \in Int
      BY SMT DEF NarrowTop
<1>2. request > NarrowTop
      BY <1>1, SMT
<1> QED BY <1>2, WideFilter, SMT DEF Narrow

(* Whatever bandwidth set_bw was asked for, its filter lets it through to  *)
(* 8 MHz, no narrower low-pass would, the register selects that filter,    *)
(* and no wider request selects a narrower one.                            *)
THEOREM FilterAlwaysFits == Spec => []FilterFits
<1>1. SettingFollows => FilterEncompasses
  <2> SUFFICES ASSUME SettingFollows
               PROVE  FilterEncompasses
      OBVIOUS
  <2> USE DEF SettingFollows
  <2>1. CASE setting = InitialSetting /\ request = 0
        BY <2>1, NotNarrowInitially, SMT DEF FilterEncompasses
  <2>2. CASE setting = Setting(request) /\ request <= NarrowTop
    <3>1. /\ Opened = HighPass(request) /\ 16 - (setting.reg0b % 16) = Lpf(request)
          BY <2>2, NarrowRegisters
    <3>2. /\ setting.filter >= request
          /\ setting.filter = HighPass(request) + T[Lpf(request)]
          /\ T[Lpf(request)] \in Int
          BY <2>2, NarrowFilter
    <3>3. HighPass(request) \in Nat
          BY <2>2, Corners
    <3> QED BY <3>1, <3>2, <3>3, SMT DEF FilterEncompasses, T
  <2>3. CASE setting = Setting(request) /\ ~(request <= NarrowTop)
    <3>1. ~Narrow
          BY <2>3, WideIsNotNarrow
    <3>2. NarrowTop = 2430000
          BY DEF NarrowTop
    <3>3. setting.filter = IF request > 7000000 THEN 8000000
                           ELSE IF request > 6000000 THEN 7000000 ELSE 6000000
          BY <2>3, <3>2, WideFilter, SMT
    <3> QED BY <3>1, <3>3, SMT DEF FilterEncompasses
  <2> QED BY <2>1, <2>2, <2>3
<1>2. SettingFollows => FilterIsNarrowest
  <2> SUFFICES ASSUME SettingFollows, Narrow, NEW i \in 1..10, T[i] + Opened >= request
               PROVE  setting.filter <= T[i] + Opened
      BY SMT DEF FilterIsNarrowest, T
  <2>1. setting = Setting(request) /\ request <= NarrowTop /\ request \in Nat
        BY NotNarrowInitially, WideIsNotNarrow DEF SettingFollows
  <2>2. Opened = HighPass(request)
        BY <2>1, NarrowRegisters
  <2>3. /\ setting.filter = HighPass(request) + T[Lpf(request)]
        /\ T[Lpf(request)] \in Int /\ T[Lpf(request)] <= T[i]
        BY <2>1, <2>2, NarrowFilter
  <2>4. HighPass(request) \in Nat /\ T[i] \in Int
        BY <2>1, Corners, TableInt
  <2> QED BY <2>2, <2>3, <2>4, SMT
<1>3. SettingFollows => WiderIsNotNarrower
  <2> SUFFICES ASSUME SettingFollows, request > 0, NEW bw \in Requests, request <= bw
               PROVE  setting.filter <= Setting(bw).filter
      BY DEF WiderIsNotNarrower
  <2>1. I32_MAX \in Nat
        BY SMT DEF I32_MAX
  <2>2. bw \in Nat /\ request \in Nat /\ request # 0
        BY <2>1, RequestsAssumption, SMT DEF SettingFollows
  <2>3. setting = Setting(request)
        BY <2>2 DEF SettingFollows
  <2> QED BY <2>2, <2>3, Monotone
<1> QED BY <1>1, <1>2, <1>3, Follows, PTL DEF FilterFits

(* The intermediate frequency that set_bw returns puts the passband's      *)
(* upper edge where the opened corners do, and its lower edge above 0 Hz,  *)
(* whatever bandwidth was asked for.                                       *)
THEOREM AlwaysCentred == Spec => []CentredInFilter
<1>1. SettingFollows => CentredInFilter
  <2> SUFFICES ASSUME SettingFollows, Narrow
               PROVE  /\ setting.intFreq + setting.filter \div 2 = 2300000 + Opened
                      /\ setting.intFreq > setting.filter \div 2
      BY DEF CentredInFilter
  <2>1. setting = Setting(request) /\ request <= NarrowTop /\ request \in Nat
        BY NotNarrowInitially, WideIsNotNarrow DEF SettingFollows
  <2>2. /\ Opened = HighPass(request)
        /\ setting.intFreq = 2300000 + HighPass(request) - setting.filter \div 2
        BY <2>1, NarrowRegisters
  <2>3. /\ setting.filter = HighPass(request) + T[Lpf(request)]
        /\ T[Lpf(request)] \in Int /\ T[Lpf(request)] <= Widest
        BY <2>1, NarrowFilter
  <2>4. HighPass(request) \in Nat /\ Widest = 1700000
        BY <2>1, Corners, Constants
  <2> QED BY <2>2, <2>3, <2>4, SMT
<1> QED BY <1>1, Follows, PTL
============================================================================
