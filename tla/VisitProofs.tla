----------------------------- MODULE VisitProofs ----------------------------
(***************************************************************************)
(* Proofs about visits: for any configuration file, any number of          *)
(* tourists and a shutdown at any moment, everybody sent fits on a chair,  *)
(* prices are exact, tickets cover the rides and the report adds up.       *)
(***************************************************************************)
EXTENDS Visit, FiniteSetTheorems, FunctionTheorems, SequenceTheorems, WellFoundedInduction, TLAPS

-----------------------------------------------------------------------------
(* The configuration and the prices *)

\* A set of line numbers has a last one.
LEMMA LastLine ==
  ASSUME NEW S \in SUBSET Nat, S # {}, NEW n \in Nat, \A x \in S : x <= n
  PROVE  Max(S) \in S
<1> DEFINE R == OpToRel(<, Nat)
<1> DEFINE T == {n - x : x \in S}
<1>1. T \in SUBSET Nat /\ T # {}
  <2>1. \A x \in S : n - x \in Nat
    OBVIOUS
  <2>2. QED
    BY <2>1
<1> HIDE DEF T
<1>2. \E i \in T : \A j \in T : ~(<<j, i>> \in R)
  BY <1>1, NatLessThanWellFounded, WFMin
<1>3. \A i, j \in Nat : j < i => <<j, i>> \in R
  BY DEF OpToRel
<1> HIDE DEF R
<1>4. PICK i \in T : \A j \in T : ~(j < i)
  BY <1>1, <1>2, <1>3
<1>5. PICK x \in S : i = n - x
  BY <1>4 DEF T
<1>6. ASSUME NEW y \in S PROVE x >= y
  <2>1. n - y \in T
    BY DEF T
  <2>2. ~(n - y < n - x)
    BY <1>4, <1>5, <2>1
  <2>3. QED
    BY <2>2
<1>7. QED
  BY <1>5, <1>6 DEF Max

\* Whatever the file says, every key has an integer value.
LEMMA LoadedType ==
  ASSUME NEW file \in Seq(Line)
  PROVE  Loaded(file) \in [DOMAIN Defaults -> Int]
<1>1. ASSUME NEW key \in DOMAIN Defaults, LinesFor(file, key) # {}
      PROVE  file[Max(LinesFor(file, key))].value \in Int
  <2>1. Len(file) \in Nat /\ DOMAIN file = 1..Len(file)
    BY LenProperties
  <2>2. LinesFor(file, key) \in SUBSET Nat /\ \A x \in LinesFor(file, key) : x <= Len(file)
    BY <2>1 DEF LinesFor
  <2>3. Max(LinesFor(file, key)) \in LinesFor(file, key)
    BY <1>1, <2>1, <2>2, LastLine
  <2>4. Max(LinesFor(file, key)) \in 1..Len(file)
    BY <2>1, <2>3 DEF LinesFor
  <2>5. file[Max(LinesFor(file, key))] \in Line
    BY <2>4, ElementOfSeq
  <2>6. QED
    BY <2>5 DEF Line
<1>2. ASSUME NEW key \in DOMAIN Defaults PROVE Defaults[key] \in Int
  BY DEF Defaults
<1>3. QED
  BY <1>1, <1>2 DEF Loaded

Integral(c) ==
  /\ c.station_capacity \in Int /\ c.total_tourists \in Int
  /\ c.sim_start_hour \in Int /\ c.sim_start_minute \in Int
  /\ c.sim_end_hour \in Int /\ c.sim_end_minute \in Int
  /\ c.ticket_t1_duration \in Int /\ c.ticket_t2_duration \in Int /\ c.ticket_t3_duration \in Int

LEMMA CfgValues ==
  ASSUME cfg \in [DOMAIN Defaults -> Int]
  PROVE  Integral(cfg)
<1>1. DOMAIN Defaults =
        {"station_capacity", "simulation_duration_real", "sim_start_hour", "sim_start_minute",
         "sim_end_hour", "sim_end_minute", "chair_travel_time_sim", "total_tourists",
         "tourist_spawn_delay_us", "vip_percentage", "walker_percentage", "family_percentage",
         "ticket_t1_duration", "ticket_t2_duration", "ticket_t3_duration",
         "danger_probability", "danger_duration_sim", "scared_enabled"}
  BY DEF Defaults
<1>2. QED
  BY <1>1 DEF Integral

\* A discount of a quarter, rounded down by less than one.
LEMMA Quarter ==
  ASSUME NEW p \in Nat
  PROVE  /\ (p * 75) \div 100 \in Nat
         /\ 3 * p - 4 * ((p * 75) \div 100) \in 0..3
<1>1. PICK q \in Nat, r \in Nat : p = 4 * q + r /\ r < 4
  <2>1. p \div 4 \in Nat /\ p % 4 \in Nat /\ p % 4 < 4 /\ p = 4 * (p \div 4) + (p % 4)
    OBVIOUS
  <2>2. QED
    BY <2>1
<1>2. CASE r = 0
  BY <1>1, <1>2
<1>3. CASE r = 1
  BY <1>1, <1>3
<1>4. CASE r = 2
  BY <1>1, <1>4
<1>5. CASE r = 3
  BY <1>1, <1>5
<1>6. QED
  BY <1>1, <1>2, <1>3, <1>4, <1>5

\* calculate_price: what is off is a quarter, or nothing.
LEMMA PriceExact ==
  ASSUME NEW age \in 0..80, NEW ticket \in TicketTypes, NEW vip \in BOOLEAN
  PROVE  /\ Price(age, ticket, vip) \in Nat
         /\ LET full == BasePrice[ticket] + (IF vip THEN 50 ELSE 0)
            IN  /\ full \in Nat
                /\ (IF age \in 10..64 THEN 4 ELSE 3) * full - 4 * Price(age, ticket, vip) \in 0..3
<1> DEFINE full == BasePrice[ticket] + (IF vip THEN 50 ELSE 0)
<1>1. full \in Nat
  BY DEF BasePrice, TicketTypes
<1>2. Price(age, ticket, vip) = IF age < 10 \/ age >= 65 THEN (full * 75) \div 100 ELSE full
  BY DEF Price, Discounted
<1> HIDE DEF full
<1>3. CASE age < 10 \/ age >= 65
  <2>1. ~(age \in 10..64)
    BY <1>3
  <2>2. QED
    BY <1>1, <1>2, <1>3, <2>1, Quarter DEF full
<1>4. CASE ~(age < 10 \/ age >= 65)
  <2>1. age \in 10..64
    BY <1>4
  <2>2. 4 * full - 4 * full = 0
    BY <1>1
  <2>3. QED
    BY <1>1, <1>2, <1>4, <2>1, <2>2 DEF full
<1>5. QED
  BY <1>3, <1>4

\* calculate_family_price, for a family of up to three.
LEMMA FamilyPriceExact ==
  ASSUME NEW d \in Visitor
  PROVE  /\ FamilyPrice(d) \in Nat
         /\ LET base    == BasePrice[d.ticket]
                parent  == base + (IF d.vip THEN 50 ELSE 0)
                quarters == (IF d.age \in 10..64 THEN 4 ELSE 3) * parent + 3 * base * d.kids
            IN  quarters - 4 * FamilyPrice(d) \in 0 .. 4 * (1 + d.kids) - 1
<1>1. /\ d.age \in 0..80 /\ d.ticket \in TicketTypes /\ d.vip \in BOOLEAN /\ d.kids \in 0..2
  BY DEF Visitor
<1> DEFINE base == BasePrice[d.ticket]
<1> DEFINE parent == base + (IF d.vip THEN 50 ELSE 0)
<1> DEFINE p == Price(d.age, d.ticket, d.vip)
<1> DEFINE c == Price(5, d.ticket, FALSE)
<1> DEFINE part == (IF d.age \in 10..64 THEN 4 ELSE 3) * parent
<1>2. base \in Nat /\ parent \in Nat
  BY <1>1 DEF BasePrice, TicketTypes
<1>3. p \in Nat /\ part - 4 * p \in 0..3
  BY <1>1, PriceExact
<1>4. c \in Nat /\ 3 * base - 4 * c \in 0..3
  <2>1. 5 \in 0..80 /\ FALSE \in BOOLEAN /\ ~(5 \in 10..64)
    OBVIOUS
  <2>2. Price(5, d.ticket, FALSE) \in Nat /\ 3 * (base + 0) - 4 * Price(5, d.ticket, FALSE) \in 0..3
    BY <1>1, <2>1, PriceExact
  <2>3. base + 0 = base
    BY <1>2
  <2>4. QED
    BY <2>2, <2>3, Zenon
<1>5. part \in Nat
  BY <1>2
<1>6. FamilyPrice(d) = p + d.kids * c
  BY DEF FamilyPrice
<1> HIDE DEF base, parent, p, c, part
<1>7. /\ p + d.kids * c \in Nat
      /\ (part + 3 * base * d.kids) - 4 * (p + d.kids * c) \in 0 .. 4 * (1 + d.kids) - 1
  <2>1. CASE d.kids = 0
    BY <1>2, <1>3, <1>4, <1>5, <2>1
  <2>2. CASE d.kids = 1
    BY <1>2, <1>3, <1>4, <1>5, <2>2
  <2>3. CASE d.kids = 2
    BY <1>2, <1>3, <1>4, <1>5, <2>3
  <2>4. QED
    BY <1>1, <2>1, <2>2, <2>3
<1>8. QED
  BY <1>6, <1>7 DEF base, parent, part
-----------------------------------------------------------------------------
(* Types *)

\* What the generator draws has the type of a visitor.
LEMMA DrawsType ==
  ASSUME NEW d \in Draws
  PROVE  d \in Visitor
<1>1. Ages \subseteq 0..80 /\ Tickets \subseteq TicketTypes
  BY VisitAssumption
<1>2. Chance(cfg.vip_percentage) \subseteq BOOLEAN
  BY DEF Chance
<1>3. QED
  BY <1>1, <1>2 DEF Draws, Visitor

LEMMA VisitInit == Init => TypeOK
<1> SUFFICES ASSUME Init PROVE TypeOK
  OBVIOUS
<1>1. cfg \in [DOMAIN Defaults -> Int]
  <2>1. PICK file \in Files : cfg = Loaded(file)
    BY DEF Init
  <2>2. file \in Seq(Line)
    BY VisitAssumption
  <2>3. QED
    BY <2>1, <2>2, LoadedType
<1>2. Nobody \in Visitor
  BY DEF Nobody, Visitor, TicketTypes
<1>3. NoEntry \in Entry
  BY DEF NoEntry, Entry, TicketTypes
<1>4. NoReport \in [written : BOOLEAN, rows : SUBSET Visitors]
  BY DEF NoReport
<1>5. /\ phase \in {"config", "failed", "open", "stopping", "done"}
      /\ places \in 0..SEMVMX /\ now \in Nat /\ closing \in BOOLEAN /\ sem_up \in BOOLEAN
      /\ spawned \in {0} \cup Visitors /\ entry_count \in {0} \cup Visitors
      /\ total_tourists \in Nat /\ total_rides \in Nat
  <2>1. SEMVMX \in Nat
    BY DEF SEMVMX
  <2>2. closing \in BOOLEAN /\ sem_up \in BOOLEAN
    BY Zenon DEF Init
  <2>3. places \in 0..SEMVMX /\ now \in Nat /\ total_tourists \in Nat /\ total_rides \in Nat
    BY <2>1 DEF Init
  <2>4. QED
    BY <2>2, <2>3, Zenon DEF Init
<1>6. /\ who \in [Visitors -> Visitor] /\ vpc \in [Visitors -> VisitPCs]
      /\ entries \in [Visitors -> Entry]
  BY <1>2, <1>3 DEF Init, VisitPCs
<1>7. /\ paid \in [Visitors -> Nat] /\ valid_until \in [Visitors -> Int]
      /\ rides \in [Visitors -> Nat]
      /\ tourists_by_ticket \in [TicketTypes -> Nat] /\ rides_by_ticket \in [TicketTypes -> Nat]
  BY DEF Init
<1>8. report \in [written : BOOLEAN, rows : SUBSET Visitors]
  BY <1>4 DEF Init
<1>9. QED
  BY <1>1, <1>5, <1>6, <1>7, <1>8 DEF TypeOK

\* Every step of a visitor's process keeps the types.
LEMMA VisitorTypes ==
  ASSUME TypeOK, NEW i \in Visitors,
         \/ Enter(i) \/ Sale(i) \/ NoSale(i) \/ RecordEntry(i)
         \/ RideAgain(i) \/ Leave(i) \/ Ride(i) \/ UpdateStats(i)
  PROVE  TypeOK'
<1> USE DEF TypeOK, mainVars, visitVars, statVars, VisitPCs
<1>0. who[i] \in Visitor /\ who[i].kids \in 0..2 /\ who[i].ticket \in TicketTypes
  BY DEF Visitor
<1>1. CASE Enter(i)
  BY <1>1 DEF Enter, VMove
<1>2. CASE Sale(i)
  <2>1. FamilyPrice(who[i]) \in Nat
    BY <1>0, FamilyPriceExact
  <2>2. Validity(who[i].ticket) \in Int
    <3>1. Integral(cfg)
      BY CfgValues
    <3>2. SimEnd \in Int
      BY <3>1 DEF SimEnd, Integral
    <3>3. CASE who[i].ticket \in {"SINGLE", "DAILY"}
      BY <3>2, <3>3 DEF Validity
    <3>4. CASE who[i].ticket \notin {"SINGLE", "DAILY"}
      <4>1. who[i].ticket \in {"T1", "T2", "T3"}
        BY <1>0, <3>4 DEF TicketTypes
      <4>2. Duration(who[i].ticket) \in Int
        BY <3>1, <4>1 DEF Duration, Integral
      <4>3. QED
        BY <3>4, <4>2 DEF Validity
    <3>5. QED
      BY <3>3, <3>4
  <2>3. /\ total_tourists' \in Nat /\ tourists_by_ticket' \in [TicketTypes -> Nat]
    <3>1. Persons(i) \in Nat
      BY <1>0 DEF Persons
    <3>2. QED
      BY <1>0, <1>2, <3>1 DEF Sale, CountSale
  <2>4. vpc' \in [Visitors -> VisitPCs]
    BY <1>2 DEF Sale, VMove
  <2>5. paid' \in [Visitors -> Nat] /\ valid_until' \in [Visitors -> Int]
    BY <1>2, <2>1, <2>2 DEF Sale
  <2>6. QED
    BY <1>2, <2>3, <2>4, <2>5 DEF Sale
<1>3. CASE NoSale(i)
  BY <1>3 DEF NoSale, VMove
<1>4. CASE RecordEntry(i)
  <2>1. vpc' \in [Visitors -> VisitPCs]
    BY <1>4 DEF RecordEntry, VMove
  <2>2. entries' \in [Visitors -> Entry]
    <3>1. [active |-> TRUE, ticket |-> who[i].ticket, kids |-> who[i].kids, rides |-> 0] \in Entry
      BY <1>0 DEF Entry
    <3>2. QED
      BY <1>4, <3>1 DEF RecordEntry
  <2>3. entry_count' \in {0} \cup Visitors
    BY <1>4 DEF RecordEntry, EntryCount
  <2>4. QED
    BY <1>4, <2>1, <2>2, <2>3 DEF RecordEntry
<1>5. CASE RideAgain(i)
  BY <1>5 DEF RideAgain, VMove
<1>6. CASE Leave(i)
  BY <1>6 DEF Leave, VMove
<1>7. CASE Ride(i)
  BY <1>7 DEF Ride, VMove
<1>8. CASE UpdateStats(i)
  <2>1. vpc' \in [Visitors -> VisitPCs]
    BY <1>8 DEF UpdateStats, VMove
  <2>2. rides' \in [Visitors -> Nat]
    BY <1>8 DEF UpdateStats
  <2>3. entries' \in [Visitors -> Entry]
    <3>1. [entries[i] EXCEPT !.rides = @ + 1] \in Entry
      BY DEF Entry
    <3>2. QED
      BY <1>8, <3>1 DEF UpdateStats, Entry
  <2>4. total_rides' \in Nat /\ rides_by_ticket' \in [TicketTypes -> Nat]
    <3>1. Persons(i) \in Nat
      BY <1>0 DEF Persons
    <3>2. QED
      BY <1>0, <1>8, <3>1 DEF UpdateStats
  <2>5. QED
    BY <1>8, <2>1, <2>2, <2>3, <2>4 DEF UpdateStats
<1>9. QED
  BY <1>1, <1>2, <1>3, <1>4, <1>5, <1>6, <1>7, <1>8

LEMMA TypeNext ==
  ASSUME TypeOK, [Next]_vars
  PROVE  TypeOK'
<1>1. CASE StartUp
  <2>0. Integral(cfg)
    BY CfgValues DEF TypeOK
  <2>1. now' \in Nat
    <3>1. CASE ConfigValid
      <4>1. cfg.sim_start_hour \in 0..23 /\ cfg.sim_start_minute \in 0..59
        BY <3>1 DEF ConfigValid, TimesValid, InRange
      <4>2. SimStart \in Nat
        BY <4>1 DEF SimStart
      <4>3. QED
        BY <1>1, <4>2 DEF StartUp, TypeOK
    <3>2. CASE ~ConfigValid
      BY <1>1, <3>2 DEF StartUp, TypeOK
    <3>3. QED
      BY <3>1, <3>2
  <2>2. places' \in 0..SEMVMX
    <3>1. StoredCapacity \in Nat
      <4>1. \A c \in Int : c % 65536 \in Nat
        OBVIOUS
      <4>2. cfg.station_capacity \in Int
        BY <2>0 DEF Integral
      <4>3. QED
        BY <4>1, <4>2 DEF StoredCapacity
    <3>2. SEMVMX \in Nat
      BY DEF SEMVMX
    <3>3. QED
      BY <1>1, <3>1, <3>2 DEF StartUp, TypeOK
  <2>3. QED
    BY <1>1, <2>1, <2>2 DEF StartUp, TypeOK, mainVars, visitVars, statVars
<1>2. CASE Generate
  <2>1. spawned' \in Visitors
    BY <1>2 DEF Generate
  <2>2. vpc' \in [Visitors -> VisitPCs]
    BY <1>2, <2>1 DEF Generate, TypeOK, VisitPCs
  <2>3. who' \in [Visitors -> Visitor]
    BY <1>2, <2>1, DrawsType DEF Generate, TypeOK
  <2>4. QED
    BY <1>2, <2>1, <2>2, <2>3 DEF Generate, TypeOK, mainVars, visitVars, statVars
<1>3. CASE MinutePasses
  BY <1>3 DEF MinutePasses, TypeOK, visitVars, statVars
<1>4. CASE EndOfDay
  BY <1>4 DEF EndOfDay, TypeOK, visitVars, statVars
<1>5. CASE StopRunning
  BY <1>5 DEF StopRunning, TypeOK, visitVars, statVars
<1>6. CASE RemoveSemaphores
  BY <1>6 DEF RemoveSemaphores, TypeOK, visitVars, statVars
<1>7. CASE WriteReport
  BY <1>7 DEF WriteReport, TypeOK, visitVars, statVars
<1>8. CASE UNCHANGED vars
  BY <1>8 DEF TypeOK, vars, mainVars, visitVars, statVars
<1>9. QED
  BY <1>1, <1>2, <1>3, <1>4, <1>5, <1>6, <1>7, <1>8, VisitorTypes DEF Next

\* Every variable keeps its type, whatever the file says: config_load, the desk
\* and the statistics compute integers, the semaphore gets a value semctl accepts.
THEOREM VisitTypes == Spec => []TypeOK
BY VisitInit, TypeNext, PTL DEF Spec

-----------------------------------------------------------------------------
(* Who is sent, and what they pay *)

VisitorStep(i) ==
  \/ Enter(i) \/ Sale(i) \/ NoSale(i) \/ RecordEntry(i)
  \/ RideAgain(i) \/ Leave(i) \/ Ride(i) \/ UpdateStats(i)

MainStep ==
  \/ StartUp \/ MinutePasses \/ EndOfDay \/ StopRunning \/ RemoveSemaphores \/ WriteReport

\* main and the clock touch no visitor and no statistics.
LEMMA MainFrame ==
  ASSUME MainStep \/ UNCHANGED vars
  PROVE  UNCHANGED <<visitVars, statVars>>
BY DEF MainStep, StartUp, MinutePasses, EndOfDay, StopRunning, RemoveSemaphores, WriteReport,
   vars, visitVars, statVars

\* A visitor's process changes its own place only, which it has left "none" for,
\* and nobody's attributes.
LEMMA VisitorFrame ==
  ASSUME TypeOK, NEW i \in Visitors, VisitorStep(i)
  PROVE  /\ UNCHANGED <<mainVars, spawned, who, report>>
         /\ vpc[i] \in {"exec", "desk", "entry", "head", "ride", "down"}
         /\ \E to \in VisitPCs \ {"none", "exec"} : vpc' = [vpc EXCEPT ![i] = to]
<1> USE DEF VisitPCs, VMove
<1>1. CASE Enter(i)
  BY <1>1 DEF Enter
<1>2. CASE Sale(i)
  BY <1>2 DEF Sale
<1>3. CASE NoSale(i)
  BY <1>3 DEF NoSale
<1>4. CASE RecordEntry(i)
  BY <1>4 DEF RecordEntry
<1>5. CASE RideAgain(i)
  BY <1>5 DEF RideAgain
<1>6. CASE Leave(i)
  BY <1>6 DEF Leave
<1>7. CASE Ride(i)
  BY <1>7 DEF Ride
<1>8. CASE UpdateStats(i)
  BY <1>8 DEF UpdateStats
<1>9. QED
  BY <1>1, <1>2, <1>3, <1>4, <1>5, <1>6, <1>7, <1>8 DEF VisitorStep

LEMMA VisitSteps ==
  ASSUME [Next]_vars
  PROVE  \/ MainStep \/ UNCHANGED vars \/ Generate
         \/ \E i \in Visitors : VisitorStep(i)
BY DEF Next, MainStep, VisitorStep

\* Those the generator has not got to have neither started nor paid, and it never
\* sends more than the configuration says.
NotYetSent ==
  /\ \A i \in Visitors : i > spawned => vpc[i] = "none" /\ paid[i] = 0 /\ ~entries[i].active
  /\ \A i \in Visitors : i <= spawned => i <= cfg.total_tourists

LEMMA NotYetSentNext ==
  ASSUME TypeOK, NotYetSent, [Next]_vars
  PROVE  NotYetSent'
<1>0. Visitors \subseteq Nat /\ spawned \in Nat
  BY VisitAssumption, FS_CardinalityType DEF TypeOK
<1>1. CASE MainStep \/ UNCHANGED vars
  <2>1. UNCHANGED <<visitVars, statVars>>
    BY <1>1, MainFrame
  <2>2. UNCHANGED cfg
    BY <1>1 DEF MainStep, StartUp, MinutePasses, EndOfDay, StopRunning, RemoveSemaphores,
       WriteReport, vars, mainVars
  <2>3. QED
    BY <2>1, <2>2 DEF NotYetSent, visitVars, statVars
<1>2. CASE Generate
  <2>1. spawned' = spawned + 1 /\ spawned < cfg.total_tourists /\ UNCHANGED <<cfg, paid, entries>>
    BY <1>2 DEF Generate, mainVars, statVars
  <2>2. \A i \in Visitors : i > spawned + 1 => vpc'[i] = vpc[i]
    BY <1>2, <1>0 DEF Generate, TypeOK
  <2>3. cfg.total_tourists \in Int
    BY CfgValues DEF TypeOK, Integral
  <2>4. \A i \in Visitors : i <= spawned + 1 => i <= cfg.total_tourists
    BY <1>0, <2>1, <2>3 DEF NotYetSent
  <2>5. QED
    BY <1>0, <2>1, <2>2, <2>4 DEF NotYetSent
<1>3. CASE \E i \in Visitors : VisitorStep(i)
  <2>1. PICK i \in Visitors : VisitorStep(i)
    BY <1>3
  <2>2. /\ UNCHANGED <<spawned, cfg>> /\ vpc[i] # "none"
        /\ \A j \in Visitors : j # i => vpc'[j] = vpc[j]
    BY <2>1, VisitorFrame DEF TypeOK, mainVars
  <2>3. \A j \in Visitors : j # i => paid'[j] = paid[j] /\ entries'[j] = entries[j]
    BY <2>1 DEF VisitorStep, Enter, Sale, NoSale, RecordEntry, RideAgain, Leave, Ride,
       UpdateStats, statVars, TypeOK
  <2>4. ~(i > spawned)
    BY <2>2 DEF NotYetSent
  <2>5. QED
    BY <2>2, <2>3, <2>4 DEF NotYetSent
<1>4. QED
  BY <1>1, <1>2, <1>3, VisitSteps

\* What the generator draws, tourist_parse_args accepts, and it fits on a chair.
LEMMA DrawsFit ==
  ASSUME NEW d \in Draws
  PROVE  ArgsAccepted(d) /\ ChairSlots(d) <= 4
<1>1. d \in Visitor
  BY DrawsType
<1>2. d.kids \in 0..2
  BY <1>1 DEF Visitor
<1>3. CASE d.kids = 0
  BY <1>3 DEF ArgsAccepted, ChairSlots
<1>4. CASE d.kids > 0
  <2>1. d.type = "FAMILY" /\ MayBringKids(d.age, "WALKER")
    <3>1. d.kids # 0
      BY <1>4
    <3>2. QED
      BY <3>1, Zenon DEF Draws
  <2>2. d.age >= 26
    BY <2>1 DEF MayBringKids
  <2>3. QED
    BY <1>2, <2>1, <2>2 DEF ArgsAccepted, ChairSlots, MaxKidsPerAdult
<1>5. QED
  BY <1>2, <1>3, <1>4

LEMMA FitsNext ==
  ASSUME TypeOK, EverybodyFits, [Next]_vars
  PROVE  EverybodyFits'
<1>1. CASE MainStep \/ UNCHANGED vars
  BY <1>1, MainFrame DEF EverybodyFits, ArgsAccepted, ChairSlots, visitVars
<1>2. CASE Generate
  <2>1. CASE UNCHANGED <<who, vpc>>
    BY <2>1 DEF EverybodyFits, ArgsAccepted, ChairSlots
  <2>2. CASE \E d \in Draws : /\ who' = [who EXCEPT ![spawned'] = d]
                              /\ vpc' = [vpc EXCEPT ![spawned'] = "exec"]
    <3>1. PICK d \in Draws : /\ who' = [who EXCEPT ![spawned'] = d]
                             /\ vpc' = [vpc EXCEPT ![spawned'] = "exec"]
      BY <2>2
    <3>2. ASSUME NEW i \in Visitors, vpc'[i] # "none"
          PROVE  ArgsAccepted(who'[i]) /\ ChairSlots(who'[i]) <= 4
      <4>1. CASE i = spawned'
        BY <3>1, <4>1, DrawsFit DEF TypeOK
      <4>2. CASE i # spawned'
        BY <3>1, <3>2, <4>2 DEF TypeOK, EverybodyFits
      <4>3. QED
        BY <4>1, <4>2
    <3>3. QED
      BY <3>2 DEF EverybodyFits, ArgsAccepted, ChairSlots
  <2>3. QED
    BY <1>2, <2>1, <2>2 DEF Generate
<1>3. CASE \E i \in Visitors : VisitorStep(i)
  <2>1. PICK i \in Visitors : VisitorStep(i)
    BY <1>3
  <2>2. UNCHANGED who /\ vpc[i] # "none" /\ \A j \in Visitors : j # i => vpc'[j] = vpc[j]
    BY <2>1, VisitorFrame DEF TypeOK
  <2>3. QED
    BY <2>2 DEF EverybodyFits, ArgsAccepted, ChairSlots
<1>4. QED
  BY <1>1, <1>2, <1>3, VisitSteps

\* Whatever the configuration, everybody the generator sends is accepted by
\* tourist_parse_args and fits on an empty chair
\* (tourist_generator.c, init.c, constants.h).
THEOREM EverybodyFitsHolds == Spec => []EverybodyFits
<1>1. Init => EverybodyFits
  BY DEF Init, EverybodyFits
<1>2. QED
  BY <1>1, VisitTypes, FitsNext, PTL DEF Spec

LEMMA CapacityNext ==
  ASSUME TypeOK, CapacityRespected, [Next]_vars
  PROVE  CapacityRespected'
<1>1. CASE StartUp
  <2>1. \A c \in Int : c > 0 => c % 65536 <= c
    OBVIOUS
  <2>2. cfg.station_capacity \in Int
    BY CfgValues DEF TypeOK, Integral
  <2>3. ConfigValid => cfg.station_capacity > 0
    BY DEF ConfigValid
  <2>4. ConfigValid => StoredCapacity <= cfg.station_capacity
    BY <2>1, <2>2, <2>3 DEF StoredCapacity
  <2>5. QED
    BY <1>1, <2>4 DEF StartUp, CapacityRespected
<1>2. CASE ~StartUp
  <2>1. UNCHANGED <<cfg, places>> /\ (phase' = "open" => phase = "open")
    <3>1. CASE \E i \in Visitors : VisitorStep(i)
      BY <3>1, VisitorFrame DEF mainVars
    <3>2. CASE ~\E i \in Visitors : VisitorStep(i)
      BY <1>2, <3>2 DEF Next, VisitorStep, Generate, MinutePasses, EndOfDay, StopRunning,
         RemoveSemaphores, WriteReport, vars, mainVars
    <3>3. QED
      BY <3>1, <3>2
  <2>2. QED
    BY <2>1 DEF CapacityRespected
<1>3. QED
  BY <1>1, <1>2

\* The station semaphore never starts with more places than the configuration
\* gives, for every capacity an int can hold (config.c, sem.c).
THEOREM CapacityRespectedHolds == Spec => []CapacityRespected
<1>1. Init => CapacityRespected
  BY DEF Init, CapacityRespected
<1>2. QED
  BY <1>1, VisitTypes, CapacityNext, PTL DEF Spec

LEMMA PricesNext ==
  ASSUME TypeOK, NotYetSent, PricesExact, [Next]_vars
  PROVE  PricesExact'
<1>1. CASE UNCHANGED <<who, paid>>
  BY <1>1 DEF PricesExact, Persons
<1>2. CASE Generate
  <2>1. UNCHANGED paid
    BY <1>2 DEF Generate
  <2>2. spawned \in Nat /\ spawned' = spawned + 1 /\ spawned' \in Visitors
    BY <1>2, VisitAssumption, FS_CardinalityType DEF Generate, TypeOK
  <2>3. paid[spawned'] = 0
    BY <2>2 DEF NotYetSent
  <2>4. \A i \in Visitors : paid[i] > 0 => who'[i] = who[i]
    BY <1>2, <2>2, <2>3 DEF Generate, TypeOK
  <2>5. QED
    BY <2>1, <2>4 DEF PricesExact, Persons
<1>3. ASSUME NEW i \in Visitors, Sale(i)
      PROVE  PricesExact'
  <2>1. UNCHANGED who /\ paid' = [paid EXCEPT ![i] = FamilyPrice(who[i])]
    BY <1>3 DEF Sale
  <2>2. \A j \in Visitors : j # i => paid'[j] = paid[j]
    BY <2>1 DEF TypeOK
  <2>3. paid'[i] = FamilyPrice(who[i]) /\ who[i] \in Visitor
    BY <2>1 DEF TypeOK
  <2>4. LET base    == BasePrice[who[i].ticket]
            parent  == base + (IF who[i].vip THEN 50 ELSE 0)
            quarters == (IF who[i].age \in 10..64 THEN 4 ELSE 3) * parent
                        + 3 * base * who[i].kids
        IN  quarters - 4 * paid'[i] \in 0 .. 4 * Persons(i) - 1
    BY <2>3, FamilyPriceExact DEF Persons
  <2>5. ASSUME NEW j \in Visitors, paid'[j] > 0
        PROVE  LET base    == BasePrice[who[j].ticket]
                   parent  == base + (IF who[j].vip THEN 50 ELSE 0)
                   quarters == (IF who[j].age \in 10..64 THEN 4 ELSE 3) * parent
                               + 3 * base * who[j].kids
               IN  quarters - 4 * paid'[j] \in 0 .. 4 * Persons(j) - 1
    <3>1. CASE j = i
      BY <2>4, <3>1
    <3>2. CASE j # i
      BY <2>2, <2>5, <3>2 DEF PricesExact
    <3>3. QED
      BY <3>1, <3>2
  <2>6. QED
    BY <2>1, <2>5 DEF PricesExact, Persons
<1>4. CASE ~Generate /\ ~\E i \in Visitors : Sale(i)
  <2>1. UNCHANGED <<who, paid>>
    BY <1>4, VisitSteps, MainFrame DEF visitVars, VisitorStep, Enter, NoSale, RecordEntry,
       RideAgain, Leave, Ride, UpdateStats
  <2>2. QED
    BY <1>1, <2>1
<1>5. QED
  BY <1>2, <1>3, <1>4

LEMMA NotYetSentInit == Init => NotYetSent
<1> SUFFICES ASSUME Init PROVE NotYetSent
  OBVIOUS
<1>1. \A i \in Visitors : i \in Nat /\ i > 0
  BY VisitAssumption, FS_CardinalityType
<1>2. \A i \in Visitors : vpc[i] = "none" /\ paid[i] = 0 /\ entries[i] = NoEntry
  BY DEF Init
<1>3. ~NoEntry.active
  BY DEF NoEntry
<1>4. \A i \in Visitors : ~(i <= spawned)
  BY <1>1 DEF Init
<1>5. QED
  BY <1>2, <1>3, <1>4 DEF NotYetSent

\* calculate_price and calculate_family_price take a quarter off for the young and
\* the old, rounded in the customer's favour by less than one PLN a person, and
\* nothing off for others, whatever the ages, tickets and VIP status (cashier.c).
THEOREM PricesExactHolds == Spec => []PricesExact
<1>1. Init => PricesExact
  BY DEF Init, PricesExact
<1>2. QED
  BY <1>1, VisitTypes, NotYetSentInit, NotYetSentNext, PricesNext, PTL DEF Spec

\* Nobody has started before the station opens, and nobody has paid before the desk.
Unpaid ==
  /\ phase = "config" => \A i \in Visitors : vpc[i] = "none"
  /\ \A i \in Visitors : vpc[i] \in {"none", "exec", "desk"} => paid[i] = 0

\* A step of a visitor's process keeps both.
LEMMA FareVisitor ==
  ASSUME TypeOK, Unpaid, UnusedMeansExpired, NEW i \in Visitors, VisitorStep(i)
  PROVE  Unpaid' /\ UnusedMeansExpired'
<1>1. /\ UNCHANGED <<cfg, phase, closing, now, who>> /\ vpc[i] # "none"
      /\ \A j \in Visitors : j # i => vpc'[j] = vpc[j]
  BY VisitorFrame DEF TypeOK, mainVars
<1>2. \A j \in Visitors : j # i => /\ paid'[j] = paid[j] /\ rides'[j] = rides[j]
                                   /\ valid_until'[j] = valid_until[j]
  BY DEF VisitorStep, Enter, Sale, NoSale, RecordEntry, RideAgain, Leave, Ride, UpdateStats,
     TypeOK
<1>3. phase # "config"
  BY <1>1 DEF Unpaid
<1>4. vpc'[i] \in {"none", "exec", "desk"} => paid'[i] = 0
  BY DEF VisitorStep, Enter, Sale, NoSale, RecordEntry, RideAgain, Leave, Ride, UpdateStats,
     VMove, Unpaid, TypeOK
<1>5. ASSUME vpc'[i] = "gone", paid'[i] > 0, rides'[i] = 0, phase = "open", ~closing,
             cfg.scared_enabled = 0
      PROVE  who[i].ticket # "SINGLE" /\ now >= valid_until'[i]
  <2>1. rides[i] \in Nat /\ now \in Nat /\ valid_until[i] \in Int
    BY DEF TypeOK
  <2>2. ~UpdateStats(i)
    BY <1>5, <2>1 DEF UpdateStats, TypeOK
  <2>3. ~Enter(i)
    BY <1>5 DEF Enter, VMove, Unpaid
  <2>4. ~(Sale(i) \/ NoSale(i) \/ RecordEntry(i) \/ RideAgain(i) \/ Ride(i))
    BY <1>5 DEF Sale, NoSale, RecordEntry, RideAgain, Ride, MayBeScared, VMove, TypeOK
  <2>5. Leave(i)
    BY <2>2, <2>3, <2>4 DEF VisitorStep
  <2>6. ~TicketValid(i) /\ rides[i] = 0 /\ UNCHANGED valid_until
    BY <1>5, <2>5 DEF Leave
  <2>7. QED
    BY <2>1, <2>6 DEF TicketValid
<1>6. Unpaid'
  BY <1>1, <1>2, <1>3, <1>4 DEF Unpaid
<1>7. UnusedMeansExpired'
  <2> SUFFICES ASSUME NEW j \in Visitors, vpc'[j] = "gone", paid'[j] > 0, rides'[j] = 0,
                      phase = "open", ~closing, cfg.scared_enabled = 0
               PROVE  who[j].ticket # "SINGLE" /\ now >= valid_until'[j]
    BY <1>1 DEF UnusedMeansExpired
  <2>1. CASE j = i
    BY <1>5, <2>1
  <2>2. CASE j # i
    BY <1>1, <1>2, <2>2 DEF UnusedMeansExpired
  <2>3. QED
    BY <2>1, <2>2
<1>8. QED
  BY <1>6, <1>7

LEMMA FareNext ==
  ASSUME TypeOK, NotYetSent, Unpaid, UnusedMeansExpired, [Next]_vars
  PROVE  Unpaid' /\ UnusedMeansExpired'
<1>1. CASE MainStep \/ UNCHANGED vars
  <2>1. UNCHANGED <<who, vpc, paid, valid_until, rides>>
    BY <1>1, MainFrame DEF visitVars
  <2>2. /\ UNCHANGED cfg /\ (phase' = "config" => phase = "config")
        /\ phase' = "open" => phase \in {"open", "config"} /\ (~closing' => ~closing)
        /\ phase = "open" => now' = now \/ now' = now + 1
    BY <1>1 DEF MainStep, StartUp, MinutePasses, EndOfDay, StopRunning, RemoveSemaphores,
       WriteReport, vars, mainVars
  <2>3. Unpaid'
    BY <2>1, <2>2 DEF Unpaid
  <2>4. ASSUME NEW j \in Visitors, vpc[j] = "gone", paid[j] > 0, rides[j] = 0,
               phase' = "open", ~closing', cfg.scared_enabled = 0
        PROVE  who[j].ticket # "SINGLE" /\ now' >= valid_until[j]
    <3>1. phase = "open" /\ ~closing
      BY <2>2, <2>4 DEF Unpaid
    <3>2. who[j].ticket # "SINGLE" /\ now >= valid_until[j]
      BY <2>4, <3>1 DEF UnusedMeansExpired
    <3>3. now \in Nat /\ valid_until[j] \in Int /\ (now' = now \/ now' = now + 1)
      BY <2>2, <3>1 DEF TypeOK
    <3>4. QED
      BY <3>2, <3>3
  <2>5. UnusedMeansExpired'
    BY <2>1, <2>2, <2>4 DEF UnusedMeansExpired
  <2>6. QED
    BY <2>3, <2>5
<1>2. CASE Generate
  <2>1. /\ UNCHANGED <<mainVars, paid, valid_until, rides>> /\ phase = "open"
        /\ spawned \in Nat /\ spawned' = spawned + 1 /\ spawned' \in Visitors
    BY <1>2, VisitAssumption, FS_CardinalityType DEF Generate, TypeOK
  <2>2. /\ vpc'[spawned'] \in {"none", "exec"}
        /\ \A j \in Visitors : j # spawned' => vpc'[j] = vpc[j] /\ who'[j] = who[j]
    BY <1>2, <2>1 DEF Generate, TypeOK, NotYetSent
  <2>3. paid[spawned'] = 0
    BY <2>1 DEF NotYetSent
  <2>4. Unpaid'
    BY <2>1, <2>2, <2>3 DEF Unpaid, mainVars
  <2>5. UnusedMeansExpired'
    BY <2>1, <2>2 DEF UnusedMeansExpired, mainVars
  <2>6. QED
    BY <2>4, <2>5
<1>3. CASE \E i \in Visitors : VisitorStep(i)
  BY <1>3, FareVisitor
<1>4. QED
  BY <1>1, <1>2, <1>3, VisitSteps

\* While the station is open nobody who dares to ride goes home with a ticket that
\* was not used and is still good, for every file, every draw and every clock
\* (tourist_is_ticket_valid, tourist/main.c).
THEOREM UnusedMeansExpiredHolds == Spec => []UnusedMeansExpired
<1>1. Init => Unpaid /\ UnusedMeansExpired
  BY DEF Init, Unpaid, UnusedMeansExpired
<1>2. QED
  BY <1>1, VisitTypes, NotYetSentInit, NotYetSentNext, FareNext, PTL DEF Spec

-----------------------------------------------------------------------------
(* Tickets and rides *)

\* The persons of a group, and the rides they took.
Members(i, kids) == {i} \X (0..kids)

LEMMA MembersCount ==
  ASSUME NEW i, NEW kids \in 0..2
  PROVE  IsFiniteSet(Members(i, kids)) /\ Cardinality(Members(i, kids)) = 1 + kids
<1>1. IsFiniteSet({i}) /\ Cardinality({i}) = 1
  BY FS_Singleton
<1>2. IsFiniteSet(0..kids) /\ Cardinality(0..kids) = kids + 1
  BY FS_Interval
<1>3. IsFiniteSet({i} \X (0..kids)) /\ Cardinality({i} \X (0..kids)) = 1 * (kids + 1)
  BY <1>1, <1>2, FS_Product
<1>4. QED
  BY <1>3 DEF Members

\* Adding and taking away a part.
LEMMA DisjointUnion ==
  ASSUME NEW S, NEW T, IsFiniteSet(S), IsFiniteSet(T), S \cap T = {}
  PROVE  IsFiniteSet(S \cup T) /\ Cardinality(S \cup T) = Cardinality(S) + Cardinality(T)
<1>1. /\ IsFiniteSet(S \cup T)
      /\ Cardinality(S \cup T) = Cardinality(S) + Cardinality(T) - Cardinality(S \cap T)
  BY FS_Union
<1>2. Cardinality(S \cap T) = 0
  BY FS_EmptySet
<1>3. Cardinality(S) \in Nat /\ Cardinality(T) \in Nat
  BY FS_CardinalityType
<1>4. QED
  BY <1>1, <1>2, <1>3

LEMMA PartRemoved ==
  ASSUME NEW S, NEW T, IsFiniteSet(S), T \subseteq S
  PROVE  IsFiniteSet(S \ T) /\ Cardinality(S \ T) = Cardinality(S) - Cardinality(T)
<1>1. IsFiniteSet(S \ T) /\ Cardinality(S \ T) = Cardinality(S) - Cardinality(S \cap T)
  BY FS_Difference
<1>2. S \cap T = T
  OBVIOUS
<1>3. QED
  BY <1>1, <1>2

\* Between the sale and the ride.
Riding == {"entry", "head", "ride", "down"}

\* The persons who still hold an unused single ticket.
Holders ==
  {p \in Visitors \X (0..2) :
     /\ who[p[1]].ticket = "SINGLE" /\ vpc[p[1]] \in Riding /\ p[2] <= who[p[1]].kids}

\* Single tickets sold are used at most once, and nobody rides without one.
Covered ==
  /\ rides_by_ticket["SINGLE"] + Cardinality(Holders) <= tourists_by_ticket["SINGLE"]
  /\ \A i \in Visitors : vpc[i] \in Riding => tourists_by_ticket[who[i].ticket] > 0
  /\ \A k \in TicketTypes : rides_by_ticket[k] > 0 => tourists_by_ticket[k] > 0

LEMMA HoldersFinite == IsFiniteSet(Holders) /\ Cardinality(Holders) \in Nat
<1>1. IsFiniteSet(Visitors)
  BY VisitAssumption
<1>2. IsFiniteSet(0..2)
  <2>1. 0 \in Int /\ 2 \in Int
    OBVIOUS
  <2>2. QED
    BY <2>1, FS_Interval, Zenon
<1>3. IsFiniteSet(Visitors \X (0..2))
  BY <1>1, <1>2, FS_Product
<1>4. Holders \in SUBSET (Visitors \X (0..2))
  BY DEF Holders
<1>5. IsFiniteSet(Holders)
  BY <1>3, <1>4, FS_Subset
<1>6. QED
  BY <1>5, FS_CardinalityType

LEMMA HoldersFiniteNext == (IsFiniteSet(Holders) /\ Cardinality(Holders) \in Nat)'
BY HoldersFinite, PTL

\* The members of a group with an unused single ticket are among the holders.
LEMMA MembersHold ==
  ASSUME TypeOK, NEW i \in Visitors
  PROVE  /\ vpc[i] \in Riding /\ who[i].ticket = "SINGLE"
              => Members(i, who[i].kids) \subseteq Holders
         /\ vpc[i] \notin Riding => Members(i, who[i].kids) \cap Holders = {}
<1>1. who[i].kids \in 0..2
  BY DEF TypeOK, Visitor
<1>2. QED
  BY <1>1 DEF Members, Holders

LEMMA CoveredKept ==
  ASSUME TypeOK, Covered, UNCHANGED <<rides_by_ticket, tourists_by_ticket>>,
         \A i \in Visitors : vpc'[i] \in Riding => vpc[i] \in Riding /\ who'[i] = who[i]
  PROVE  Covered'
<1>1. Holders' \subseteq Holders
  BY DEF Holders
<1>2. Cardinality(Holders') <= Cardinality(Holders)
  BY <1>1, HoldersFinite, FS_Subset
<1>3. rides_by_ticket["SINGLE"] \in Nat /\ tourists_by_ticket["SINGLE"] \in Nat
  BY DEF TypeOK, TicketTypes
<1>4. rides_by_ticket["SINGLE"] + Cardinality(Holders') <= tourists_by_ticket["SINGLE"]
  BY <1>2, <1>3, HoldersFinite, HoldersFiniteNext DEF Covered
<1>5. QED
  BY <1>4 DEF Covered

\* A sale adds as many tickets as there are persons to hold them.
LEMMA CoveredSale ==
  ASSUME TypeOK, TypeOK', Covered, NEW i \in Visitors, Sale(i)
  PROVE  Covered'
<1>0. /\ UNCHANGED <<who, rides_by_ticket>> /\ vpc[i] = "desk"
      /\ \A j \in Visitors : j # i => vpc'[j] = vpc[j]
      /\ who[i].kids \in 0..2 /\ who[i].ticket \in TicketTypes
  BY DEF Sale, VMove, TypeOK, Visitor
<1>1. /\ \A k \in TicketTypes : k # who[i].ticket => tourists_by_ticket'[k] = tourists_by_ticket[k]
      /\ tourists_by_ticket'[who[i].ticket] = tourists_by_ticket[who[i].ticket] + 1 + who[i].kids
  BY <1>0 DEF Sale, CountSale, Persons, TypeOK
<1>2. /\ \A k \in TicketTypes : tourists_by_ticket[k] \in Nat
      /\ \A k \in TicketTypes : rides_by_ticket[k] \in Nat
      /\ "SINGLE" \in TicketTypes
  BY DEF TypeOK, TicketTypes
<1>3. \A k \in TicketTypes : tourists_by_ticket'[k] >= tourists_by_ticket[k]
  BY <1>0, <1>1, <1>2
<1>4. tourists_by_ticket'[who[i].ticket] > 0
  BY <1>0, <1>1, <1>2
<1>5. rides_by_ticket["SINGLE"] + Cardinality(Holders') <= tourists_by_ticket'["SINGLE"]
  <2>1. CASE who[i].ticket = "SINGLE"
    <3>1. Members(i, who[i].kids) \cap Holders = {}
      BY <1>0, MembersHold DEF Riding
    <3>2. Holders' \subseteq Holders \cup Members(i, who[i].kids)
      BY <1>0 DEF Holders, Members
    <3>3. IsFiniteSet(Members(i, who[i].kids))
          /\ Cardinality(Members(i, who[i].kids)) = 1 + who[i].kids
      BY <1>0, MembersCount
    <3>4. /\ IsFiniteSet(Holders \cup Members(i, who[i].kids))
          /\ Cardinality(Holders \cup Members(i, who[i].kids))
               = Cardinality(Holders) + (1 + who[i].kids)
      BY <3>1, <3>3, HoldersFinite, DisjointUnion
    <3>5. Cardinality(Holders') <= Cardinality(Holders) + (1 + who[i].kids)
      BY <3>2, <3>4, FS_Subset
    <3>6. tourists_by_ticket'["SINGLE"] = tourists_by_ticket["SINGLE"] + 1 + who[i].kids
      BY <1>1, <2>1
    <3>7. rides_by_ticket["SINGLE"] + Cardinality(Holders) <= tourists_by_ticket["SINGLE"]
      BY DEF Covered
    <3>8. QED
      BY <1>0, <1>2, <3>5, <3>6, <3>7, HoldersFinite, HoldersFiniteNext
  <2>2. CASE who[i].ticket # "SINGLE"
    <3>1. Holders' \subseteq Holders
      BY <1>0, <2>2 DEF Holders
    <3>2. Cardinality(Holders') <= Cardinality(Holders)
      BY <3>1, HoldersFinite, FS_Subset
    <3>3. tourists_by_ticket'["SINGLE"] = tourists_by_ticket["SINGLE"]
      BY <1>1, <1>2, <2>2
    <3>4. rides_by_ticket["SINGLE"] + Cardinality(Holders) <= tourists_by_ticket["SINGLE"]
      BY DEF Covered
    <3>5. QED
      BY <1>2, <3>2, <3>3, <3>4, HoldersFinite, HoldersFiniteNext
  <2>3. QED
    BY <2>1, <2>2
<1>6. \A j \in Visitors : vpc'[j] \in Riding => tourists_by_ticket'[who[j].ticket] > 0
  <2>1. ASSUME NEW j \in Visitors, j # i, vpc'[j] \in Riding
        PROVE  tourists_by_ticket'[who[j].ticket] > 0
    <3>1. vpc[j] \in Riding
      BY <1>0, <2>1
    <3>2. who[j].ticket \in TicketTypes
      BY DEF TypeOK, Visitor
    <3>3. tourists_by_ticket[who[j].ticket] > 0
      BY <3>1 DEF Covered
    <3>4. tourists_by_ticket'[who[j].ticket] \in Nat
      BY <3>2 DEF TypeOK
    <3>5. QED
      BY <1>2, <1>3, <3>2, <3>3, <3>4
  <2>2. QED
    BY <1>4, <2>1
<1>7. \A k \in TicketTypes : rides_by_ticket[k] > 0 => tourists_by_ticket'[k] > 0
  <2>1. \A k \in TicketTypes : tourists_by_ticket'[k] \in Nat
    BY DEF TypeOK
  <2>2. \A k \in TicketTypes : rides_by_ticket[k] > 0 => tourists_by_ticket[k] > 0
    BY DEF Covered
  <2>3. QED
    BY <1>2, <1>3, <2>1, <2>2
<1>8. QED
  BY <1>0, <1>5, <1>6, <1>7 DEF Covered

\* A ride that is counted uses the tickets up.
LEMMA CoveredRide ==
  ASSUME TypeOK, Covered, NEW i \in Visitors, UpdateStats(i)
  PROVE  Covered'
<1>0. /\ UNCHANGED <<who, tourists_by_ticket>> /\ vpc[i] = "down"
      /\ vpc'[i] = (IF who[i].ticket = "SINGLE" THEN "gone" ELSE "head")
      /\ \A j \in Visitors : j # i => vpc'[j] = vpc[j]
      /\ who[i].kids \in 0..2 /\ who[i].ticket \in TicketTypes
  BY DEF UpdateStats, VMove, TypeOK, Visitor
<1>1. CASE ~sem_up
  <2>1. UNCHANGED rides_by_ticket
    BY <1>1 DEF UpdateStats
  <2>2. \A j \in Visitors : vpc'[j] \in Riding => vpc[j] \in Riding
    BY <1>0 DEF Riding
  <2>3. QED
    BY <1>0, <2>1, <2>2, CoveredKept
<1>2. CASE sem_up
  <2>1. /\ \A k \in TicketTypes : k # who[i].ticket => rides_by_ticket'[k] = rides_by_ticket[k]
        /\ rides_by_ticket'[who[i].ticket] = rides_by_ticket[who[i].ticket] + 1 + who[i].kids
    BY <1>0, <1>2 DEF UpdateStats, Persons, TypeOK
  <2>2. /\ \A k \in TicketTypes : tourists_by_ticket[k] \in Nat
        /\ \A k \in TicketTypes : rides_by_ticket[k] \in Nat
        /\ "SINGLE" \in TicketTypes
    BY DEF TypeOK, TicketTypes
  <2>3. rides_by_ticket["SINGLE"] + Cardinality(Holders) <= tourists_by_ticket["SINGLE"]
    BY DEF Covered
  <2>4. rides_by_ticket'["SINGLE"] + Cardinality(Holders') <= tourists_by_ticket["SINGLE"]
    <3>1. CASE who[i].ticket = "SINGLE"
      <4>1. Members(i, who[i].kids) \subseteq Holders
        BY <1>0, <3>1, MembersHold DEF Riding
      <4>2. Holders' \subseteq Holders \ Members(i, who[i].kids)
        BY <1>0, <3>1 DEF Holders, Members, Riding
      <4>3. Cardinality(Members(i, who[i].kids)) = 1 + who[i].kids
        BY <1>0, MembersCount
      <4>4. /\ IsFiniteSet(Holders \ Members(i, who[i].kids))
            /\ Cardinality(Holders \ Members(i, who[i].kids))
                 = Cardinality(Holders) - (1 + who[i].kids)
        BY <4>1, <4>3, HoldersFinite, PartRemoved
      <4>5. Cardinality(Holders') <= Cardinality(Holders) - (1 + who[i].kids)
        BY <4>2, <4>4, FS_Subset
      <4>6. rides_by_ticket'["SINGLE"] = rides_by_ticket["SINGLE"] + 1 + who[i].kids
        BY <2>1, <3>1
      <4>7. QED
        BY <1>0, <2>2, <2>3, <4>5, <4>6, HoldersFinite, HoldersFiniteNext
    <3>2. CASE who[i].ticket # "SINGLE"
      <4>1. Holders' \subseteq Holders
        BY <1>0, <3>2 DEF Holders
      <4>2. Cardinality(Holders') <= Cardinality(Holders)
        BY <4>1, HoldersFinite, FS_Subset
      <4>3. rides_by_ticket'["SINGLE"] = rides_by_ticket["SINGLE"]
        BY <2>1, <2>2, <3>2
      <4>4. QED
        BY <2>2, <2>3, <4>2, <4>3, HoldersFinite, HoldersFiniteNext
    <3>3. QED
      BY <3>1, <3>2
  <2>5. \A j \in Visitors : vpc'[j] \in Riding => tourists_by_ticket[who[j].ticket] > 0
    <3>1. \A j \in Visitors : vpc'[j] \in Riding => vpc[j] \in Riding
      BY <1>0 DEF Riding
    <3>2. QED
      BY <3>1 DEF Covered
  <2>6. \A k \in TicketTypes : rides_by_ticket'[k] > 0 => tourists_by_ticket[k] > 0
    <3>1. tourists_by_ticket[who[i].ticket] > 0
      BY <1>0 DEF Covered, Riding
    <3>2. QED
      BY <2>1, <3>1 DEF Covered
  <2>7. QED
    BY <1>0, <2>4, <2>5, <2>6 DEF Covered
<1>3. QED
  BY <1>1, <1>2

LEMMA CoveredNext ==
  ASSUME TypeOK, Covered, NotYetSent, [Next]_vars
  PROVE  Covered'
<1>1. CASE MainStep \/ UNCHANGED vars
  BY <1>1, MainFrame, CoveredKept DEF visitVars, statVars
<1>2. CASE Generate
  <2>1. UNCHANGED <<rides_by_ticket, tourists_by_ticket>>
    BY <1>2 DEF Generate, statVars
  <2>2. spawned \in Nat /\ spawned' = spawned + 1 /\ spawned' \in Visitors
    BY <1>2, VisitAssumption, FS_CardinalityType DEF Generate, TypeOK
  <2>3. \A i \in Visitors : vpc'[i] \in Riding => vpc[i] \in Riding /\ who'[i] = who[i]
    BY <1>2, <2>2 DEF Generate, TypeOK, Riding
  <2>4. QED
    BY <2>1, <2>3, CoveredKept
<1>3. ASSUME NEW i \in Visitors, VisitorStep(i), ~Sale(i), ~UpdateStats(i)
      PROVE  Covered'
  <2>1. UNCHANGED <<rides_by_ticket, tourists_by_ticket, who>>
    BY <1>3 DEF VisitorStep, Enter, NoSale, RecordEntry, RideAgain, Leave, Ride, statVars
  <2>2. \A j \in Visitors : vpc'[j] \in Riding => vpc[j] \in Riding
    BY <1>3 DEF VisitorStep, Enter, NoSale, RecordEntry, RideAgain, Leave, Ride, VMove, TypeOK,
       Riding
  <2>3. QED
    BY <2>1, <2>2, CoveredKept
<1>4. QED
  BY <1>1, <1>2, <1>3, VisitSteps, CoveredSale, CoveredRide, TypeNext

LEMMA CoveredInit == Init => Covered
<1> SUFFICES ASSUME Init PROVE Covered
  OBVIOUS
<1>1. Holders = {}
  BY DEF Init, Holders, Riding
<1>2. Cardinality(Holders) = 0
  BY <1>1, FS_EmptySet
<1>3. \A k \in TicketTypes : rides_by_ticket[k] = 0 /\ tourists_by_ticket[k] = 0
  BY DEF Init
<1>4. \A i \in Visitors : vpc[i] \notin Riding
  BY DEF Init, Riding
<1>5. "SINGLE" \in TicketTypes
  BY DEF TicketTypes
<1>6. QED
  BY <1>2, <1>3, <1>4, <1>5 DEF Covered

\* Every single ticket sold is good for one ride of one person and rides are only
\* counted for tickets that were sold, for families too and at any moment of a
\* shutdown (cashier.c, stats.c).
THEOREM TicketsCoverRidesHolds == Spec => []TicketsCoverRides
<1>1. TypeOK /\ Covered => TicketsCoverRides
  <2> SUFFICES ASSUME TypeOK, Covered PROVE TicketsCoverRides
    OBVIOUS
  <2>1. rides_by_ticket["SINGLE"] \in Nat /\ tourists_by_ticket["SINGLE"] \in Nat
    BY DEF TypeOK, TicketTypes
  <2>2. rides_by_ticket["SINGLE"] <= tourists_by_ticket["SINGLE"]
    BY <2>1, HoldersFinite DEF Covered
  <2>3. QED
    BY <2>2 DEF Covered, TicketsCoverRides
<1>2. QED
  BY <1>1, VisitTypes, NotYetSentInit, NotYetSentNext, CoveredInit, CoveredNext, PTL DEF Spec

-----------------------------------------------------------------------------
(* The report *)

\* What the statistics file knows of a tourist is what the tourist was started
\* with, from the first record to the last; while the semaphores exist everybody
\* on the way has a record.
Recorded ==
  /\ phase = "config" => spawned = 0
  /\ \A i \in Visitors :
       /\ entries[i].active =>
            /\ entries[i].ticket = who[i].ticket /\ entries[i].kids = who[i].kids
            /\ vpc[i] \in {"head", "ride", "down", "gone"} /\ i <= entry_count
       /\ ~entries[i].active => entries[i].rides = 0
       /\ sem_up /\ vpc[i] \in {"head", "ride", "down"} => entries[i].active

LEMMA RecordedNext ==
  ASSUME TypeOK, NotYetSent, Recorded, [Next]_vars
  PROVE  Recorded'
<1>0. \A i \in Visitors : i \in Nat /\ i > 0
  BY VisitAssumption, FS_CardinalityType
<1>1. CASE MainStep \/ UNCHANGED vars
  <2>1. UNCHANGED <<visitVars, statVars>>
    BY <1>1, MainFrame
  <2>2. phase' = "config" => phase = "config"
    BY <1>1 DEF MainStep, StartUp, MinutePasses, EndOfDay, StopRunning, RemoveSemaphores,
       WriteReport, vars, mainVars
  <2>3. sem_up' => sem_up \/ \A i \in Visitors : vpc[i] = "none"
    <3>1. CASE StartUp
      <4>1. spawned = 0
        BY <3>1 DEF StartUp, Recorded
      <4>2. QED
        BY <1>0, <4>1 DEF NotYetSent
    <3>2. CASE ~StartUp
      BY <1>1, <3>2 DEF MainStep, MinutePasses, EndOfDay, StopRunning, RemoveSemaphores,
         WriteReport, vars, mainVars
    <3>3. QED
      BY <3>1, <3>2
  <2>4. QED
    BY <2>1, <2>2, <2>3 DEF Recorded, visitVars, statVars
<1>2. CASE Generate
  <2>1. /\ UNCHANGED <<entries, entry_count, sem_up, phase>> /\ phase = "open"
        /\ spawned' = spawned + 1 /\ spawned' \in Visitors
    BY <1>2 DEF Generate, statVars, mainVars
  <2>2. spawned \in Nat
    BY VisitAssumption, FS_CardinalityType DEF TypeOK
  <2>3. ~entries[spawned'].active
    BY <2>1, <2>2 DEF NotYetSent
  <2>4. /\ \A i \in Visitors : i # spawned' => who'[i] = who[i] /\ vpc'[i] = vpc[i]
        /\ vpc'[spawned'] \in {vpc[spawned'], "exec"}
    BY <1>2, <2>1 DEF Generate, TypeOK
  <2>5. QED
    BY <2>1, <2>3, <2>4 DEF Recorded
<1>3. ASSUME NEW i \in Visitors, VisitorStep(i)
      PROVE  Recorded'
  <2>1. /\ UNCHANGED <<mainVars, spawned, who>>
        /\ \A j \in Visitors : j # i => vpc'[j] = vpc[j]
    BY <1>3, VisitorFrame DEF TypeOK
  <2>2. CASE RecordEntry(i)
    <3>1. vpc[i] = "entry" /\ vpc'[i] = "head"
      BY <2>2 DEF RecordEntry, VMove, TypeOK
    <3>2. i <= cfg.total_tourists
      <4>1. i <= spawned
        <5>1. ~(i > spawned)
          BY <3>1 DEF NotYetSent
        <5>2. spawned \in Nat
          BY VisitAssumption, FS_CardinalityType DEF TypeOK
        <5>3. QED
          BY <1>0, <5>1, <5>2
      <4>2. QED
        BY <4>1 DEF NotYetSent
    <3>3. CASE sem_up
      <4>1. /\ entries'[i] = [active |-> TRUE, ticket |-> who[i].ticket,
                              kids |-> who[i].kids, rides |-> 0]
            /\ \A j \in Visitors : j # i => entries'[j] = entries[j]
            /\ entry_count' = EntryCount(i)
        BY <2>2, <3>2, <3>3 DEF RecordEntry, TypeOK
      <4>2. entry_count \in Nat
        BY VisitAssumption, FS_CardinalityType DEF TypeOK
      <4>3. i <= entry_count' /\ entry_count <= entry_count' /\ entry_count' \in Nat
        BY <1>0, <4>1, <4>2 DEF EntryCount
      <4>4. \A j \in Visitors : j <= entry_count => j <= entry_count'
        BY <1>0, <4>2, <4>3
      <4>5. QED
        BY <2>1, <3>1, <4>1, <4>3, <4>4 DEF Recorded, mainVars
    <3>4. CASE ~sem_up
      BY <2>1, <2>2, <3>1, <3>4 DEF RecordEntry, Recorded, mainVars
    <3>5. QED
      BY <3>3, <3>4
  <2>3. CASE UpdateStats(i)
    <3>1. vpc[i] = "down" /\ vpc'[i] \in {"gone", "head"} /\ UNCHANGED entry_count
      BY <2>3 DEF UpdateStats, VMove, TypeOK
    <3>2. CASE UNCHANGED entries
      BY <2>1, <3>1, <3>2 DEF Recorded, mainVars
    <3>3. CASE sem_up /\ entries' = [entries EXCEPT ![i].rides = @ + 1]
      <4>1. /\ \A j \in Visitors : j # i => entries'[j] = entries[j]
            /\ entries'[i].active = entries[i].active /\ entries'[i].ticket = entries[i].ticket
            /\ entries'[i].kids = entries[i].kids
        BY <3>3 DEF TypeOK, Entry
      <4>2. entries[i].active
        BY <3>1, <3>3 DEF Recorded
      <4>3. QED
        BY <2>1, <3>1, <4>1, <4>2 DEF Recorded, mainVars
    <3>4. QED
      BY <2>3, <3>2, <3>3 DEF UpdateStats
  <2>4. CASE ~RecordEntry(i) /\ ~UpdateStats(i)
    <3>1. UNCHANGED <<entries, entry_count>>
      BY <1>3, <2>4 DEF VisitorStep, Enter, Sale, NoSale, RideAgain, Leave, Ride, statVars
    <3>2. /\ vpc'[i] \in {"head", "ride", "down"} => vpc[i] \in {"head", "ride", "down"}
          /\ vpc[i] \in {"head", "ride", "down", "gone"} =>
               vpc'[i] \in {"head", "ride", "down", "gone"}
      BY <1>3, <2>4 DEF VisitorStep, Enter, Sale, NoSale, RideAgain, Leave, Ride, VMove, TypeOK
    <3>3. QED
      BY <2>1, <3>1, <3>2 DEF Recorded, mainVars
  <2>5. QED
    BY <2>2, <2>3, <2>4
<1>4. QED
  BY <1>1, <1>2, <1>3, VisitSteps

LEMMA RecordedInit == Init => Recorded
<1> SUFFICES ASSUME Init PROVE Recorded
  OBVIOUS
<1>1. \A i \in Visitors : vpc[i] = "none" /\ entries[i] = NoEntry
  BY DEF Init
<1>2. ~NoEntry.active /\ NoEntry.rides = 0
  BY DEF NoEntry
<1>3. QED
  BY <1>1, <1>2 DEF Init, Recorded

\* The report is the last thing main does, and lists exactly the records.
ReportLast ==
  report.written =>
    /\ phase = "done" /\ report.rows = {i \in Visitors : entries[i].active}
    /\ \A i \in Visitors : vpc[i] \in {"none", "gone"}

LEMMA ReportLastNext ==
  ASSUME TypeOK, NotYetSent, Recorded, ReportLast, [Next]_vars
  PROVE  ReportLast'
<1>1. CASE WriteReport
  <2>1. /\ phase' = "done" /\ UNCHANGED <<vpc, entries>>
        /\ \A i \in Visitors : vpc[i] \in {"none", "gone"}
        /\ report'.rows = {i \in Visitors : /\ i <= entry_count /\ i <= cfg.total_tourists
                                             /\ entries[i].active}
    BY <1>1 DEF WriteReport, visitVars, statVars
  <2>2. \A i \in Visitors : entries[i].active => i <= entry_count /\ i <= cfg.total_tourists
    <3>1. \A i \in Visitors : i \in Nat
      BY VisitAssumption, FS_CardinalityType
    <3>2. spawned \in Nat
      BY VisitAssumption, FS_CardinalityType DEF TypeOK
    <3>3. \A i \in Visitors : entries[i].active => i <= spawned
      BY <3>1, <3>2 DEF NotYetSent
    <3>4. QED
      BY <3>3 DEF NotYetSent, Recorded
  <2>3. QED
    BY <2>1, <2>2 DEF ReportLast
<1>2. CASE ~WriteReport /\ report.written
  <2>1. phase = "done" /\ \A i \in Visitors : vpc[i] \in {"none", "gone"}
    BY <1>2 DEF ReportLast
  <2>2. ~Generate /\ ~MainStep
    BY <1>2, <2>1 DEF Generate, MainStep, StartUp, MinutePasses, EndOfDay, StopRunning,
       RemoveSemaphores
  <2>3. \A i \in Visitors : ~VisitorStep(i)
    BY <2>1, VisitorFrame
  <2>4. UNCHANGED vars
    BY <2>2, <2>3, VisitSteps
  <2>5. QED
    BY <2>4 DEF ReportLast, vars, mainVars, visitVars, statVars
<1>3. CASE ~WriteReport /\ ~report.written
  <2>1. UNCHANGED report
    BY <1>3, VisitSteps, VisitorFrame DEF MainStep, StartUp, MinutePasses, EndOfDay, StopRunning,
       RemoveSemaphores, Generate, vars
  <2>2. QED
    BY <1>3, <2>1 DEF ReportLast
<1>4. QED
  BY <1>1, <1>2, <1>3

\* The totals are the sums of the aggregates.
Totals ==
  /\ total_rides = OfAllTypes(rides_by_ticket)
  /\ total_tourists = OfAllTypes(tourists_by_ticket)

\* Adding to one type adds to the sum.
LEMMA OneTypeMore ==
  ASSUME NEW f \in [TicketTypes -> Nat], NEW k \in TicketTypes, NEW n \in Nat
  PROVE  OfAllTypes([f EXCEPT ![k] = @ + n]) = OfAllTypes(f) + n
<1> DEFINE g == [f EXCEPT ![k] = @ + n]
<1>1. \A j \in TicketTypes : f[j] \in Nat /\ g[j] = IF j = k THEN f[j] + n ELSE f[j]
  OBVIOUS
<1> HIDE DEF g
<1>2. /\ f["SINGLE"] \in Nat /\ f["T1"] \in Nat /\ f["T2"] \in Nat /\ f["T3"] \in Nat
      /\ f["DAILY"] \in Nat
  BY <1>1 DEF TicketTypes
<1>3. OfAllTypes(g) = OfAllTypes(f) + n
  <2>1. CASE k = "SINGLE"
    BY <1>1, <1>2, <2>1 DEF OfAllTypes, TicketTypes
  <2>2. CASE k = "T1"
    BY <1>1, <1>2, <2>2 DEF OfAllTypes, TicketTypes
  <2>3. CASE k = "T2"
    BY <1>1, <1>2, <2>3 DEF OfAllTypes, TicketTypes
  <2>4. CASE k = "T3"
    BY <1>1, <1>2, <2>4 DEF OfAllTypes, TicketTypes
  <2>5. CASE k = "DAILY"
    BY <1>1, <1>2, <2>5 DEF OfAllTypes, TicketTypes
  <2>6. QED
    BY <2>1, <2>2, <2>3, <2>4, <2>5 DEF TicketTypes
<1>4. QED
  BY <1>3 DEF g

LEMMA TotalsNext ==
  ASSUME TypeOK, Totals, [Next]_vars
  PROVE  Totals'
<1>1. ASSUME NEW i \in Visitors, Sale(i) PROVE Totals'
  <2>1. who[i].ticket \in TicketTypes /\ Persons(i) \in Nat
    BY DEF TypeOK, Visitor, Persons
  <2>2. /\ total_tourists' = total_tourists + Persons(i)
        /\ tourists_by_ticket' = [tourists_by_ticket EXCEPT ![who[i].ticket] = @ + Persons(i)]
        /\ UNCHANGED <<total_rides, rides_by_ticket>>
    BY <1>1 DEF Sale, CountSale
  <2>3. OfAllTypes(tourists_by_ticket') = OfAllTypes(tourists_by_ticket) + Persons(i)
    BY <2>1, <2>2, OneTypeMore DEF TypeOK
  <2>4. QED
    BY <2>2, <2>3 DEF Totals, OfAllTypes
<1>2. ASSUME NEW i \in Visitors, UpdateStats(i) PROVE Totals'
  <2>1. who[i].ticket \in TicketTypes /\ Persons(i) \in Nat
    BY DEF TypeOK, Visitor, Persons
  <2>2. UNCHANGED <<total_tourists, tourists_by_ticket>>
    BY <1>2 DEF UpdateStats
  <2>3. CASE sem_up
    <3>1. /\ total_rides' = total_rides + Persons(i)
          /\ rides_by_ticket' = [rides_by_ticket EXCEPT ![who[i].ticket] = @ + Persons(i)]
      BY <1>2, <2>3 DEF UpdateStats
    <3>2. OfAllTypes(rides_by_ticket') = OfAllTypes(rides_by_ticket) + Persons(i)
      BY <2>1, <3>1, OneTypeMore DEF TypeOK
    <3>3. QED
      BY <2>2, <3>1, <3>2 DEF Totals, OfAllTypes
  <2>4. CASE ~sem_up
    BY <1>2, <2>2, <2>4 DEF UpdateStats, Totals, OfAllTypes
  <2>5. QED
    BY <2>3, <2>4
<1>3. CASE ~\E i \in Visitors : Sale(i) \/ UpdateStats(i)
  <2>1. UNCHANGED <<total_tourists, tourists_by_ticket, total_rides, rides_by_ticket>>
    BY <1>3, VisitSteps, MainFrame DEF VisitorStep, Enter, NoSale, RecordEntry, RideAgain, Leave,
       Ride, Generate, statVars
  <2>2. QED
    BY <2>1 DEF Totals, OfAllTypes
<1>4. QED
  BY <1>1, <1>2, <1>3

\* The records of a ticket type, and the rides of everybody they stand for.
Records(k) == {i \in Visitors : entries[i].active /\ entries[i].ticket = k}

RecordedRides(k) == UNION {Family(i) \X (1..entries[i].rides) : i \in Records(k)}

\* The aggregate of every type is the rides of its records.
RidesCounted ==
  \A k \in TicketTypes :
    IsFiniteSet(RecordedRides(k)) /\ Cardinality(RecordedRides(k)) = rides_by_ticket[k]

LEMMA InRecordedRides ==
  ASSUME NEW k, NEW x
  PROVE  x \in RecordedRides(k) <=>
           \E i \in Records(k) : x \in Family(i) \X (1..entries[i].rides)
BY DEF RecordedRides

\* A ride of a family of n is n more rides.
LEMMA RidesCountedRide ==
  ASSUME TypeOK, Recorded, NotYetSent, RidesCounted, NEW i \in Visitors, UpdateStats(i), sem_up
  PROVE  RidesCounted'
<1>0. /\ UNCHANGED who /\ vpc[i] = "down"
      /\ who[i].kids \in 0..2 /\ who[i].ticket \in TicketTypes
  BY DEF UpdateStats, VMove, TypeOK, Visitor
<1>1. entries[i].active /\ entries[i].ticket = who[i].ticket /\ entries[i].kids = who[i].kids
  BY <1>0 DEF Recorded
<1>2. i <= cfg.total_tourists
  <2>1. i \in Nat /\ spawned \in Nat
    BY VisitAssumption, FS_CardinalityType DEF TypeOK
  <2>2. ~(i > spawned)
    BY <1>0 DEF NotYetSent
  <2>3. QED
    BY <2>1, <2>2 DEF NotYetSent
<1>3. entries' = [entries EXCEPT ![i].rides = @ + 1]
  BY <1>2 DEF UpdateStats
<1>4. PICK r \in Nat : r = entries[i].rides
  BY DEF TypeOK, Entry
<1>5. /\ \A j \in Visitors : j # i => entries'[j] = entries[j]
      /\ entries'[i].active = entries[i].active /\ entries'[i].ticket = entries[i].ticket
      /\ entries'[i].kids = entries[i].kids /\ entries'[i].rides = r + 1
  BY <1>3, <1>4 DEF TypeOK, Entry
<1>6. \A k : Records(k)' = Records(k)
  BY <1>5 DEF Records
<1>7. \A j \in Visitors : Family(j)' = Family(j)
  BY <1>5 DEF Family
<1> DEFINE New == Members(i, who[i].kids) \X {r + 1}
<1>8. IsFiniteSet(New) /\ Cardinality(New) = 1 + who[i].kids
  <2>1. /\ IsFiniteSet(Members(i, who[i].kids))
        /\ Cardinality(Members(i, who[i].kids)) = 1 + who[i].kids
    BY <1>0, MembersCount
  <2>2. IsFiniteSet({r + 1}) /\ Cardinality({r + 1}) = 1
    BY FS_Singleton
  <2>3. IsFiniteSet(New) /\ Cardinality(New) = (1 + who[i].kids) * 1
    BY <2>1, <2>2, FS_Product
  <2>4. QED
    BY <1>0, <2>3
<1>9. Family(i) = Members(i, who[i].kids)
  BY <1>1 DEF Family, Members
<1>10. \A k \in TicketTypes : k # who[i].ticket => i \notin Records(k)
  BY <1>1 DEF Records
<1>11. i \in Records(who[i].ticket)
  BY <1>1 DEF Records
<1>12. ASSUME NEW k \in TicketTypes, k # who[i].ticket
       PROVE  RecordedRides(k)' = RecordedRides(k) /\ rides_by_ticket'[k] = rides_by_ticket[k]
  <2>1. \A j \in Records(k) : j \in Visitors /\ j # i
    BY <1>10, <1>12 DEF Records
  <2>2. \A j \in Records(k) :
          (Family(j) \X (1..entries[j].rides))' = Family(j) \X (1..entries[j].rides)
    BY <1>5, <1>7, <2>1
  <2>3. RecordedRides(k)' = RecordedRides(k)
    BY <1>6, <2>2 DEF RecordedRides
  <2>4. QED
    BY <1>0, <1>12, <2>3 DEF UpdateStats, TypeOK
<1>13. PICK k \in TicketTypes : k = who[i].ticket
  BY <1>0
<1>14. RecordedRides(k)' = RecordedRides(k) \cup New
  <2>1. 1..(r + 1) = (1..r) \cup {r + 1}
    OBVIOUS
  <2>2. (Family(i) \X (1..entries[i].rides))' = (Family(i) \X (1..r)) \cup New
    BY <1>5, <1>7, <1>9, <2>1
  <2>3. Family(i) \X (1..entries[i].rides) = Family(i) \X (1..r)
    BY <1>4
  <2>4. \A j \in Records(k) : j # i =>
          (Family(j) \X (1..entries[j].rides))' = Family(j) \X (1..entries[j].rides)
    BY <1>5, <1>7 DEF Records
  <2> HIDE DEF New
  <2>5. RecordedRides(k)' = UNION {(Family(j) \X (1..entries[j].rides))' : j \in Records(k)}
    BY <1>6 DEF RecordedRides
  <2>6. i \in Records(k)
    BY <1>11, <1>13
  <2>7. QED
    BY <2>2, <2>3, <2>4, <2>5, <2>6 DEF RecordedRides
<1>15. RecordedRides(k) \cap New = {}
  <2> SUFFICES ASSUME NEW x \in RecordedRides(k), x \in New
               PROVE  FALSE
    OBVIOUS
  <2>1. PICK j \in Records(k) : x \in Family(j) \X (1..entries[j].rides)
    BY InRecordedRides
  <2>2. x[2] = r + 1 /\ x[1] \in Members(i, who[i].kids)
    OBVIOUS
  <2>3. x[1][1] = i
    BY <2>2 DEF Members
  <2>4. x[1] \in Family(j) /\ x[2] \in 1..entries[j].rides
    BY <2>1
  <2>5. x[1][1] = j
    BY <2>4 DEF Family
  <2>6. QED
    BY <1>4, <2>2, <2>3, <2>4, <2>5
<1> HIDE DEF New
<1>16. IsFiniteSet(RecordedRides(k)) /\ Cardinality(RecordedRides(k)) = rides_by_ticket[k]
  BY DEF RidesCounted
<1>17. /\ IsFiniteSet(RecordedRides(k) \cup New)
       /\ Cardinality(RecordedRides(k) \cup New) = rides_by_ticket[k] + (1 + who[i].kids)
  BY <1>8, <1>15, <1>16, DisjointUnion
<1>18. rides_by_ticket'[k] = rides_by_ticket[k] + (1 + who[i].kids)
  BY <1>0, <1>13 DEF UpdateStats, Persons, TypeOK
<1>19. ASSUME NEW m \in TicketTypes
       PROVE  (IsFiniteSet(RecordedRides(m)) /\ Cardinality(RecordedRides(m)) = rides_by_ticket[m])'
  <2>1. CASE m = k
    BY <1>14, <1>17, <1>18, <2>1
  <2>2. CASE m # k
    BY <1>12, <1>13, <2>2 DEF RidesCounted
  <2>3. QED
    BY <2>1, <2>2
<1>20. QED
  BY <1>19 DEF RidesCounted

LEMMA RidesCountedNext ==
  ASSUME TypeOK, Recorded, NotYetSent, RidesCounted, [Next]_vars
  PROVE  RidesCounted'
<1>1. CASE UNCHANGED <<entries, rides_by_ticket>>
  <2>1. \A k : RecordedRides(k)' = RecordedRides(k)
    BY <1>1 DEF RecordedRides, Records, Family
  <2>2. QED
    BY <1>1, <2>1 DEF RidesCounted
<1>2. ASSUME NEW i \in Visitors, RecordEntry(i)
      PROVE  RidesCounted'
  <2>1. UNCHANGED rides_by_ticket /\ ~entries[i].active
    BY <1>2 DEF RecordEntry, VMove, Recorded
  <2>2. CASE UNCHANGED entries
    BY <1>1, <2>1, <2>2
  <2>3. CASE ~UNCHANGED entries
    <3>1. /\ entries'[i].rides = 0 /\ \A j \in Visitors : j # i => entries'[j] = entries[j]
      BY <1>2, <2>3 DEF RecordEntry, TypeOK
    <3>2. ASSUME NEW k PROVE RecordedRides(k)' = RecordedRides(k)
      <4>1. Records(k)' \ {i} = Records(k) /\ i \notin Records(k)
        BY <2>1, <3>1 DEF Records
      <4>2. \A j \in Records(k) :
              (Family(j) \X (1..entries[j].rides))' = Family(j) \X (1..entries[j].rides)
        BY <3>1, <4>1 DEF Family, Records
      <4>3. (Family(i) \X (1..entries[i].rides))' = {}
        BY <3>1
      <4>4. RecordedRides(k)' = UNION {(Family(j) \X (1..entries[j].rides))' : j \in Records(k)'}
        BY DEF RecordedRides
      <4>5. QED
        BY <4>1, <4>2, <4>3, <4>4 DEF RecordedRides
    <3>3. QED
      BY <2>1, <3>2 DEF RidesCounted
  <2>4. QED
    BY <2>2, <2>3
<1>3. ASSUME NEW i \in Visitors, UpdateStats(i)
      PROVE  RidesCounted'
  <2>1. CASE sem_up
    BY <1>3, <2>1, RidesCountedRide
  <2>2. CASE ~sem_up
    BY <1>1, <1>3, <2>2 DEF UpdateStats
  <2>3. QED
    BY <2>1, <2>2
<1>4. CASE ~\E i \in Visitors : RecordEntry(i) \/ UpdateStats(i)
  <2>1. UNCHANGED <<entries, rides_by_ticket>>
    BY <1>4, VisitSteps, MainFrame DEF VisitorStep, Enter, Sale, NoSale, RideAgain, Leave,
       Ride, Generate, statVars
  <2>2. QED
    BY <1>1, <2>1
<1>5. QED
  BY <1>2, <1>3, <1>4

\* Those who have a record, or are about to write it, and their families: all of
\* them were sold to.
Buyers == {i \in Visitors : entries[i].active \/ vpc[i] = "entry"}

BuyerPersons == {p \in Visitors \X (0..2) : p[1] \in Buyers /\ p[2] <= who[p[1]].kids}

AllSoldTo == Cardinality(BuyerPersons) <= total_tourists

LEMMA BuyersFinite == IsFiniteSet(BuyerPersons) /\ Cardinality(BuyerPersons) \in Nat
<1>1. IsFiniteSet(Visitors)
  BY VisitAssumption
<1>2. IsFiniteSet(0..2)
  <2>1. 0 \in Int /\ 2 \in Int
    OBVIOUS
  <2>2. QED
    BY <2>1, FS_Interval, Zenon
<1>3. IsFiniteSet(Visitors \X (0..2))
  BY <1>1, <1>2, FS_Product
<1>4. BuyerPersons \in SUBSET (Visitors \X (0..2))
  BY DEF BuyerPersons
<1>5. IsFiniteSet(BuyerPersons)
  BY <1>3, <1>4, FS_Subset
<1>6. QED
  BY <1>5, FS_CardinalityType

LEMMA BuyersFiniteNext == (IsFiniteSet(BuyerPersons) /\ Cardinality(BuyerPersons) \in Nat)'
BY BuyersFinite, PTL

LEMMA AllSoldToNext ==
  ASSUME TypeOK, Recorded, NotYetSent, AllSoldTo, [Next]_vars
  PROVE  AllSoldTo'
<1>1. ASSUME UNCHANGED total_tourists, Buyers' \subseteq Buyers,
             \A i \in Buyers : who'[i] = who[i]
      PROVE  AllSoldTo'
  <2>1. BuyerPersons' \subseteq BuyerPersons
    BY <1>1 DEF BuyerPersons
  <2>2. Cardinality(BuyerPersons') <= Cardinality(BuyerPersons)
    BY <2>1, BuyersFinite, FS_Subset
  <2>3. total_tourists \in Nat
    BY DEF TypeOK
  <2>4. QED
    BY <1>1, <2>2, <2>3, BuyersFinite, BuyersFiniteNext DEF AllSoldTo
<1>2. ASSUME NEW i \in Visitors, Sale(i)
      PROVE  AllSoldTo'
  <2>1. /\ UNCHANGED <<who, entries>> /\ vpc[i] = "desk"
        /\ \A j \in Visitors : j # i => vpc'[j] = vpc[j]
        /\ who[i].kids \in 0..2 /\ total_tourists' = total_tourists + (1 + who[i].kids)
    BY <1>2 DEF Sale, CountSale, Persons, VMove, TypeOK, Visitor
  <2>2. Buyers' \subseteq Buyers \cup {i}
    BY <2>1 DEF Buyers
  <2>3. BuyerPersons' \subseteq BuyerPersons \cup Members(i, who[i].kids)
    BY <2>1, <2>2 DEF BuyerPersons, Members
  <2>4. BuyerPersons \cap Members(i, who[i].kids) = {}
    <3>1. i \notin Buyers
      BY <2>1 DEF Buyers, Recorded
    <3>2. QED
      BY <3>1 DEF BuyerPersons, Members
  <2>5. /\ IsFiniteSet(Members(i, who[i].kids))
        /\ Cardinality(Members(i, who[i].kids)) = 1 + who[i].kids
    BY <2>1, MembersCount
  <2>6. /\ IsFiniteSet(BuyerPersons \cup Members(i, who[i].kids))
        /\ Cardinality(BuyerPersons \cup Members(i, who[i].kids))
             = Cardinality(BuyerPersons) + (1 + who[i].kids)
    BY <2>4, <2>5, BuyersFinite, DisjointUnion
  <2>7. Cardinality(BuyerPersons') <= Cardinality(BuyerPersons) + (1 + who[i].kids)
    BY <2>3, <2>6, FS_Subset
  <2>8. total_tourists \in Nat
    BY DEF TypeOK
  <2>9. QED
    BY <2>1, <2>7, <2>8, BuyersFinite, BuyersFiniteNext DEF AllSoldTo
<1>3. CASE Generate
  <2>1. UNCHANGED <<entries, total_tourists>> /\ spawned' = spawned + 1 /\ spawned' \in Visitors
    BY <1>3 DEF Generate, statVars
  <2>2. spawned \in Nat
    BY VisitAssumption, FS_CardinalityType DEF TypeOK
  <2>3. spawned' \notin Buyers
    BY <2>1, <2>2 DEF NotYetSent, Buyers
  <2>4. \A i \in Visitors : /\ i # spawned' => who'[i] = who[i] /\ vpc'[i] = vpc[i]
                            /\ i = spawned' => vpc'[i] # "entry"
    BY <1>3, <2>1, <2>3 DEF Generate, TypeOK, Buyers
  <2>5. Buyers' \subseteq Buyers /\ \A i \in Buyers : who'[i] = who[i]
    BY <2>1, <2>3, <2>4 DEF Buyers
  <2>6. QED
    BY <1>1, <2>1, <2>5
<1>4. CASE MainStep \/ UNCHANGED vars
  <2>1. UNCHANGED <<who, vpc, entries, total_tourists>>
    BY <1>4, MainFrame DEF visitVars, statVars
  <2>2. QED
    BY <1>1, <2>1 DEF Buyers
<1>5. ASSUME NEW i \in Visitors, VisitorStep(i), ~Sale(i)
      PROVE  AllSoldTo'
  <2>1. UNCHANGED <<who, total_tourists>> /\ \A j \in Visitors : j # i => vpc'[j] = vpc[j]
    <3>1. UNCHANGED total_tourists
      BY <1>5 DEF VisitorStep, Enter, NoSale, RecordEntry, RideAgain, Leave, Ride, UpdateStats,
         statVars
    <3>2. QED
      BY <1>5, <3>1, VisitorFrame DEF TypeOK
  <2>2. \A j \in Visitors : entries'[j].active => entries[j].active \/ (j = i /\ RecordEntry(i))
    <3>1. CASE RecordEntry(i)
      <4>1. \A j \in Visitors : j # i => entries'[j] = entries[j]
        BY <3>1 DEF RecordEntry, TypeOK
      <4>2. QED
        BY <3>1, <4>1, Zenon
    <3>2. CASE UpdateStats(i)
      <4>1. /\ \A j \in Visitors : j # i => entries'[j] = entries[j]
            /\ entries'[i].active = entries[i].active
        BY <3>2 DEF UpdateStats, TypeOK, Entry
      <4>2. ASSUME NEW j \in Visitors, entries'[j].active PROVE entries[j].active
        <5>1. CASE j = i
          BY <4>1, <4>2, <5>1, Zenon
        <5>2. CASE j # i
          BY <4>1, <4>2, <5>2, Zenon
        <5>3. QED
          BY <5>1, <5>2
      <4>3. QED
        BY <4>2, Zenon
    <3>3. CASE ~RecordEntry(i) /\ ~UpdateStats(i)
      <4>1. UNCHANGED entries
        BY <1>5, <3>3 DEF VisitorStep, Enter, NoSale, RideAgain, Leave, Ride, statVars
      <4>2. QED
        BY <4>1, Zenon
    <3>4. QED
      BY <3>1, <3>2, <3>3, Zenon
  <2>3. vpc'[i] # "entry" /\ (RecordEntry(i) => vpc[i] = "entry")
    BY <1>5 DEF VisitorStep, Enter, NoSale, RecordEntry, RideAgain, Leave, Ride, UpdateStats,
       VMove, TypeOK
  <2>4. Buyers' \subseteq Buyers
    BY <2>1, <2>2, <2>3 DEF Buyers
  <2>5. QED
    BY <1>1, <2>1, <2>4
<1>6. QED
  BY <1>2, <1>3, <1>4, <1>5, VisitSteps

\* What the statistics say at any moment of a visit.
StatsInv ==
  /\ TypeOK /\ NotYetSent /\ Recorded /\ ReportLast /\ Totals /\ RidesCounted /\ AllSoldTo

LEMMA StatsInit == Init => StatsInv
<1> SUFFICES ASSUME Init PROVE StatsInv
  OBVIOUS
<1>1. TypeOK /\ NotYetSent /\ Recorded
  BY VisitInit, NotYetSentInit, RecordedInit
<1>2. ReportLast
  BY DEF Init, ReportLast, NoReport
<1>3. Totals
  BY DEF Init, Totals, OfAllTypes, TicketTypes
<1>4. \A i \in Visitors : ~entries[i].active /\ vpc[i] = "none"
  BY DEF Init, NoEntry
<1>5. RidesCounted
  <2>1. \A k : Records(k) = {}
    BY <1>4 DEF Records
  <2>2. \A k : RecordedRides(k) = {}
    BY <2>1 DEF RecordedRides
  <2>3. \A k \in TicketTypes : rides_by_ticket[k] = 0
    BY DEF Init
  <2>4. QED
    BY <2>2, <2>3, FS_EmptySet DEF RidesCounted
<1>6. AllSoldTo
  <2>1. BuyerPersons = {}
    BY <1>4 DEF BuyerPersons, Buyers
  <2>2. Cardinality(BuyerPersons) = 0
    BY <2>1, FS_EmptySet
  <2>3. QED
    BY <2>2 DEF Init, AllSoldTo
<1>7. QED
  BY <1>1, <1>2, <1>3, <1>5, <1>6 DEF StatsInv

\* The inductive invariant of the statistics: records agree with the arguments of
\* the tourists, aggregates with the records, totals with the aggregates
\* (stats.c, cashier.c, report.c).
THEOREM StatsInvariant == Spec => []StatsInv
<1>1. StatsInv /\ [Next]_vars => StatsInv'
  BY TypeNext, NotYetSentNext, RecordedNext, ReportLastNext, TotalsNext, RidesCountedNext,
     AllSoldToNext DEF StatsInv
<1>2. QED
  BY <1>1, StatsInit, PTL DEF Spec

\* The final report adds up for any number of tourists, whenever the shutdown came:
\* the rides of the rows are the aggregates, the aggregates the totals, and no row
\* stands for people not sold to (report.c, stats.c).
THEOREM ReportAddsUpHolds == Spec => []ReportAddsUp
<1>1. StatsInv => ReportAddsUp
  <2> SUFFICES ASSUME StatsInv, report.written PROVE ReportAddsUp
    BY DEF ReportAddsUp
  <2>1. report.rows = {i \in Visitors : entries[i].active}
    BY DEF StatsInv, ReportLast
  <2>2. \A k : {j \in report.rows : entries[j].ticket = k} = Records(k)
    BY <2>1 DEF Records
  <2>3. \A k : RowRides(k) = RecordedRides(k)
    BY <2>2 DEF RowRides, RecordedRides
  <2>4. \A k \in TicketTypes : rides_by_ticket[k] = Cardinality(RowRides(k))
    BY <2>3 DEF StatsInv, RidesCounted
  <2>5. RowPersons \subseteq BuyerPersons
    <3>1. \A i \in report.rows : i \in Buyers /\ entries[i].kids = who[i].kids
      BY <2>1 DEF StatsInv, Recorded, Buyers
    <3>2. \A i \in Visitors : who[i].kids \in 0..2
      BY DEF StatsInv, TypeOK, Visitor
    <3>3. \A i \in report.rows : i \in Visitors
      BY <2>1
    <3>4. \A i \in report.rows : Family(i) \subseteq BuyerPersons
      BY <3>1, <3>2, <3>3 DEF Family, BuyerPersons
    <3>5. QED
      BY <3>4 DEF RowPersons
  <2>6. IsFiniteSet(RowPersons) /\ Cardinality(RowPersons) <= Cardinality(BuyerPersons)
    BY <2>5, BuyersFinite, FS_Subset
  <2>7. total_tourists \in Nat /\ Cardinality(RowPersons) \in Nat
    BY <2>6, FS_CardinalityType DEF StatsInv, TypeOK
  <2>8. total_tourists >= Cardinality(RowPersons)
    BY <2>6, <2>7, BuyersFinite DEF StatsInv, AllSoldTo
  <2>9. QED
    BY <2>4, <2>8 DEF ReportAddsUp, StatsInv, Totals
<1>2. QED
  BY <1>1, StatsInvariant, PTL
=============================================================================
