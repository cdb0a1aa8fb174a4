------------------------------- MODULE Visit -------------------------------
(***************************************************************************)
(* A visit as the configuration, the ticket desk and the final report see  *)
(* it: config_validate and the creation of the station semaphore, the      *)
(* attributes the generator draws and tourist_parse_args checks, prices    *)
(* and validity of tickets, the statistics under SEM_STATS and the report. *)
(* Queues and gates are left to Cashier and Ropeway; here a purchase and a *)
(* ride are one step each, which the shutdown may cut short.               *)
(***************************************************************************)
EXTENDS Integers, Sequences, SequencesExt

CONSTANTS
  Visitors,      \* bound: tourist_ids the generator gets to
  Files,         \* the configuration files, sequences of lines
  Ages,          \* bound: the ages the generator draws
  Tickets,       \* bound: the ticket types it draws
  MaxRides,      \* bound: rides per tourist
  MaxNow         \* bound: simulated minutes since midnight

TicketTypes == {"SINGLE", "T1", "T2", "T3", "DAILY"}

\* config_set_defaults, without the times of the trails and the debug output.
Defaults ==
  [station_capacity |-> 50, simulation_duration_real |-> 120,
   sim_start_hour |-> 8, sim_start_minute |-> 0, sim_end_hour |-> 17, sim_end_minute |-> 0,
   chair_travel_time_sim |-> 5, total_tourists |-> 100, tourist_spawn_delay_us |-> 200000,
   vip_percentage |-> 1, walker_percentage |-> 50, family_percentage |-> 40,
   ticket_t1_duration |-> 60, ticket_t2_duration |-> 120, ticket_t3_duration |-> 180,
   danger_probability |-> 0, danger_duration_sim |-> 30, scared_enabled |-> 1]

Line == [key : STRING, value : Int]

ASSUME VisitAssumption ==
  /\ IsFiniteSet(Visitors) /\ Visitors = 1..Cardinality(Visitors)
  /\ Files \subseteq Seq(Line)
  /\ Ages \subseteq 8..80
  /\ Tickets \subseteq TicketTypes
  /\ MaxRides \in Nat /\ MaxNow \in Nat

VARIABLES
  cfg,                 \* the configuration
  phase,               \* main: "config", "failed", "open", "stopping", "done"
  places,              \* initial value of SEM_LOWER_STATION
  now,                 \* time_get_sim_minutes
  closing,
  sem_up,              \* the semaphore set exists
  spawned,             \* tourist_id of the generator's loop
  who,                 \* id -> the arguments of the tourist process
  vpc,                 \* id -> where the visit is
  paid,                \* id -> price of the sale
  valid_until,         \* id -> ticket_valid_until
  rides,               \* id -> rides_completed
  total_tourists, tourists_by_ticket, total_rides, rides_by_ticket,
  entries,             \* tourist_entries, 0 rides and inactive at first
  entry_count,         \* tourist_entry_count
  report               \* the rows and totals written to the file

mainVars  == <<cfg, phase, places, now, closing, sem_up>>
visitVars == <<spawned, who, vpc, paid, valid_until, rides>>
statVars  == <<total_tourists, tourists_by_ticket, total_rides, rides_by_ticket,
               entries, entry_count>>
vars == <<mainVars, visitVars, statVars, report>>

Nobody == [age |-> 0, type |-> "WALKER", vip |-> FALSE, kids |-> 0, ticket |-> "SINGLE"]

NoEntry == [active |-> FALSE, ticket |-> "SINGLE", kids |-> 0, rides |-> 0]

NoReport == [written |-> FALSE, rows |-> {}]

Persons(i) == 1 + who[i].kids

\* The lines of the file for a key; a line without a known key is for none (and
\* gets a warning).
LinesFor(file, key) == {i \in DOMAIN file : file[i].key = key}

\* config_load: the last line with a key counts.
Loaded(file) ==
  [key \in DOMAIN Defaults |->
     IF LinesFor(file, key) = {} THEN Defaults[key] ELSE file[Max(LinesFor(file, key))].value]

Init ==
  /\ cfg \in {Loaded(file) : file \in Files} /\ phase = "config" /\ places = 0
  /\ now = 0 /\ closing = FALSE /\ sem_up = FALSE
  /\ spawned = 0
  /\ who = [i \in Visitors |-> Nobody] /\ vpc = [i \in Visitors |-> "none"]
  /\ paid = [i \in Visitors |-> 0] /\ valid_until = [i \in Visitors |-> 0]
  /\ rides = [i \in Visitors |-> 0]
  /\ total_tourists = 0 /\ tourists_by_ticket = [k \in TicketTypes |-> 0]
  /\ total_rides = 0 /\ rides_by_ticket = [k \in TicketTypes |-> 0]
  /\ entries = [i \in Visitors |-> NoEntry] /\ entry_count = 0
  /\ report = NoReport
-----------------------------------------------------------------------------
(* Starting up. *)

SimStart == cfg.sim_start_hour * 60 + cfg.sim_start_minute

SimEnd == cfg.sim_end_hour * 60 + cfg.sim_end_minute

InRange(keys, lo, hi) == \A k \in keys : cfg[k] \in lo..hi

TimesValid ==
  /\ InRange({"sim_start_hour", "sim_end_hour"}, 0, 23)
  /\ InRange({"sim_start_minute", "sim_end_minute"}, 0, 59)
  /\ SimStart < SimEnd
  /\ cfg.simulation_duration_real > 0 /\ cfg.chair_travel_time_sim > 0
  /\ cfg.tourist_spawn_delay_us >= 0 /\ cfg.danger_duration_sim >= 0

PercentagesValid ==
  InRange({"vip_percentage", "walker_percentage", "family_percentage", "danger_probability"},
          0, 100)

\* Mutant of ConfigValid: any capacity will do.
ConfigValidAnyCapacity == cfg.total_tourists > 0 /\ TimesValid /\ PercentagesValid

\* config_validate.  The durations of the tickets are not looked at.
ConfigValid ==
  cfg.station_capacity > 0 /\ cfg.total_tourists > 0 /\ TimesValid /\ PercentagesValid

SEMVMX == 32767

\* sem_values[SEM_LOWER_STATION] is an unsigned short.
StoredCapacity == cfg.station_capacity % 65536

\* main up to the first fork: the configuration is checked, the semaphore set is
\* created (SETALL refuses values above SEMVMX) and time_init sets the clock.
StartUp ==
  /\ phase = "config"
  /\ IF ConfigValid /\ StoredCapacity <= SEMVMX
     THEN /\ phase' = "open" /\ sem_up' = TRUE
          /\ places' = StoredCapacity /\ now' = SimStart
     ELSE phase' = "failed" /\ UNCHANGED <<sem_up, places, now>>
  /\ UNCHANGED <<cfg, closing, visitVars, statVars, report>>
-----------------------------------------------------------------------------
(* The generator and tourist_parse_args. *)

\* The outcomes of (rand() % 100) < p.
Chance(p) == {b \in BOOLEAN : IF b THEN p > 0 ELSE p < 100}

\* Mutant of MayBringKids: no look at the age.
MayBringAnyKids(age, type) == type = "WALKER"

\* generate_age's can_have_kids and the test in the loop.
MayBringKids(age, type) == type = "WALKER" /\ age >= 26

\* What the generator's draws can give.
Draws ==
  {d \in [age : Ages, type : {"WALKER", "CYCLIST", "FAMILY"}, vip : Chance(cfg.vip_percentage),
          kids : 0..2, ticket : Tickets] :
     IF d.type = "CYCLIST" THEN d.kids = 0 /\ FALSE \in Chance(cfg.walker_percentage)
     ELSE /\ TRUE \in Chance(cfg.walker_percentage)
          /\ IF d.type = "FAMILY"
             THEN MayBringKids(d.age, "WALKER") /\ TRUE \in Chance(cfg.family_percentage) /\ d.kids > 0
             ELSE d.kids = 0 /\ (MayBringKids(d.age, "WALKER") => FALSE \in Chance(cfg.family_percentage))}

\* One round of the generator's loop; fork may fail, and the id is used up.
Generate ==
  /\ phase = "open" /\ ~closing
  /\ spawned < cfg.total_tourists /\ spawned + 1 \in Visitors
  /\ spawned' = spawned + 1
  /\ \/ \E d \in Draws :
          /\ who' = [who EXCEPT ![spawned'] = d]
          /\ vpc' = [vpc EXCEPT ![spawned'] = "exec"]
     \/ UNCHANGED <<who, vpc>>
  /\ UNCHANGED <<mainVars, paid, valid_until, rides, statVars, report>>

MaxKidsPerAdult == 2

ArgsAccepted(d) ==
  d.kids > 0 => d.type = "FAMILY" /\ d.age >= 26 /\ d.kids <= MaxKidsPerAdult

ChairSlots(d) == (IF d.type = "CYCLIST" THEN 2 ELSE 1) + d.kids

VMove(i, from, to) == vpc[i] = from /\ vpc' = [vpc EXCEPT ![i] = to]

\* A kid or a bike needs a thread, and pthread_create may fail.
MayFailToStart(i) ==
  ~ArgsAccepted(who[i]) \/ ~sem_up \/ who[i].kids > 0 \/ who[i].type = "CYCLIST"

\* The tourist process starts: bad arguments, IPC objects that are gone or a
\* thread that cannot be created end it.
Enter(i) ==
  /\ \/ ArgsAccepted(who[i]) /\ sem_up /\ VMove(i, "exec", "desk")
     \/ MayFailToStart(i) /\ VMove(i, "exec", "gone")
  /\ UNCHANGED <<mainVars, spawned, who, paid, valid_until, rides, statVars, report>>
-----------------------------------------------------------------------------
(* The desk. *)

BasePrice == [k \in TicketTypes |-> CASE k = "SINGLE" -> 15 [] k = "T1" -> 30
                                      [] k = "T2" -> 50 [] k = "T3" -> 70
                                      [] k = "DAILY" -> 80]

\* Mutant of Discounted: the division comes first.
DiscountedEarly(price, age) ==
  IF age < 10 \/ age >= 65 THEN (price \div 100) * 75 ELSE price

Discounted(price, age) ==
  IF age < 10 \/ age >= 65 THEN (price * 75) \div 100 ELSE price

\* calculate_price
Price(age, ticket, vip) ==
  Discounted(BasePrice[ticket] + (IF vip THEN 50 ELSE 0), age)

\* calculate_family_price: the kids are priced as five-year-olds, never as VIPs.
FamilyPrice(d) == Price(d.age, d.ticket, d.vip) + d.kids * Price(5, d.ticket, FALSE)

Duration(ticket) == CASE ticket = "T1" -> cfg.ticket_t1_duration
                      [] ticket = "T2" -> cfg.ticket_t2_duration
                      [] ticket = "T3" -> cfg.ticket_t3_duration

\* calculate_ticket_validity: a time ticket may last past the end of the day.
Validity(ticket) ==
  IF ticket \in {"SINGLE", "DAILY"} THEN SimEnd ELSE now + Duration(ticket)

\* Mutant of CountSale: the kids are not counted.
CountSaleParentOnly(i) ==
  /\ total_tourists' = total_tourists + 1
  /\ tourists_by_ticket' = [tourists_by_ticket EXCEPT ![who[i].ticket] = @ + 1]

CountSale(i) ==
  /\ total_tourists' = total_tourists + Persons(i)
  /\ tourists_by_ticket' = [tourists_by_ticket EXCEPT ![who[i].ticket] = @ + Persons(i)]

\* A sale: priced, counted under SEM_STATS, answered.  In a shutdown the answer
\* may be lost after the sale has been counted, and the tourist leaves.
Sale(i) ==
  /\ sem_up /\ ~closing
  /\ VMove(i, "desk", "entry") \/ (phase = "stopping" /\ VMove(i, "desk", "gone"))
  /\ CountSale(i)
  /\ paid' = [paid EXCEPT ![i] = FamilyPrice(who[i])]
  /\ valid_until' = [valid_until EXCEPT ![i] = Validity(who[i].ticket)]
  /\ UNCHANGED <<mainVars, spawned, who, rides, total_rides, rides_by_ticket,
                 entries, entry_count, report>>

\* The station is closing, or the shutdown ends the purchase.
NoSale(i) ==
  /\ closing \/ phase # "open"
  /\ VMove(i, "desk", "gone")
  /\ UNCHANGED <<mainVars, spawned, who, paid, valid_until, rides, statVars, report>>

\* Mutant of EntryCount: the index of the last entry instead of their number.
EntryCountShort(i) == IF i - 1 > entry_count THEN i - 1 ELSE entry_count

\* tourist_entry_count after the entry of tourist i.
EntryCount(i) == IF i - 1 >= entry_count THEN i ELSE entry_count

\* tourist_record_entry; without semaphores nothing is recorded.
RecordEntry(i) ==
  /\ VMove(i, "entry", "head")
  /\ IF sem_up /\ i <= cfg.total_tourists
     THEN /\ entries' = [entries EXCEPT ![i] =
               [active |-> TRUE, ticket |-> who[i].ticket, kids |-> who[i].kids, rides |-> 0]]
          /\ entry_count' = EntryCount(i)
     ELSE UNCHANGED <<entries, entry_count>>
  /\ UNCHANGED <<mainVars, spawned, who, paid, valid_until, rides, total_tourists,
                 tourists_by_ticket, total_rides, rides_by_ticket, report>>
-----------------------------------------------------------------------------
(* Riding. *)

\* Mutant of TicketValid: a single ticket expires as well.
TicketValidInTime(i) ==
  (who[i].ticket = "SINGLE" => rides[i] = 0) /\ now < valid_until[i]

\* tourist_is_ticket_valid
TicketValid(i) ==
  IF who[i].ticket = "SINGLE" THEN rides[i] = 0 ELSE now < valid_until[i]

\* Loop head: another ride, or the visit is over.
RideAgain(i) ==
  /\ phase = "open" /\ TicketValid(i) /\ ~closing /\ rides[i] < MaxRides
  /\ VMove(i, "head", "ride")
  /\ UNCHANGED <<mainVars, spawned, who, paid, valid_until, rides, statVars, report>>

Leave(i) ==
  /\ phase # "open" \/ ~TicketValid(i) \/ closing
  /\ VMove(i, "head", "gone")
  /\ UNCHANGED <<mainVars, spawned, who, paid, valid_until, rides, statVars, report>>

\* tourist_is_too_scared
MayBeScared(i) == cfg.scared_enabled # 0 /\ rides[i] <= 1

\* Up and down the trail; too scared on one of the first two rides, or cut short
\* by the shutdown, the tourist leaves without the ride being counted.
Ride(i) ==
  /\ \/ phase = "open" /\ VMove(i, "ride", "down")
     \/ (phase # "open" \/ MayBeScared(i)) /\ VMove(i, "ride", "gone")
  /\ UNCHANGED <<mainVars, spawned, who, paid, valid_until, rides, statVars, report>>

\* tourist_update_stats and the end of the loop's body.
UpdateStats(i) ==
  /\ VMove(i, "down", IF who[i].ticket = "SINGLE" THEN "gone" ELSE "head")
  /\ rides' = [rides EXCEPT ![i] = @ + 1]
  /\ IF sem_up
     THEN /\ total_rides' = total_rides + Persons(i)
          /\ rides_by_ticket' = [rides_by_ticket EXCEPT ![who[i].ticket] = @ + Persons(i)]
          /\ entries' = IF i <= cfg.total_tourists
                        THEN [entries EXCEPT ![i].rides = @ + 1] ELSE entries
     ELSE UNCHANGED <<total_rides, rides_by_ticket, entries>>
  /\ UNCHANGED <<mainVars, spawned, who, paid, valid_until, total_tourists,
                 tourists_by_ticket, entry_count, report>>
-----------------------------------------------------------------------------
(* The day. *)

MinutePasses ==
  /\ phase \in {"open", "stopping"} /\ now < MaxNow
  /\ now' = now + 1
  /\ UNCHANGED <<cfg, phase, places, closing, sem_up, visitVars, statVars, report>>

\* main finds the day over, some time after it is.
EndOfDay ==
  /\ phase = "open" /\ now >= SimEnd /\ ~closing
  /\ closing' = TRUE
  /\ UNCHANGED <<cfg, phase, places, now, sem_up, visitVars, statVars, report>>

\* The shutdown begins: running = 0 at the end of the day, or main's handler for
\* SIGINT and SIGTERM.  From here on nobody is sure to finish what it began; who
\* is still sent by the generator finds no IPC objects.
StopRunning ==
  /\ phase = "open" /\ phase' = "stopping"
  /\ UNCHANGED <<cfg, places, now, closing, sem_up, visitVars, statVars, report>>

RemoveSemaphores ==
  /\ phase = "stopping" /\ sem_up /\ sem_up' = FALSE
  /\ UNCHANGED <<cfg, phase, places, now, closing, visitVars, statVars, report>>

\* write_report_to_file, when every child is gone.
WriteReport ==
  /\ phase = "stopping" /\ ~sem_up
  /\ \A i \in Visitors : vpc[i] \in {"none", "gone"}
  /\ phase' = "done"
  /\ report' = [written |-> TRUE,
                rows |-> {i \in Visitors : /\ i <= entry_count /\ i <= cfg.total_tourists
                                           /\ entries[i].active}]
  /\ UNCHANGED <<cfg, places, now, closing, sem_up, visitVars, statVars>>

Next ==
  \/ StartUp \/ Generate \/ MinutePasses \/ EndOfDay \/ StopRunning
  \/ RemoveSemaphores \/ WriteReport
  \/ \E i \in Visitors :
       \/ Enter(i) \/ Sale(i) \/ NoSale(i) \/ RecordEntry(i)
       \/ RideAgain(i) \/ Leave(i) \/ Ride(i) \/ UpdateStats(i)

Spec == Init /\ [][Next]_vars
-----------------------------------------------------------------------------
(* Properties. *)

VisitPCs == {"none", "exec", "desk", "entry", "head", "ride", "down", "gone"}

Visitor ==
  [age : 0..80, type : {"WALKER", "CYCLIST", "FAMILY"}, vip : BOOLEAN, kids : 0..2,
   ticket : TicketTypes]

Entry == [active : BOOLEAN, ticket : TicketTypes, kids : 0..2, rides : Nat]

\* Every variable holds a value of its type.  The time a ticket is valid until may be
\* negative, as no lower bound on the durations is checked.
TypeOK ==
  /\ cfg \in [DOMAIN Defaults -> Int] /\ phase \in {"config", "failed", "open", "stopping", "done"}
  /\ places \in 0..SEMVMX /\ now \in Nat /\ closing \in BOOLEAN /\ sem_up \in BOOLEAN
  /\ spawned \in {0} \cup Visitors
  /\ who \in [Visitors -> Visitor] /\ vpc \in [Visitors -> VisitPCs]
  /\ paid \in [Visitors -> Nat] /\ valid_until \in [Visitors -> Int] /\ rides \in [Visitors -> Nat]
  /\ total_tourists \in Nat /\ tourists_by_ticket \in [TicketTypes -> Nat]
  /\ total_rides \in Nat /\ rides_by_ticket \in [TicketTypes -> Nat]
  /\ entries \in [Visitors -> Entry] /\ entry_count \in {0} \cup Visitors
  /\ report \in [written : BOOLEAN, rows : SUBSET Visitors]

\* Whatever the configuration, everybody the generator sends is accepted by
\* tourist_parse_args and fits on an empty chair: a family of more than
\* CHAIR_CAPACITY slots would block the lower platform for ever.
EverybodyFits ==
  \A i \in Visitors :
    vpc[i] # "none" => ArgsAccepted(who[i]) /\ ChairSlots(who[i]) <= 4

\* The semaphore never admits more people than the configuration says, although
\* its value is cut to 16 bits.
CapacityRespected == phase = "open" => places <= cfg.station_capacity

\* The integer arithmetic takes a quarter off for the young and the old and
\* nothing off for others, rounded in the customer's favour by less than one PLN
\* per person, and kids pay no VIP surcharge.
PricesExact ==
  \A i \in Visitors :
    paid[i] > 0 =>
      LET base    == BasePrice[who[i].ticket]
          parent  == base + (IF who[i].vip THEN 50 ELSE 0)
          quarters == (IF who[i].age \in 10..64 THEN 4 ELSE 3) * parent
                      + 3 * base * who[i].kids
      IN  quarters - 4 * paid[i] \in 0 .. 4 * Persons(i) - 1

\* Every single ticket sold is good for one ride of one person, and rides are
\* only counted for tickets that were: also for families, and at any moment.
TicketsCoverRides ==
  /\ rides_by_ticket["SINGLE"] <= tourists_by_ticket["SINGLE"]
  /\ \A k \in TicketTypes : rides_by_ticket[k] > 0 => tourists_by_ticket[k] > 0

\* Nobody is sent home with an unused ticket while the station is open and rides,
\* where nobody is too scared to ride: only a time ticket that has expired is lost.
\* A single ticket stays good even after the end of the day, until main has noticed
\* it (tourist_is_ticket_valid, tourist/main.c, cashier.c:47).
UnusedMeansExpired ==
  \A i \in Visitors :
    /\ vpc[i] = "gone" /\ paid[i] > 0 /\ rides[i] = 0
    /\ phase = "open" /\ ~closing /\ cfg.scared_enabled = 0
    => who[i].ticket # "SINGLE" /\ now >= valid_until[i]

\* Everybody a record stands for.
Family(i) == {i} \X (0..entries[i].kids)

RowPersons == UNION {Family(i) : i \in report.rows}

\* The rides of everybody with a ticket of type k.
RowRides(k) ==
  UNION {Family(i) \X (1..entries[i].rides) : i \in {j \in report.rows : entries[j].ticket = k}}

OfAllTypes(f) == f["SINGLE"] + f["T1"] + f["T2"] + f["T3"] + f["DAILY"]

\* The report adds up, whenever the shutdown came: for every ticket type the
\* rides of the rows, counted for every member of a family, are the aggregate,
\* the aggregates are the totals, and no row stands for people not sold to.
ReportAddsUp ==
  report.written =>
    /\ \A k \in TicketTypes : rides_by_ticket[k] = Cardinality(RowRides(k))
    /\ total_rides = OfAllTypes(rides_by_ticket)
    /\ total_tourists = OfAllTypes(tourists_by_ticket)
    /\ total_tourists >= Cardinality(RowPersons)
=============================================================================
