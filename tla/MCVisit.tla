------------------------------ MODULE MCVisit ------------------------------
(* An instance of Visit for TLC. *)
EXTENDS Visit

Set(key, value) == <<[key |-> key, value |-> value]>>

\* A day of one minute, 8:58 to 8:59, and time tickets for a minute.
Day == Set("ticket_t1_duration", 1) \o Set("sim_start_minute", 58)
       \o Set("sim_end_hour", 8) \o Set("sim_end_minute", 59)

One == Day \o Set("total_tourists", 1)

\* No VIPs and no cyclists.
Two == Day \o Set("vip_percentage", 0) \o Set("walker_percentage", 100)

AllFamilies == Set("vip_percentage", 100) \o Set("walker_percentage", 100)
               \o Set("family_percentage", 100)

\* The defaults but for the length of the day, walkers and families, percentages
\* at their limits, a line that says nothing, a key given twice, capacities that
\* do not fit into the semaphore, and files that config_validate refuses.
SmallFiles ==
  {One, Two, One \o Set("ticket_t1_duration", 0) \o Set("scared_enabled", 0),
   One \o AllFamilies, One \o Set("walker_percentage", 0) \o Set("colour", 1),
   Set("station_capacity", 0) \o One \o Set("station_capacity", 65539),
   One \o Set("station_capacity", 32768), One \o Set("station_capacity", -65533),
   Day \o Set("total_tourists", 0), One \o Set("chair_travel_time_sim", 0),
   One \o Set("danger_probability", 101), One \o Set("danger_duration_sim", -1),
   One \o Set("tourist_spawn_delay_us", -1), One \o Set("simulation_duration_real", 0),
   One \o Set("walker_percentage", 101),
   One \o Set("sim_end_minute", 58), One \o Set("sim_end_hour", 24)}
=============================================================================
