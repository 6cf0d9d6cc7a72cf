----------------------------- MODULE Bandwidth -----------------------------
(***************************************************************************)
(* bandwidth.py with the downloads it meters (replication.py, the end of   *)
(* sync_site).                                                             *)
(*                                                                         *)
(* Meters are the processes that share one bandwidth.json: the daemon and  *)
(* `pijn sync`.  Each reads the file once, when it starts, and keeps the   *)
(* counters in memory; record() writes them all back.  Within a process    *)
(* one download follows another, but a download is awaited between allow() *)
(* and record(), so another process runs, and the day may change, in       *)
(* between.  Opening the file to write it empties it first, and what the   *)
(* write raises is swallowed.                                              *)
(***************************************************************************)
EXTENDS Budget, FiniteSetsExt

CONSTANTS
    Meters,
    Killable,       \* the processes that may be killed while they write the file
    Sizes,          \* of the blobs there are to download
    Tolds,          \* what HEAD may tell of any of them; 0: it tells no size
    MaxDate,        \* bound: the last day
    MaxBytes        \* bound: the bytes received in all

ASSUME BandwidthAssumption ==
    /\ Killable \subseteq Meters
    /\ Sizes \subseteq Nat \ {0}
    /\ Tolds \subseteq Nat
    /\ MaxDate \in Nat

VARIABLES
    today,
    stored,         \* the counters in bandwidth.json, or Torn
    meter,          \* per process, self.state
    stage,          \* per process: "down", "idle", "fetching", "saving"
    told, size,     \* per process, of the blob it is downloading
    unsaved,        \* history: per process, its last counters are not in the file
    spent, spentIn, \* history: per date and per month, the bytes of the downloads
                    \* that succeeded
    beyond, beyondIn,   \* history: of these, the bytes no HEAD had told of
    received,       \* history: per date, the bytes of all downloads
    disturbed       \* history: the dates on which two processes ran, one was killed
                    \* in record(), or one ended with its counters not saved

meterVars == <<today, stored, meter, stage, told, size, unsaved, spent, spentIn,
               beyond, beyondIn, received, disturbed>>

history == <<spent, spentIn, beyond, beyondIn, received>>

(* No file, or one that does not parse: __init__ starts from zero. *)
Torn == NoCounts

Dates == 0..MaxDate
Months == {MonthOf(d) : d \in Dates}

MeterInit ==
    /\ today = 0
    /\ stored = Torn
    /\ meter = [p \in Meters |-> NoCounts]
    /\ stage = [p \in Meters |-> "down"]
    /\ told = [p \in Meters |-> 0]
    /\ size = [p \in Meters |-> 0]
    /\ unsaved = [p \in Meters |-> FALSE]
    /\ spent = [d \in Dates |-> 0]
    /\ spentIn = [m \in Months |-> 0]
    /\ beyond = [d \in Dates |-> 0]
    /\ beyondIn = [m \in Months |-> 0]
    /\ received = [d \in Dates |-> 0]
    /\ disturbed = {}

Moves(p, from, to) == stage[p] = from /\ stage' = [stage EXCEPT ![p] = to]

Total(bytes, S) == MapThenSumSet(LAMBDA d : bytes[d], S)

(* The process is done with its blob. *)
Drops(p) == told' = [told EXCEPT ![p] = 0] /\ size' = [size EXCEPT ![p] = 0]

(* __init__ *)
Start(p) ==
    /\ Moves(p, "down", "idle")
    /\ meter' = [meter EXCEPT ![p] = roll(stored, today)]
    /\ disturbed' = disturbed \cup {d \in {today} : \E q \in Meters \ {p} : stage[q] # "down"}
    /\ UNCHANGED <<today, stored, told, size, unsaved, history>>

(* allow(t), of the size HEAD told, rolls the counters; when it says no    *)
(* the blob is skipped.                                                    *)
Allow(p, t, n) ==
    /\ stage[p] = "idle"
    /\ t # 0
    /\ Total(received, Dates) + n =< MaxBytes
    /\ meter' = [meter EXCEPT ![p] = roll(@, today)]
    /\ \/ /\ Allows(meter'[p], t)
          /\ stage' = [stage EXCEPT ![p] = "fetching"]
          /\ told' = [told EXCEPT ![p] = t]
          /\ size' = [size EXCEPT ![p] = n]
       \/ /\ ~Allows(meter'[p], t)
          /\ UNCHANGED <<stage, told, size>>
    /\ UNCHANGED <<today, stored, unsaved, history, disturbed>>

(* No size: the meter is not asked. *)
FetchUnasked(p, n) ==
    /\ 0 \in Tolds
    /\ Moves(p, "idle", "fetching")
    /\ Total(received, Dates) + n =< MaxBytes
    /\ size' = [size EXCEPT ![p] = n]
    /\ UNCHANGED <<today, stored, meter, told, unsaved, history, disturbed>>

Unannounced(p) == IF told[p] >= size[p] THEN 0 ELSE size[p] - told[p]

(* The download is complete: record(len(data)), in memory. *)
Downloaded(p) ==
    /\ meter' = [meter EXCEPT ![p] = Recorded(roll(@, today), size[p])]
    /\ spent' = [spent EXCEPT ![today] = @ + size[p]]
    /\ spentIn' = [spentIn EXCEPT ![MonthOf(today)] = @ + size[p]]
    /\ beyond' = [beyond EXCEPT ![today] = @ + Unannounced(p)]
    /\ beyondIn' = [beyondIn EXCEPT ![MonthOf(today)] = @ + Unannounced(p)]
    /\ received' = [received EXCEPT ![today] = @ + size[p]]
    /\ UNCHANGED <<today, disturbed>>

(* record() up to the open(path, "w") *)
Fetched(p) ==
    /\ Moves(p, "fetching", "saving")
    /\ Downloaded(p)
    /\ stored' = Torn
    /\ UNCHANGED <<told, size, unsaved>>

(* The open raises: the file is as it was. *)
FetchedUnsaved(p) ==
    /\ Moves(p, "fetching", "idle")
    /\ Downloaded(p)
    /\ Drops(p)
    /\ unsaved' = [unsaved EXCEPT ![p] = TRUE]
    /\ UNCHANGED stored

(* json.dump, and the close *)
Save(p) ==
    /\ Moves(p, "saving", "idle")
    /\ stored' = meter[p]
    /\ Drops(p)
    /\ unsaved' = [unsaved EXCEPT ![p] = FALSE]
    /\ UNCHANGED <<today, meter, history, disturbed>>

(* They raise: the file stays empty or torn. *)
SaveFails(p) ==
    /\ Moves(p, "saving", "idle")
    /\ Drops(p)
    /\ unsaved' = [unsaved EXCEPT ![p] = TRUE]
    /\ UNCHANGED <<today, stored, meter, history, disturbed>>

(* The bytes came, but not all of them or not those of the hash. *)
FetchFails(p) ==
    /\ Moves(p, "fetching", "idle")
    /\ received' = [received EXCEPT ![today] = @ + size[p]]
    /\ Drops(p)
    /\ UNCHANGED <<today, stored, meter, unsaved, spent, spentIn, beyond, beyondIn, disturbed>>

(* The process ends, not in record(). *)
Stop(p) ==
    /\ stage[p] \in {"idle", "fetching"}
    /\ stage' = [stage EXCEPT ![p] = "down"]
    /\ Drops(p)
    /\ unsaved' = [unsaved EXCEPT ![p] = FALSE]
    /\ disturbed' = disturbed \cup {d \in {today} : unsaved[p]}
    /\ UNCHANGED <<today, stored, meter, history>>

(* The process is killed in record(). *)
Kill(p) ==
    /\ p \in Killable
    /\ Moves(p, "saving", "down")
    /\ Drops(p)
    /\ unsaved' = [unsaved EXCEPT ![p] = FALSE]
    /\ disturbed' = disturbed \cup {today}
    /\ UNCHANGED <<today, stored, meter, history>>

NextDay ==
    /\ today < MaxDate
    /\ today' = today + 1
    /\ disturbed' = disturbed \cup {d \in {today'} : \E p, q \in Meters :
                                       p # q /\ stage[p] # "down" /\ stage[q] # "down"}
    /\ UNCHANGED <<stored, meter, stage, told, size, unsaved, history>>

MeterNext ==
    \/ NextDay
    \/ \E p \in Meters :
          \/ Start(p) \/ Stop(p) \/ Kill(p)
          \/ Fetched(p) \/ FetchedUnsaved(p) \/ FetchFails(p)
          \/ Save(p) \/ SaveFails(p)
          \/ \E n \in Sizes : \/ \E t \in Tolds : Allow(p, t, n)
                            \/ FetchUnasked(p, n)

MeterSpec == MeterInit /\ [][MeterNext]_meterVars

-----------------------------------------------------------------------------
Counts == [date : Dates \cup {-1}, month : Nat \cup {-1}, day : Nat, month_bytes : Nat]

MeterTypeOK ==
    /\ today \in Dates
    /\ stored \in Counts
    /\ meter \in [Meters -> Counts]
    /\ stage \in [Meters -> {"down", "idle", "fetching", "saving"}]
    /\ told \in [Meters -> Tolds \cup {0}]
    /\ size \in [Meters -> Sizes \cup {0}]
    /\ unsaved \in [Meters -> BOOLEAN]
    /\ spent \in [Dates -> Nat] /\ beyond \in [Dates -> Nat]
    /\ spentIn \in [Months -> Nat] /\ beyondIn \in [Months -> Nat]
    /\ received \in [Dates -> Nat]
    /\ disturbed \subseteq Dates
    /\ \A p \in Meters : /\ size[p] # 0 <=> stage[p] \in {"fetching", "saving"}
                         /\ told[p] # 0 => size[p] # 0

DaysOf(month) == {d \in Dates : MonthOf(d) = month}

(* "So a node won't blow past the data cap its operator set"               *)
(* (bandwidth.py:10), and "the counters live in a JSON file so the budget  *)
(* survives restarts" (6): what the downloads that succeeded bring in on a *)
(* day is within the cap, over any number of restarts and with a download  *)
(* that began before midnight.                                             *)
DayWithinCap == DayCap # 0 => \A d \in Dates : spent[d] =< DayCap

(* The same of the days on which one process ran at a time, none was       *)
(* killed in record() and none ended with a write that had failed and was  *)
(* not made good, whatever happened on the days before; and of the months  *)
(* all of whose days were like that.  Servers may tell no size, or one too *)
(* small (SPEC.md:316): the bytes they did not tell of come on top, and no *)
(* others.                                                                 *)
QuietWithinCap ==
    /\ DayCap # 0 => \A d \in Dates \ disturbed : spent[d] =< DayCap + beyond[d]
    /\ MonthCap # 0 =>
          \A m \in Months : DaysOf(m) \cap disturbed = {} =>
                             spentIn[m] =< MonthCap + beyondIn[m]

(* The meter never counts a byte that was not downloaded in its period,    *)
(* whichever process wrote the file last or died in writing it: a budget   *)
(* is never refused that is still there.                                   *)
NeverOvercounts ==
    \A m \in {stored} \cup {meter[p] : p \in Meters} : m # NoCounts =>
        /\ m.day =< spent[m.date]
        /\ m.month_bytes =< spentIn[m.month]

(* bandwidth.py errs on neither side: with the one process it was written  *)
(* for no byte that was told of passes a cap, and with any number of       *)
(* processes no byte is counted twice.                                     *)
MeterIsSound == QuietWithinCap /\ NeverOvercounts

(* The cap holds of all bytes downloaded, those of a download that fails   *)
(* too.                                                                    *)
ReceivedWithinCap == DayCap # 0 => \A d \in Dates : received[d] =< DayCap
=============================================================================
