----------------------------- MODULE Statistics -----------------------------
(***************************************************************************)
(* The histogram of src/src/util/histogram.c with its two charts, and the    *)
(* running mean and variance of src/src/util/stats.c.  A chart is a sequence *)
(* of cells; the escape codes and glyphs drawn for them are left out.  At    *)
(* the end the profiler, which keeps such statistics of the times it takes.  *)
(***************************************************************************)
EXTENDS Integers, Sequences, SequencesExt, FiniteSets, FiniteSetsExt, TLC

LOCAL NoBin == -1

LOCAL Quot(a, b) == IF (a < 0) = (b < 0) THEN (IF a < 0 THEN -a ELSE a) \div (IF b < 0 THEN -b ELSE b)
                    ELSE -((IF a < 0 THEN -a ELSE a) \div (IF b < 0 THEN -b ELSE b))

\* Bins are rounded up so that together they reach the upper bound.
LOCAL StepOf(num_bins, low, high) ==
    LET step == (high - low) \div num_bins
    IN  IF low + step * num_bins < high THEN step + 1 ELSE step

LOCAL NoCounts(n) == [i \in 0 .. n - 1 |-> 0]

\* histogram_init_from_buf in the buffer histogram_init allocates: it always suffices.
histogram_init(num_bins, low, high, track_overflow) ==
    [low |-> low, high |-> high, step |-> StepOf(num_bins, low, high),
     overflow |-> track_overflow,
     bins |-> NoCounts(IF track_overflow THEN num_bins + 1 ELSE num_bins)]

LOCAL NumBins(h) == IF h.bins = <<>> THEN 0 ELSE Max(DOMAIN h.bins) + 1

\* The bins under the ticks: all but the overflow bin.
LOCAL Plotted(h) == IF h.overflow THEN NumBins(h) - 1 ELSE NumBins(h)

histogram_reset(h) == [h EXCEPT !.bins = NoCounts(NumBins(h))]

histogram_set_bounds(h, low, high) ==
    [h EXCEPT !.low = low, !.high = high, !.step = StepOf(Plotted(h), low, high)]

\* The check for samples below the first bin is missing.
BinOfUnchecked(h, sample) ==
    LET ix == Quot(sample - h.low, h.step)
    IN  IF ix < NumBins(h) THEN ix ELSE IF h.overflow THEN NumBins(h) - 1 ELSE NoBin

\* A sample in no bin goes to the overflow bin, if there is one.
BinOf(h, sample) ==
    LET ix == (sample - h.low) \div h.step
    IN  IF sample >= h.low /\ ix < NumBins(h) THEN ix
        ELSE IF h.overflow THEN NumBins(h) - 1 ELSE NoBin

histogram_add_sample(h, sample) ==
    LET ix == BinOf(h, sample)
    IN  IF ix = NoBin THEN h ELSE [h EXCEPT !.bins[ix] = @ + 1]

histogram_max_bin(h) == Max({0} \cup {h.bins[i] : i \in DOMAIN h.bins})

\* The vertical axis: the label of a bin, and its bar in quarters of a cell.  A histogram
\* without samples divides by its largest count, 0.
histogram_plot(h, max_bar_len) ==
    LET most == histogram_max_bin(h) IN
    [i \in DOMAIN h.bins |->
       [label |-> IF h.overflow /\ i = NumBins(h) - 1 THEN "OV" ELSE h.low + i * h.step,
        tick |-> CASE i = 0 -> "start"
                   [] i > 0 /\ i = Plotted(h) - 1 -> "end"
                   [] i > 0 /\ i > Plotted(h) - 1 -> "none"
                   [] i > 0 /\ i < Plotted(h) - 1 -> "middle",
        quarters |-> (h.bins[i] * max_bar_len * 4) \div most]]

\* The horizontal axis: the cells of each bar from the bottom, in eighths; a bar over the
\* threshold is cut to the height of the chart, and its top cell is a triangle (9).
Bars(h, max_bar_len, threshold) ==
    LET counted == {h.bins[i] : i \in DOMAIN h.bins}
        most == Max({1} \cup {c \in counted : threshold = 0 \/ c <= threshold})
    IN  [i \in DOMAIN h.bins |->
           LET cut == threshold > 0 /\ h.bins[i] > most
               len == IF cut THEN max_bar_len * 8 ELSE (h.bins[i] * max_bar_len * 8) \div most
           IN  [y \in 0 .. max_bar_len - 1 |->
                  CASE cut /\ y = max_bar_len - 1 -> 9
                    [] ~(cut /\ y = max_bar_len - 1) /\ y < len \div 8 -> 8
                    [] y = len \div 8 -> len % 8
                    [] y > len \div 8 -> 0]]

\* The smallest divisor of the bins in [min_tick_step, 25], or one tick for them all.
TickStep(num_bins, min_tick_step) ==
    LET fitting == {d \in min_tick_step .. 25 : num_bins % d = 0}
    IN  IF fitting = {} THEN num_bins ELSE Min(fitting)

Axis(num_bins, tick_step) ==
    [pos \in 0 .. num_bins - 1 |->
        CASE pos = 0 -> "start"
          [] pos > 0 /\ pos = num_bins - 1 -> "end"
          [] pos > 0 /\ pos < num_bins - 1 -> IF pos % tick_step = 0 THEN "middle" ELSE "line"]

\* The labels under the ticks: <<position, value>>, each padded to the next; the last one
\* is the number of bins times the step, whatever the first bin starts at.
Labels(h, tick_step) ==
    LET n == Plotted(h)
        at == {k * tick_step : k \in 0 .. (n - 1) \div tick_step}
    IN  {<<p, h.low + p * h.step>> : p \in at \cap (0 .. n - 2)} \cup {<<n - 1, n * h.step>>}

----------------------------------------------------------------------------
(* Welford's running mean and variance, in fixed point.                    *)
stats_init(fp_exp) == [fp_exp |-> fp_exp, count |-> 0, mean |-> 0, m2 |-> 0]

stats_add_fixed_sample(os, sample) ==
    LET count == os.count + 1
        mean  == os.mean + Quot(sample - os.mean, count)
    IN  IF count = 1 THEN [os EXCEPT !.count = 1, !.mean = sample, !.m2 = 0]
        ELSE [os EXCEPT !.count = count, !.mean = mean,
                        !.m2 = @ + ((sample - os.mean) * (sample - mean)) \div 2^os.fp_exp]

stats_variance(os) == IF os.count < 1 THEN 0 ELSE Quot(os.m2, os.count)

stats_sample_variance(os) == IF os.count < 2 THEN 0 ELSE Quot(os.m2, os.count - 1)

----------------------------------------------------------------------------
LOCAL Filled(h, samples) == FoldLeft(histogram_add_sample, h, samples)

LOCAL Total(h) == FoldLeft(LAMBDA n, i : n + h.bins[i - 1], 0, [i \in 1..NumBins(h) |-> i])

\* Every sample is counted once, in the bin whose bounds enclose it: none is lost while
\* an overflow bin takes those out of range, and the bins together cover the bounds.
SamplesAreBinned(h, samples) ==
    LET full == Filled(h, samples)
        inside(i, s) == h.low + i * h.step <= s /\ s < h.low + (i + 1) * h.step
    IN  h.step > 0 =>
          /\ \A i \in 0 .. Plotted(h) - 1 :
                full.bins[i] = Cardinality({k \in DOMAIN samples : inside(i, samples[k])})
          /\ h.overflow => Total(full) = Len(samples)
          /\ \A s \in h.low .. h.high - 1 : BinOf(h, s) \in 0 .. Plotted(h) - 1
          /\ histogram_reset(full) = h

\* A chart draws the largest count at full length and no bar beyond it, in cells the code
\* has a glyph for; the axis has one end, and its ticks stand over its labels.
ChartsAgree(h, samples, max_bar_len, min_tick_step, threshold) ==
    LET full == Filled(h, samples)
        step == TickStep(Plotted(h), min_tick_step)
        axis == Axis(Plotted(h), step)
        bars == Bars(full, max_bar_len, threshold)
        down == histogram_plot(full, max_bar_len)
    IN  h.step > 0 /\ Plotted(h) > 1 /\ histogram_max_bin(full) > 0 =>
          /\ \A i \in DOMAIN full.bins :
                /\ down[i].quarters <= 4 * max_bar_len
                /\ full.bins[i] = histogram_max_bin(full) =>
                      down[i].quarters = 4 * max_bar_len /\ bars[i][max_bar_len - 1] # 0
                /\ \A y \in 0 .. max_bar_len - 1 :
                      /\ bars[i][y] \in 0..9
                      /\ y > 0 /\ bars[i][y] # 0 => bars[i][y - 1] = 8
          /\ {p \in DOMAIN axis : axis[p] = "end"} = {Plotted(h) - 1}
          /\ \A l \in Labels(h, step) : axis[l[1]] # "line"

\* The mean lies within the samples, equal samples have no variance, and the variance is
\* never negative.
StatsAgree(samples, fp_exp) ==
    LET os == FoldLeft(stats_add_fixed_sample, stats_init(fp_exp), samples)
        in == {samples[k] : k \in DOMAIN samples}
    IN  samples # <<>> =>
          /\ Min(in) <= os.mean /\ os.mean <= Max(in)
          /\ stats_variance(os) >= 0 /\ stats_sample_variance(os) >= stats_variance(os)
          /\ Cardinality(in) = 1 => stats_sample_variance(os) = 0

-----------------------------------------------------------------------------
(* The profiler of src/src/profile.c: named items that time what runs between *)
(* profile_start and profile_stop with a timer that wraps round, less the     *)
(* cost of the two calls, which profile_calibrate measures.                   *)
CONSTANTS TimerWords,   \* values of the timer, 2^32 in the code
          NameLen       \* characters of a name that are kept, 15 in the code

LOCAL MaxWord == TimerWords - 1

\* ids: the identifiers prop_new_global_id will hand out.
LOCAL NoProfiles(max) == [list |-> <<>>, max |-> max, overhead |-> 0, ids |-> [k \in 1..20 |-> 1000 + k]]

LOCAL Zeroed(p) == [p EXCEPT !.active = FALSE, !.start_time = 0, !.stats = stats_init(0),
                             !.min = MaxWord, !.max = 0]
LOCAL NewItem(id, name) == Zeroed([id |-> id, name |-> name, active |-> FALSE, start_time |-> 0,
                                   stats |-> <<>>, min |-> 0, max |-> 0])

LOCAL NotFound == 0
LOCAL First(found) == IF found = {} THEN NotFound ELSE Min(found)

profile__find(s, id) == First({k \in DOMAIN s.list : s.list[k].id = id})
profile__find_by_name(s, name) == First({k \in DOMAIN s.list : s.list[k].name = name})

LOCAL Changed(s, id, New(_)) ==
    LET k == profile__find(s, id)
    IN  IF k = NotFound THEN s ELSE [s EXCEPT !.list[k] = New(@)]

\* The state after it, and the identifier it returns: that of an item of the name, if one is
\* given, or of the identifier; 0 when there is no room.  <<>> is no name.
profile_add(s, id, name, can_alloc) ==
    LET named == profile__find_by_name(s, name)
        new   == IF id = 0 THEN Head(s.ids) ELSE id
        kept  == IF name = <<>> THEN <<new>> ELSE SubSeq(name, 1, Min({NameLen, Len(name)}))
    IN  IF name # <<>> /\ named # NotFound THEN [s |-> s, id |-> s.list[named].id]
        ELSE IF name = <<>> /\ id # 0 /\ profile__find(s, id) # NotFound THEN [s |-> s, id |-> id]
        ELSE IF (s.max > 0 /\ Len(s.list) >= s.max) \/ ~can_alloc THEN [s |-> s, id |-> 0]
        ELSE [s |-> [s EXCEPT !.list = <<NewItem(new, kept)>> \o @,
                              !.ids = IF id = 0 THEN Tail(@) ELSE @], id |-> new]

profile_delete(s, id) ==
    LET k == profile__find(s, id) IN IF k = NotFound THEN s ELSE [s EXCEPT !.list = RemoveAt(@, k)]

profile_delete_all(s) == [s EXCEPT !.list = <<>>]

\* Started again, an item keeps its first start.
profile_start(s, id, now) ==
    Changed(s, id, LAMBDA p : IF p.active THEN p ELSE [p EXCEPT !.start_time = now, !.active = TRUE])

\* A time no longer than the overhead is counted whole.
Taken(elapsed, overhead) == IF elapsed > overhead THEN elapsed - overhead ELSE elapsed

profile_stop(s, id, now) ==
    Changed(s, id, LAMBDA p :
        LET elapsed == Taken((now - p.start_time) % TimerWords, s.overhead)
        IN  IF ~p.active THEN p
            ELSE [p EXCEPT !.stats = stats_add_fixed_sample(@, elapsed), !.active = FALSE,
                           !.min = Min({@, elapsed}), !.max = Max({@, elapsed})])

\* An item of its own is timed, 20 times in the code; `costs` is what each pair of calls takes.
profile_calibrate(s, costs, can_alloc) ==
    LET added == profile_add(s, 0, <<>>, can_alloc)
        timed == FoldLeft(LAMBDA st, c : profile_stop(profile_start(st, added.id, 0), added.id, c),
                          [added.s EXCEPT !.overhead = 0], costs)
    IN  IF added.id = 0 THEN s
        ELSE profile_delete([timed EXCEPT !.overhead = timed.list[profile__find(timed, added.id)].min], added.id)

profile_init(max, costs, can_alloc) == profile_calibrate(NoProfiles(max), costs, can_alloc)

profile_reset(s, id) == Changed(s, id, Zeroed)

profile_reset_all(s) == [s EXCEPT !.list = [k \in DOMAIN s.list |-> Zeroed(s.list[k])]]

----------------------------------------------------------------------------
(* Sequences of calls, and what they should leave.                         *)
LOCAL Apply(s, c) ==
    CASE c.op = "add" -> profile_add(s, c.id, c.name, TRUE).s
      [] c.op = "run" -> profile_stop(profile_start(s, c.id, c.from), c.id, c.to)
      [] c.op = "again" -> profile_stop(profile_start(profile_start(s, c.id, c.from), c.id, c.to), c.id, c.to)
      [] c.op = "delete" -> profile_delete(s, c.id)
      [] c.op = "reset" -> profile_reset(s, c.id)

\* What they should leave: the times each identifier has counted.
LOCAL Expected(max, overhead, calls) ==
    LET time(c) == IF c.to >= c.from THEN c.to - c.from ELSE c.to + TimerWords - c.from
        less(t) == IF t > overhead THEN t - overhead ELSE t
        step(kept, c) ==
            CASE c.op = "add" -> IF c.id \in DOMAIN kept \/ (max > 0 /\ Cardinality(DOMAIN kept) >= max)
                                 THEN kept ELSE (c.id :> <<>>) @@ kept
              [] c.op = "delete" -> [id \in DOMAIN kept \ {c.id} |-> kept[id]]
              [] c.op = "reset" -> [id \in DOMAIN kept |-> IF id = c.id THEN <<>> ELSE kept[id]]
              [] c.op \in {"run", "again"} ->
                   [id \in DOMAIN kept |-> IF id = c.id THEN Append(kept[id], less(time(c))) ELSE kept[id]]
    IN  FoldLeft(step, << >>, calls)

\* Whatever is added, removed, reset and timed, there is one item of each identifier added,
\* up to the limit, and it has counted its runs and no others: over a wrap of the timer, from
\* the first of two starts and with the overhead taken off.  Its mean lies between its
\* shortest and its longest.
ProfilesAgree(max, costs, calls) ==
    LET start == profile_init(max, costs, TRUE) IN
    \A s \in {FoldLeft(Apply, start, calls)} :
    \A expected \in {Expected(max, start.overhead, calls)} :
        /\ start.list = <<>> /\ start.overhead = Min(Range(costs))
        /\ {p.id : p \in Range(s.list)} = DOMAIN expected /\ Len(s.list) = Cardinality(DOMAIN expected)
        /\ \A p \in Range(s.list) :
              LET times == expected[p.id]
              IN  /\ ~p.active /\ p.stats.count = Len(times)
                  /\ times # <<>> =>
                        /\ p.min = Min(Range(times)) /\ p.max = Max(Range(times))
                        /\ p.min <= p.stats.mean /\ p.stats.mean <= p.max
        /\ \A p \in Range(profile_reset_all(s).list) : p.stats.count = 0 /\ p.min = MaxWord
        /\ profile_delete_all(s).list = <<>>

=============================================================================
