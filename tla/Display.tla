------------------------------- MODULE Display --------------------------------
(***************************************************************************)
(* The spectrum of pc_data.py: update_properties and freq_domain_update as *)
(* threads that share window_map, freq_mag, freq_mag_history and freq_axis *)
(* without a lock, and the last decoded buffer, which stays in its queue.  *)
(* Each statement is one step.                                             *)
(*                                                                         *)
(* A buffer is the settings (rate and length) with which it was acquired.  *)
(* An array of frequencies is the buffer it comes from, its kind, and the  *)
(* number n of points it was transformed with.  Averaging is on.           *)
(***************************************************************************)
EXTENDS Naturals, Sequences, SequencesExt

CONSTANTS
  Rates, SampleLengths,   \* what the user can select
  Averages,               \* values of number_of_averages
  Drawers,                \* threads that run freq_domain_update
  MaxUpdates              \* bound: how often the user changes a property

ASSUME LengthsAssumption  == SampleLengths \subseteq Nat \ {0}
ASSUME AveragesAssumption == Averages \subseteq Nat \ {0}

Settings == [rate : Rates, length : SampleLengths]
Unset    == [rate |-> "unset", length |-> 0]

VARIABLES
  adc,                     \* adc.sample_rate and adc.number_of_samples
  decoded,                 \* decoded_data_queue[0], or Unset
  window,                  \* the length of the windows of window_map, 0 without
  freq_mag, freq_mag_history, averages,   \* averages: maxlen of the history
  freq_axis,
  refresh,                 \* a callback of freq_domain_update is due
  draw_pc, update_pc,
  figure,                  \* the axis and the set of spectra in the average
  updates                  \* history: how often a property was changed

displayVars == <<adc, decoded, window, freq_mag, freq_mag_history, averages, freq_axis,
                 refresh, draw_pc, update_pc, figure, updates>>

Frequencies(kind, of, n) == [kind |-> kind, of |-> of, n |-> n]

Init ==
  /\ adc = Unset /\ decoded = Unset /\ window = 0
  /\ freq_mag = Frequencies("initial", Unset, 0)
  /\ freq_mag_history = <<>> /\ averages = 1
  /\ freq_axis = Unset
  /\ refresh = FALSE
  /\ draw_pc = [d \in Drawers |-> "idle"]
  /\ update_pc = "idle"
  /\ figure = [axis |-> Unset, spectra |-> {}]
  /\ updates = 0

-----------------------------------------------------------------------------
\* acquire_data: a buffer of the present settings; number_of_samples 0 and a
\* configuration leave the old one.  The status it returns is the input of
\* freq_domain_update.
acquire_data ==
  /\ refresh' = TRUE
  /\ decoded' = IF update_pc = "configuring" THEN decoded ELSE adc
  /\ UNCHANGED <<adc, window, freq_mag, freq_mag_history, averages, freq_axis, draw_pc,
                 update_pc, figure, updates>>

\* The other input of freq_domain_update: the user selects a window.
SelectWindow ==
  /\ refresh' = TRUE
  /\ UNCHANGED <<adc, decoded, window, freq_mag, freq_mag_history, averages, freq_axis,
                 draw_pc, update_pc, figure, updates>>

-----------------------------------------------------------------------------
(***************************************************************************)
(* update_properties.                                                      *)
(***************************************************************************)
UpdateStep(from, to) ==
  /\ update_pc = from
  /\ update_pc' = to
  /\ UNCHANGED <<decoded, freq_mag, refresh, draw_pc, figure>>

\* modify_sample_properties, as far as its new parameters are set.
modify_sample_properties ==
  /\ updates < MaxUpdates
  /\ updates' = updates + 1
  /\ UpdateStep("idle", "configuring")
  /\ adc' \in Settings \ {adc}
  /\ UNCHANGED <<window, freq_mag_history, averages, freq_axis>>

\* Its end: stop_loops is lifted.
Configured ==
  /\ UpdateStep("configuring", "window")
  /\ UNCHANGED <<adc, window, freq_mag_history, averages, freq_axis, updates>>

RebuildWindows ==
  /\ UpdateStep("window", "history")
  /\ window' = adc.length
  /\ UNCHANGED <<adc, freq_mag_history, averages, freq_axis, updates>>

\* The user changes number_of_averages only.
ChangeAverages ==
  /\ updates < MaxUpdates
  /\ updates' = updates + 1
  /\ adc # Unset
  /\ UpdateStep("idle", "history")
  /\ UNCHANGED <<adc, window, freq_mag_history, averages, freq_axis>>

ClearHistory ==
  /\ UpdateStep("history", "axis")
  /\ freq_mag_history' = <<>>
  /\ averages' \in Averages
  /\ UNCHANGED <<adc, window, freq_axis, updates>>

NewAxis ==
  /\ UpdateStep("axis", "idle")
  /\ freq_axis' = adc
  /\ UNCHANGED <<adc, window, freq_mag_history, averages, updates>>

UpdateRuns == Configured \/ RebuildWindows \/ ClearHistory \/ NewAxis

-----------------------------------------------------------------------------
(***************************************************************************)
(* freq_domain_update.                                                     *)
(***************************************************************************)
DrawStep(d, from, to) ==
  /\ draw_pc[d] = from
  /\ draw_pc' = [draw_pc EXCEPT ![d] = to]
  /\ UNCHANGED <<adc, decoded, window, averages, freq_axis, update_pc, updates>>

\* IndexError without a buffer, KeyError without windows, ValueError when the
\* buffer and the window differ in length: nothing is drawn.
NoSpectrum(d) ==
  /\ refresh
  /\ decoded = Unset \/ window # decoded.length
  /\ refresh' = FALSE
  /\ DrawStep(d, "idle", "idle")
  /\ UNCHANGED <<freq_mag, freq_mag_history, figure>>

ApplyWindow(d) ==
  /\ refresh
  /\ decoded # Unset /\ window = decoded.length
  /\ refresh' = FALSE
  /\ DrawStep(d, "idle", "transform")
  /\ freq_mag' = Frequencies("windowed", decoded, 0)
  /\ UNCHANGED <<freq_mag_history, figure>>

\* "Compute the frequency magnitude in dBRMS", of whatever freq_mag is now.
Transform(d) ==
  /\ DrawStep(d, "transform", "store")
  /\ freq_mag' = Frequencies(IF freq_mag.kind = "windowed" THEN "spectrum" ELSE "twice",
                             freq_mag.of, adc.length)
  /\ UNCHANGED <<freq_mag_history, refresh, figure>>

\* Mutant: a full history takes no new value.
Store_first(d) ==
  /\ DrawStep(d, "store", "show")
  /\ freq_mag_history' =
       IF Len(freq_mag_history) < averages THEN Append(freq_mag_history, freq_mag)
                                           ELSE freq_mag_history
  /\ UNCHANGED <<freq_mag, refresh, figure>>

\* "Store every value": append to a deque drops its oldest value when full.
Store(d) ==
  /\ DrawStep(d, "store", "show")
  /\ freq_mag_history' =
       Append(IF Len(freq_mag_history) < averages THEN freq_mag_history
                                                  ELSE Tail(freq_mag_history), freq_mag)
  /\ UNCHANGED <<freq_mag, refresh, figure>>

\* The average of spectra of different sizes is an error; else it is drawn.
Show(d) ==
  /\ DrawStep(d, "show", "idle")
  /\ LET spectra == ToSet(freq_mag_history)
     IN  figure' = IF \E s, t \in spectra : s.n # t.n THEN figure
                   ELSE [axis |-> freq_axis, spectra |-> spectra]
  /\ UNCHANGED <<freq_mag, freq_mag_history, refresh>>

freq_domain_update(d) ==
  NoSpectrum(d) \/ ApplyWindow(d) \/ Transform(d) \/ Store(d) \/ Show(d)

-----------------------------------------------------------------------------
Next ==
  \/ acquire_data \/ SelectWindow
  \/ modify_sample_properties \/ ChangeAverages \/ UpdateRuns
  \/ \E d \in Drawers : freq_domain_update(d)

Spec == Init /\ [][Next]_displayVars

\* The timer goes on and so does each thread.
FairSpec ==
  /\ Spec
  /\ WF_displayVars(acquire_data)
  /\ WF_displayVars(UpdateRuns)
  /\ \A d \in Drawers : WF_displayVars(freq_domain_update(d))

-----------------------------------------------------------------------------
\* When the user has stopped changing the properties, the figure comes to show,
\* and goes on to show, an average of spectra of buffers acquired with the last
\* settings only, over the axis of these settings: whatever mixture of old
\* buffers, windows, spectra and axes the threads produced on the way.  For one
\* drawer.
DisplayRecovers ==
  <>[](adc # Unset =>
         figure = [axis |-> adc, spectra |-> {Frequencies("spectrum", adc, adc.length)}])

-----------------------------------------------------------------------------
\* "Compute the frequency magnitude in dBRMS", "Store every value and
\* calculate the average": the values stored are magnitudes of frequencies.
StoredIsSpectrum ==
  \A k \in DOMAIN freq_mag_history : freq_mag_history[k].kind = "spectrum"
=============================================================================
