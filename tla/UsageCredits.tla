---------------------------- MODULE UsageCredits ----------------------------
(***************************************************************************)
(* The credit price of one moderation call (app/usage_credits.py): a flat  *)
(* weight for text and images, a weight per started minute for audio and   *)
(* video.  Durations are whole seconds here; the ceiling of the division   *)
(* by sixty is the same for the fractions in between.                      *)
(***************************************************************************)
EXTENDS Integers

Modalities == {"text", "image", "audio", "video"}

\* The modalities billed by the started minute.
TimedModalities == {"audio", "video"}

\* None in the code: the caller stated no duration.
NoDuration == -1

Durations == Nat \cup {NoDuration}

credits_for_modality(modality) ==
    [text |-> 1, image |-> 10, audio |-> 10, video |-> 50][modality]

\* ceil(duration / 60), never less than one minute.
StartedMinutes(duration) ==
    IF duration <= 60 THEN 1 ELSE (duration + 59) \div 60

credits_for_usage(modality, duration) ==
    IF modality \in TimedModalities
    THEN credits_for_modality(modality) * StartedMinutes(duration)
    ELSE credits_for_modality(modality)

\* What the monthly sum adds for a stored row: the price frozen at admission
\* when there is one, else (0) the price recomputed from the row.
credits_for_record(modality, stored_cost, duration) ==
    IF stored_cost > 0 THEN stored_cost ELSE credits_for_usage(modality, duration)
=============================================================================
