-------------------------- MODULE MCLocalPractice --------------------------
(* A small instance of LocalPractice: a lesson of two notes an eighth apart   *)
(* and one of a single note, and steps of time that fall on time and late.   *)
EXTENDS LocalPractice

MCInputs == {[type |-> "NOTE_ON", key |-> 60, velocity |-> 90],
             [type |-> "NOTE_ON", key |-> 60, velocity |-> 0]}

MCExpected(id, pitch, tick) == [id |-> id, pitch |-> pitch, tick |-> tick]

MCLessonOf ==
    [lesson \in Lessons |->
        [ppq |-> 480, tempos |-> <<[tick |-> 0, mpq |-> 500000]>>,
         expected |-> IF lesson = "l1"
                      THEN <<MCExpected("a", 60, 0), MCExpected("b", 62, 240)>>
                      ELSE <<MCExpected("a", 60, 0)>>]]

MCBudget(time, messages, takes, loads) ==
    [time |-> time, messages |-> messages, takes |-> takes, loads |-> loads]

\* An attempt that is judged, one of two repetitions, two attempts that overlap, the same in
\* a later repetition (so that half of a place may be lost), and two lessons with an attempt
\* or with two at which nothing is played.
MCBudgets ==
    {MCBudget(1, 3, 1, 1), MCBudget(4, 2, 1, 1), MCBudget(1, 2, 2, 0),
     MCBudget(2, 1, 2, 0), MCBudget(1, 1, 1, 2), MCBudget(0, 0, 2, 2)}

=============================================================================
