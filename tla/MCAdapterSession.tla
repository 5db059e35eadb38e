--------------------------- MODULE MCAdapterSession ---------------------------
(* A small session: plans of one to three samples, batches of two.           *)
EXTENDS AdapterSession

\* Plans that fit one batch; with a gap; and with a sample for the feeder.
MCPlans ==
    LET t == ControlTick IN
    {<<t>>, <<2 * t>>, <<t, 2 * t>>, <<t, 3 * t>>, <<t, 2 * t, 3 * t>>}

=============================================================================
