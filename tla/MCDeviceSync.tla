---------------------------- MODULE MCDeviceSync ----------------------------
(* Instances of DeviceSync: two devices, and what their users do.          *)
EXTENDS DeviceSync

CONSTANTS d1, d2

Scenario(creators, deleters, purging, busy, n) ==
  [creators |-> creators, deleters |-> deleters, purging |-> purging, busy |-> busy, edits |-> n]

\* Two devices create and edit while the service may turn requests away; or one deletes,
\* restores and edits while the other edits and the trash is purged.
MCScenarios == {Scenario({d1, d2}, {}, FALSE, TRUE, 2), Scenario({}, {d1}, TRUE, FALSE, 1)}

\* Once the users have made their edits a form saves nothing more: states that differ
\* in their forms only are the same.
View == [v |-> <<scenario, row, local, offered, queue, call, sync, edits, toggles, applied, purged>>,
         form |-> IF edits < scenario.edits THEN form ELSE <<>>]

\* The counterexamples: a device alone with a service that turns requests away, and two
\* devices that do everything.
Everything == {Scenario({d1}, {d1}, FALSE, TRUE, 2), Scenario({d1, d2}, {d1, d2}, FALSE, FALSE, 3)}

=============================================================================
