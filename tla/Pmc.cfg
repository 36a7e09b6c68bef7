SPECIFICATION FairSpec
CONSTANT Depth = 4
INVARIANTS PowerOffOnCommand NoRebootTail
PROPERTIES RebootHappens PowerOffHappens
