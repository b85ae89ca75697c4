SPECIFICATION Spec
CONSTANTS
    e1 = e1
    e2 = e2
    d1 = d1
    d2 = d2
    d3 = d3
    Events = {e1}
    Deliveries = {d1, d2, d3}
    MaxSends = 3
    Attempts = 2
    Slow = {e1}
    Crashes = {}
    DbFails = {}
    AddsLost = {}
    MaxJobs = 1
CHECK_DEADLOCK FALSE
INVARIANTS AckedIsQueued
