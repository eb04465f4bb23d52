-------------------------- MODULE MCControlService --------------------------
(* Model-checking instance of ServiceJobs, and of the ControlService in it: *)
(* requests that overlap on the main core, jobs that overlap with each      *)
(* other, and each end of the service with what may be under way.           *)
EXTENDS ServiceJobs

CONSTANTS start1, start2, stop1, apply1, test1, kick1, kick2, scan1, scan2

MCScenarios ==
  {{start1, start2, apply1},
   {start1, stop1, apply1},
   {kick1, kick2},
   {scan1, scan2, kick1},
   {test1, start1},
   {Watcher, start1},
   {Watcher, apply1},
   {Watcher, kick1},
   {Interrupt, start1, scan1}}
=============================================================================
