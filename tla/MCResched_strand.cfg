\* The idle task, the dispatcher and a user task.
SPECIFICATION Spec
CONSTANTS
    idle = idle
    disp = disp
    user = user
    Tasks = {idle, disp, user}
    Kthreads = {idle, disp}
    Idle = idle
    NoTask = NoTask
INVARIANT NoTaskStranded
