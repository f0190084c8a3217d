SPECIFICATION RoleSpec
CONSTANTS
    t1 = t1
    t2 = t2
    t3 = t3
    Threads = {t1, t2, t3}
    Writers = {t1}
PROPERTIES PrivilegedAcquires
