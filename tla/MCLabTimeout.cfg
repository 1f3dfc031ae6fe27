SPECIFICATION Spec
CONSTANTS
    Leader = leader
    Children = {cargo, qemu}
    Deaf = {qemu}
INVARIANT TimeoutEndsTheGroup
